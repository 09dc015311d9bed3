-------------------------- MODULE OpenForkProofs --------------------------
(***************************************************************************)
(* Proofs about OpenFork, for any image, fork, width of counts and offsets *)
(* and block size: the volume is where it was put, the list of a fork      *)
(* covers it, a sound fork's list is exact, and its ranges and its reader  *)
(* give the bytes that were written.                                       *)
(*                                                                         *)
(* What a recursive definition computes is proved by least elements: of    *)
(* the indices at which a claim fails there is a least one (Least), and    *)
(* the definition's step contradicts it.                                   *)
(***************************************************************************)
EXTENDS OpenFork, WellFoundedInduction, TLAPS

---------------------------------------------------------------------------
(* Recursion over the naturals, and sequences. *)

\* A set of naturals has a least element.
LEMMA Least ==
    ASSUME NEW T \in SUBSET Nat, T # {}
    PROVE  \E x \in T : \A y \in T : x <= y
<1>1. PICK x \in T : \A y \in T : ~ (<<y, x>> \in OpToRel(<,Nat))
  BY NatLessThanWellFounded, WFMin
<1>2. ASSUME NEW y \in T, y < x PROVE FALSE
  <2>1. <<y, x>> \in OpToRel(<,Nat)
    BY <1>2 DEF OpToRel
  <2>. QED BY <1>1, <2>1
<1>. QED BY <1>2

\* What a recursive definition with these steps defines.
Unfolds(f, n, base, step) == f[0] = base /\ \A i \in 1..n : f[i] = step[i][f[i-1]]

\* There is such a function.
LEMMA RecursionExists ==
    ASSUME NEW n \in Nat, NEW S, NEW base \in S, NEW step \in [1..n -> [S -> S]]
    PROVE  \E f \in [0..n -> S] : Unfolds(f, n, base, step)
<1>. DEFINE Good(k) == \E f \in [0..k -> S] : Unfolds(f, k, base, step)
            T == {k \in 0..n : ~Good(k)}
<1>. SUFFICES ASSUME T # {} PROVE FALSE
  <2>. HIDE DEF Good
  <2>1. n \in 0..n /\ n \notin T => Good(n)
    OBVIOUS
  <2>. QED BY <2>1 DEF Good
<1>1. PICK k \in T : \A y \in T : k <= y
  <2>. HIDE DEF Good
  <2>1. T \in SUBSET Nat
    OBVIOUS
  <2>. QED BY <2>1, Least
<1>2. k # 0
  <2>1. [i \in 0..0 |-> base] \in [0..0 -> S] /\ Unfolds([i \in 0..0 |-> base], 0, base, step)
    BY DEF Unfolds
  <2>2. Good(0)
    BY <2>1
  <2>. HIDE DEF Good
  <2>. QED BY <1>1, <2>2
<1>3. k \in 1..n /\ Good(k - 1)
  <2>. HIDE DEF Good
  <2>1. k \in 0..n /\ k - 1 \in 0..n
    BY <1>1, <1>2
  <2>2. k - 1 \notin T
    BY <1>1, <2>1
  <2>. QED BY <1>2, <2>1, <2>2
<1>4. PICK f \in [0..(k-1) -> S] : Unfolds(f, k - 1, base, step)
  BY <1>3
<1>. DEFINE x == step[k][f[k-1]]
            g == [i \in 0..k |-> IF i = k THEN x ELSE f[i]]
<1>5. f[k-1] \in S /\ x \in S
  <2>1. f[k-1] \in S
    BY <1>3
  <2>. QED BY <1>3, <2>1
<1>6. g \in [0..k -> S]
  BY <1>3, <1>5
<1>7. Unfolds(g, k, base, step)
  <2>1. g[0] = base
    BY <1>3, <1>4 DEF Unfolds
  <2>2. ASSUME NEW i \in 1..k PROVE g[i] = step[i][g[i-1]]
    <3>1. CASE i = k
      <4>1. g[i-1] = f[k-1]
        BY <1>3, <3>1
      <4>. QED BY <1>3, <3>1, <4>1
    <3>2. CASE i # k
      <4>1. i \in 1..k-1 /\ g[i] = f[i] /\ g[i-1] = f[i-1]
        BY <1>3, <3>2
      <4>. QED BY <1>4, <4>1 DEF Unfolds
    <3>. QED BY <3>1, <3>2
  <2>. QED BY <2>1, <2>2 DEF Unfolds
<1>8. Good(k)
  BY <1>6, <1>7
<1>. HIDE DEF Good
<1>. QED BY <1>1, <1>8

\* f and g unfold alike, up to n; they are alike, up to n.
UnfoldAlike(f, g, n) == f[0] = g[0] /\ \A i \in 1..n : f[i-1] = g[i-1] => f[i] = g[i]
Alike(f, g, n)       == \A i \in 0..n : f[i] = g[i]

\* Two definitions that unfold alike up to some point agree up to it.
LEMMA RecursionUnique ==
    ASSUME NEW n \in Nat, NEW f, NEW g, UnfoldAlike(f, g, n)
    PROVE  Alike(f, g, n)
<1>. DEFINE T == {i \in 0..n : f[i] # g[i]}
<1>. SUFFICES ASSUME T # {} PROVE FALSE
  BY DEF Alike
<1>1. PICK k \in T : \A y \in T : k <= y
  <2>1. T \in SUBSET Nat
    OBVIOUS
  <2>. QED BY <2>1, Least
<1>2. k \in 1..n /\ k - 1 \in 0..n /\ k - 1 \notin T
  BY <1>1 DEF UnfoldAlike
<1>. QED BY <1>1, <1>2 DEF UnfoldAlike

---------------------------------------------------------------------------
(* Sums of extents. *)

Lists == Seq(Extent)

LEMMA ExtentTypes ==
    ASSUME NEW exts \in Lists
    PROVE  /\ Len(exts) \in Nat /\ DOMAIN exts = 1..Len(exts)
           /\ \A i \in 1..Len(exts) : /\ exts[i] \in Extent /\ exts[i].start \in Nat
                                      /\ exts[i].count \in Nat /\ exts[i].count < Width
<1>1. Len(exts) \in Nat /\ DOMAIN exts = 1..Len(exts) /\ \A i \in 1..Len(exts) : exts[i] \in Extent
  BY DEF Lists
<1>2. \A e \in Extent : e.start \in Nat /\ e.count \in Nat /\ e.count < Width
  BY ExtentListsAssumption DEF Extent
<1>. QED BY <1>1, <1>2

LEMMA UpToUnfolds ==
    ASSUME NEW exts \in Lists
    PROVE  /\ UpTo(exts) \in [0..Len(exts) -> Nat] /\ UpTo(exts)[0] = 0
           /\ \A i \in 1..Len(exts) : UpTo(exts)[i] = UpTo(exts)[i-1] + exts[i].count
<1>. DEFINE n == Len(exts)
            F(f) == [i \in 0..n |-> IF i = 0 THEN 0 ELSE f[i-1] + exts[i].count]
            step == [i \in 1..n |-> [m \in Nat |-> m + exts[i].count]]
<1>1. n \in Nat /\ \A i \in 1..n : exts[i].count \in Nat
  BY ExtentTypes
<1>. HIDE DEF n
<1>2. step \in [1..n -> [Nat -> Nat]]
  BY <1>1
<1>3. PICK f \in [0..n -> Nat] : Unfolds(f, n, 0, step)
  <2>. HIDE DEF step
  <2>. QED BY <1>1, <1>2, RecursionExists
<1>4. f[0] = 0 /\ \A i \in 1..n : f[i] = f[i-1] + exts[i].count
  <2>1. ASSUME NEW i \in 1..n PROVE step[i][f[i-1]] = f[i-1] + exts[i].count
    BY <1>1
  <2>. QED BY <1>3, <2>1 DEF Unfolds
<1>5. f = F(f)
  <2>1. \A i \in 0..n : f[i] = IF i = 0 THEN 0 ELSE f[i-1] + exts[i].count
    BY <1>1, <1>4
  <2>. QED BY <1>3, <2>1
<1>. DEFINE u == UpTo(exts)
<1>6. u = F(u)
  <2>1. u = CHOOSE g : g = F(g)
    BY DEF UpTo, n
  <2>. HIDE DEF F, u
  <2>. QED BY <1>5, <2>1
<1>. HIDE DEF u
<1>7. u[0] = 0 /\ \A i \in 1..n : u[i] = u[i-1] + exts[i].count
  BY <1>1, <1>6
<1>8. \A i \in 0..n : u[i] = f[i]
  <2>1. u[0] = f[0]
    BY <1>4, <1>7
  <2>2. \A i \in 1..n : u[i-1] = f[i-1] => u[i] = f[i]
    BY <1>4, <1>7
  <2>3. n \in Nat
    BY <1>1
  <2>. HIDE DEF F, step
  <2>7. UnfoldAlike(u, f, n)
    BY ONLY <2>1, <2>2 DEF UnfoldAlike
  <2>8. Alike(u, f, n)
    BY ONLY <2>7, <2>3, RecursionUnique
  <2>. QED BY ONLY <2>8 DEF Alike
<1>. QED BY <1>1, <1>3, <1>6, <1>7, <1>8 DEF u, n

LEMMA Ascends ==
    ASSUME NEW n \in Nat, NEW u \in [0..n -> Nat], \A k \in 1..n : u[k-1] <= u[k],
           NEW i \in 0..n, NEW j \in i..n
    PROVE  u[i] <= u[j]
<1>. DEFINE T == {k \in i..n : ~(u[i] <= u[k])}
<1>. SUFFICES ASSUME T # {} PROVE FALSE
  OBVIOUS
<1>1. PICK k \in T : \A y \in T : k <= y
  <2>1. T \in SUBSET Nat
    OBVIOUS
  <2>. QED BY <2>1, Least
<1>2. k # i
  <2>1. u[i] \in Nat
    OBVIOUS
  <2>. QED BY <1>1, <2>1
<1>3. k \in 1..n /\ k - 1 \in i..n /\ k - 1 \notin T
  BY <1>1, <1>2
<1>4. u[i] \in Nat /\ u[k-1] \in Nat /\ u[k] \in Nat
  <2>1. i \in 0..n /\ k - 1 \in 0..n /\ k \in 0..n
    BY <1>3
  <2>. QED BY <2>1
<1>5. u[i] <= u[k-1] /\ u[k-1] <= u[k]
  BY <1>3
<1>. QED BY <1>1, <1>4, <1>5

LEMMA UpToAscends ==
    ASSUME NEW exts \in Lists, NEW i \in 0..Len(exts), NEW j \in i..Len(exts)
    PROVE  UpTo(exts)[i] <= UpTo(exts)[j]
<1>. DEFINE u == UpTo(exts)
            n == Len(exts)
<1>1. /\ n \in Nat /\ u \in [0..n -> Nat]
      /\ \A k \in 1..n : u[k] = u[k-1] + exts[k].count /\ exts[k].count \in Nat
  BY UpToUnfolds, ExtentTypes
<1>. HIDE DEF u, n
<1>2. i \in 0..n /\ j \in i..n
  BY DEF n
<1>3. ASSUME NEW k \in 1..n PROVE u[k-1] <= u[k]
  <2>1. k - 1 \in 0..n /\ k \in 0..n
    BY <1>1
  <2>2. u[k-1] \in Nat /\ u[k] \in Nat /\ exts[k].count \in Nat /\ u[k] = u[k-1] + exts[k].count
    BY <1>1, <2>1
  <2>. QED BY <2>2
<1>4. u[i] <= u[j]
  BY ONLY <1>1, <1>2, <1>3, Ascends
<1>. QED BY <1>4 DEF u

\* Lists that begin alike sum alike.
LEMMA UpToOfPrefix ==
    ASSUME NEW s \in Lists, NEW t \in Lists, NEW n \in Nat, n <= Len(s), n <= Len(t),
           \A i \in 1..n : s[i].count = t[i].count
    PROVE  \A i \in 0..n : UpTo(s)[i] = UpTo(t)[i]
<1>. DEFINE u == UpTo(s)
            v == UpTo(t)
<1>1. u[0] = v[0]
  BY UpToUnfolds
<1>2. \A i \in 1..n : u[i-1] = v[i-1] => u[i] = v[i]
  <2>1. \A i \in 1..n : i \in 1..Len(s) /\ i \in 1..Len(t)
    BY ExtentTypes
  <2>2. \A i \in 1..n : u[i] = u[i-1] + s[i].count /\ v[i] = v[i-1] + t[i].count
    BY <2>1, UpToUnfolds
  <2>. QED BY <2>2
<1>. HIDE DEF u, v
<1>3. \A i \in 0..n : u[i] = v[i]
  <2>1. UnfoldAlike(u, v, n)
    BY ONLY <1>1, <1>2 DEF UnfoldAlike
  <2>2. Alike(u, v, n)
    BY ONLY <2>1, n \in Nat, RecursionUnique
  <2>. QED BY ONLY <2>2 DEF Alike
<1>. QED BY <1>3 DEF u, v

LEMMA CoveredIsNat ==
    ASSUME NEW exts \in Lists
    PROVE  /\ Covered(exts) \in Nat /\ Len(exts) \in Nat
           /\ \A i \in 0..Len(exts) : UpTo(exts)[i] \in Nat /\ UpTo(exts)[i] <= Covered(exts)
<1>1. Len(exts) \in Nat
  BY ExtentTypes
<1>2. Len(exts) \in 0..Len(exts)
  BY <1>1
<1>3. UpTo(exts) \in [0..Len(exts) -> Nat]
  BY UpToUnfolds
<1>4. \A i \in 0..Len(exts) : Len(exts) \in i..Len(exts)
  BY <1>1
<1>. QED BY <1>1, <1>2, <1>3, <1>4, UpToAscends DEF Covered

---------------------------------------------------------------------------
(* Compacted and trimmed lists. *)

LEMMA UsedIsPrefix ==
    ASSUME NEW exts \in Lists
    PROVE  Used(exts) \in Lists /\ Len(Used(exts)) <= Len(exts)
<1>. DEFINE unused == {i \in DOMAIN exts : exts[i].start = 0 /\ exts[i].count = 0}
            least  == CHOOSE i \in unused : \A j \in unused : i <= j
<1>1. CASE unused = {}
  <2>1. Used(exts) = exts
    BY <1>1 DEF Used
  <2>. QED BY <2>1, ExtentTypes
<1>2. CASE unused # {}
  <2>1. least \in unused
    <3>1. unused \in SUBSET Nat
      BY ExtentTypes
    <3>2. \E i \in unused : \A j \in unused : i <= j
      BY <1>2, <3>1, Least
    <3>. QED BY <3>2
  <2>2. Used(exts) = SubSeq(exts, 1, least - 1)
    BY <1>2 DEF Used
  <2>3. least \in 1..Len(exts) /\ Len(exts) \in Nat
    BY <2>1, ExtentTypes
  <2>. HIDE DEF unused, least
  <2>4. least - 1 \in 0..Len(exts)
    BY <2>3
  <2>. QED BY <2>2, <2>3, <2>4 DEF Lists
<1>. QED BY <1>1, <1>2

\* Lists without an empty extent.
Filled == {exts \in Lists : \A i \in 1..Len(exts) : exts[i].count # 0}

\* Compacting leaves no empty extent, and no more of them than there were.
LEMMA CompactIsFilled ==
    ASSUME NEW exts \in Lists
    PROVE  Compact(exts) \in Filled /\ Len(Compact(exts)) <= Len(exts)
<1>. DEFINE used == Used(exts)
            n == Len(used)
            F(f) == [i \in 0..n |-> IF i = 0 THEN <<>>
                                    ELSE IF used[i].count # 0 THEN Append(f[i-1], used[i]) ELSE f[i-1]]
            step == [i \in 1..n |-> [s \in Lists |-> IF used[i].count # 0 THEN Append(s, used[i]) ELSE s]]
<1>1. used \in Lists /\ n \in Nat /\ n <= Len(exts) /\ \A i \in 1..n : used[i] \in Extent
  BY UsedIsPrefix, ExtentTypes
<1>. HIDE DEF used, n
<1>2. step \in [1..n -> [Lists -> Lists]]
  BY <1>1 DEF Lists
<1>3. PICK f \in [0..n -> Lists] : Unfolds(f, n, <<>>, step)
  <2>1. <<>> \in Lists
    BY DEF Lists
  <2>. HIDE DEF step
  <2>. QED BY <1>1, <1>2, <2>1, RecursionExists
<1>4. /\ f[0] = <<>>
      /\ \A i \in 1..n : f[i-1] \in Lists /\ f[i] = IF used[i].count # 0 THEN Append(f[i-1], used[i]) ELSE f[i-1]
  <2>1. \A i \in 1..n : f[i-1] \in Lists
    BY <1>1
  <2>. QED BY <1>3, <2>1 DEF Unfolds
<1>5. f = F(f)
  <2>1. ASSUME NEW i \in 0..n
        PROVE  f[i] = IF i = 0 THEN <<>>
                      ELSE IF used[i].count # 0 THEN Append(f[i-1], used[i]) ELSE f[i-1]
    <3>1. CASE i = 0
      BY <1>4, <3>1
    <3>2. CASE i # 0
      <4>1. i \in 1..n
        BY <1>1, <3>2
      <4>. QED BY <1>4, <3>2, <4>1
    <3>. QED BY <3>1, <3>2
  <2>2. f = [i \in 0..n |-> f[i]]
    BY <1>3
  <2>. QED BY <2>1, <2>2
<1>. DEFINE kept == CHOOSE g : g = F(g)
<1>6. kept = F(kept)
  <2>. HIDE DEF F
  <2>. QED BY <1>5
<1>7. Compact(exts) = kept[n]
  BY DEF Compact, used, n
<1>. HIDE DEF kept
<1>8. /\ kept[0] = <<>>
      /\ \A i \in 1..n : kept[i] = IF used[i].count # 0 THEN Append(kept[i-1], used[i]) ELSE kept[i-1]
  <2>1. \A i \in 0..n : F(kept)[i] = IF i = 0 THEN <<>>
                                     ELSE IF used[i].count # 0 THEN Append(kept[i-1], used[i]) ELSE kept[i-1]
    OBVIOUS
  <2>2. \A i \in 0..n : kept[i] = IF i = 0 THEN <<>>
                                  ELSE IF used[i].count # 0 THEN Append(kept[i-1], used[i]) ELSE kept[i-1]
    BY <1>6, <2>1
  <2>3. \A i \in 1..n : i \in 0..n /\ i # 0
    BY <1>1
  <2>4. 0 \in 0..n
    BY <1>1
  <2>. HIDE DEF F
  <2>. QED BY <2>2, <2>3, <2>4
<1>. HIDE DEF F, step
<1>. DEFINE Off == {i \in 0..n : ~(kept[i] \in Filled /\ Len(kept[i]) <= i)}
<1>9. Off = {}
  <2>. SUFFICES ASSUME Off # {} PROVE FALSE
    OBVIOUS
  <2>1. PICK k \in Off : \A y \in Off : k <= y
    <3>1. Off \in SUBSET Nat
      BY <1>1
    <3>. QED BY <3>1, Least
  <2>2. k # 0
    <3>1. <<>> \in Filled /\ Len(<<>>) <= 0
      BY DEF Filled, Lists
    <3>. QED BY <1>8, <2>1, <3>1
  <2>3. k \in 1..n /\ k - 1 \in 0..n /\ k - 1 \notin Off
    BY <1>1, <2>1, <2>2
  <2>4. kept[k-1] \in Filled /\ Len(kept[k-1]) <= k - 1
    BY <2>3
  <2>5. CASE used[k].count = 0
    <3>1. kept[k] = kept[k-1]
      BY <1>8, <2>3, <2>5
    <3>2. Len(kept[k]) \in Nat /\ kept[k] \in Filled /\ Len(kept[k]) <= k
      BY <2>3, <2>4, <3>1, ExtentTypes DEF Filled
    <3>. QED BY <2>1, <3>2
  <2>6. CASE used[k].count # 0
    <3>. DEFINE s == kept[k-1]
    <3>1. kept[k] = Append(s, used[k]) /\ s \in Filled /\ s \in Lists
      BY <1>8, <2>3, <2>4, <2>6 DEF Filled
    <3>. HIDE DEF s
    <3>2. /\ Append(s, used[k]) \in Lists /\ Len(Append(s, used[k])) = Len(s) + 1 /\ Len(s) \in Nat
          /\ \A i \in 1..Len(s) : Append(s, used[k])[i] = s[i]
          /\ Append(s, used[k])[Len(s) + 1] = used[k]
      BY <1>1, <2>3, <3>1 DEF Lists
    <3>3. \A i \in 1..(Len(s) + 1) : i \in 1..Len(s) \/ i = Len(s) + 1
      BY <3>2
    <3>4. Append(s, used[k]) \in Filled
      BY <2>6, <3>1, <3>2, <3>3 DEF Filled
    <3>5. Len(s) <= k - 1
      BY <2>4 DEF s
    <3>6. kept[k] \in Filled /\ Len(kept[k]) <= k
      <4>1. k \in Nat
        BY <1>1, <2>3
      <4>. QED BY <3>1, <3>2, <3>4, <3>5, <4>1
    <3>7. k \notin Off
      BY <3>6
    <3>. HIDE DEF Off
    <3>. QED BY <2>1, <3>7
  <2>. QED BY <2>5, <2>6
<1>10. n \notin Off /\ n \in 0..n
  BY <1>1, <1>9
<1>11. kept[n] \in Filled /\ Len(kept[n]) <= n
  BY <1>10
<1>12. Len(kept[n]) \in Nat /\ Len(exts) \in Nat
  BY <1>11, ExtentTypes DEF Filled
<1>. QED BY <1>1, <1>7, <1>11, <1>12

LEMMA CountIsSmall ==
    ASSUME NEW exts \in Lists
    PROVE  Count(exts) \in 0..(Width - 1) /\ Count(exts) <= Covered(exts)
<1>. DEFINE n == Covered(exts)
<1>1. n \in Nat /\ Width \in Nat \ {0}
  BY CoveredIsNat, ExtentListsAssumption
<1>. HIDE DEF n
<1>2. n % Width \in 0..(Width - 1) /\ n % Width <= n
  <2>1. n % Width \in 0..(Width - 1)
    BY <1>1
  <2>2. n < Width => n % Width = n
    BY <1>1
  <2>. QED BY <1>1, <2>1, <2>2
<1>. QED BY <1>2 DEF Count, n

\* A list is trimmed in its k-th extent.
TrimmedAt(exts, blocks, k) ==
    /\ k \in 1..Len(exts)
    /\ UpTo(exts)[k-1] < blocks /\ blocks <= UpTo(exts)[k]
    /\ Trim(exts, blocks) \in Lists /\ Len(Trim(exts, blocks)) = k
    /\ \A i \in 1..(k-1) : Trim(exts, blocks)[i] = exts[i]
    /\ Trim(exts, blocks)[k].start = exts[k].start
    /\ Trim(exts, blocks)[k].count = blocks - UpTo(exts)[k-1]

LEMMA CutFields ==
    ASSUME NEW e \in Extent, NEW left \in Nat
    PROVE  /\ Cut(e, left) \in Extent /\ Cut(e, left).start = e.start
           /\ Cut(e, left).count = IF e.count <= left THEN e.count ELSE left
BY ExtentListsAssumption DEF Cut, Extent

\* Trimming cuts one extent and drops those behind it.
LEMMA TrimShape ==
    ASSUME NEW exts \in Lists, NEW blocks \in Nat \ {0}, blocks <= Covered(exts)
    PROVE  \E k \in 1..Len(exts) : TrimmedAt(exts, blocks, k)
<1>. DEFINE u == UpTo(exts)
            n == Len(exts)
            T == {i \in 0..n : u[i] >= blocks}
<1>1. /\ n \in Nat /\ u \in [0..n -> Nat] /\ u[0] = 0 /\ Covered(exts) = u[n] /\ DOMAIN exts = 1..n
      /\ \A i \in 1..n : /\ u[i] = u[i-1] + exts[i].count
                         /\ exts[i] \in Extent /\ exts[i].start \in Nat /\ exts[i].count \in Nat
                         /\ exts[i].count < Width
  BY UpToUnfolds, ExtentTypes DEF Covered
<1>2. \A i \in 0..n : \A j \in i..n : u[i] <= u[j]
  BY UpToAscends
<1>. HIDE DEF u, n
<1>3. PICK k \in T : \A y \in T : k <= y
  <2>1. T \in SUBSET Nat
    BY <1>1
  <2>2. n \in T
    BY <1>1
  <2>. QED BY <2>1, <2>2, Least
<1>4. k \in 1..n /\ u[k] >= blocks /\ k - 1 \in 0..n /\ k \in 0..n
  <2>1. u[k] >= blocks /\ k \in 0..n
    BY <1>3
  <2>2. k # 0
    BY <1>1, <2>1
  <2>. QED BY <1>1, <2>1, <2>2
<1>5. \A i \in 0..(k-1) : i \in 0..n /\ u[i] < blocks
  <2>1. \A i \in 0..(k-1) : i \in 0..n /\ i \notin T /\ u[i] \in Nat
    BY <1>1, <1>3, <1>4
  <2>. QED BY <2>1
<1>6. \A i \in 1..n : i > k => u[i-1] >= blocks
  <2>1. \A i \in 1..n : i > k => i - 1 \in k..n /\ i - 1 \in 0..n
    BY <1>1, <1>4
  <2>2. \A i \in 1..n : i > k => u[k] <= u[i-1] /\ u[i-1] \in Nat /\ u[k] \in Nat
    BY <1>1, <1>2, <1>4, <2>1
  <2>. QED BY <1>4, <2>2
<1>7. {i \in DOMAIN exts : Before(exts, i) < blocks} = 1..k
  <2>1. \A i \in 1..n : u[i-1] < blocks <=> i <= k
    <3>1. ASSUME NEW i \in 1..n, i <= k PROVE u[i-1] < blocks
      BY <1>1, <1>4, <1>5, <3>1
    <3>2. ASSUME NEW i \in 1..n, i > k PROVE ~(u[i-1] < blocks)
      <4>1. u[i-1] \in Nat
        BY <1>1
      <4>. QED BY <1>6, <3>2, <4>1
    <3>3. \A i \in 1..n : i <= k \/ i > k
      BY <1>1, <1>4
    <3>. QED BY <3>1, <3>2, <3>3
  <2>2. \A i \in 1..k : i \in 1..n
    BY <1>1, <1>4
  <2>3. \A i \in 1..n : i <= k => i \in 1..k
    BY <1>4
  <2>4. \A i \in 1..k : i <= k
    BY <1>4
  <2>. QED BY <1>1, <2>1, <2>2, <2>3, <2>4 DEF Before, u
<1>. DEFINE t == Trim(exts, blocks)
<1>8. t = [i \in 1..k |-> Cut(exts[i], blocks - u[i-1])]
  BY <1>7 DEF Trim, Before, u
<1>. HIDE DEF t
<1>9. \A i \in 1..k : i \in 1..n /\ i - 1 \in 0..n /\ u[i-1] \in Nat /\ u[i] \in Nat /\ u[i-1] < blocks
  <2>1. \A i \in 1..k : i \in 1..n /\ i - 1 \in 0..n /\ i \in 0..n /\ i - 1 \in 0..(k-1)
    BY <1>1, <1>4
  <2>. QED BY <1>1, <1>5, <2>1
<1>11. ASSUME NEW i \in 1..k
       PROVE  /\ t[i] \in Extent /\ t[i].start = exts[i].start
              /\ t[i].count = IF exts[i].count <= blocks - u[i-1] THEN exts[i].count ELSE blocks - u[i-1]
  <2>1. i \in 1..n /\ u[i-1] \in Nat /\ u[i-1] < blocks
    BY <1>9
  <2>. DEFINE e    == exts[i]
              left == blocks - u[i-1]
  <2>2. left \in Nat
    BY <2>1
  <2>3. e \in Extent
    BY <1>1, <2>1
  <2>4. t[i] = Cut(e, left)
    BY <1>8
  <2>. HIDE DEF e, left
  <2>5. Cut(e, left) \in Extent /\ Cut(e, left).start = e.start
        /\ Cut(e, left).count = IF e.count <= left THEN e.count ELSE left
    BY <2>2, <2>3, CutFields
  <2>. QED BY <2>4, <2>5 DEF e, left
<1>12. t \in Lists /\ Len(t) = k
  <2>1. k \in Nat /\ t \in [1..k -> Extent]
    BY <1>4, <1>8, <1>11
  <2>. QED BY <2>1 DEF Lists
<1>13. ASSUME NEW i \in 1..(k-1) PROVE t[i] = exts[i]
  <2>1. i \in 1..k /\ i \in 0..(k-1)
    BY <1>4
  <2>2. u[i] < blocks /\ u[i] = u[i-1] + exts[i].count /\ exts[i].count \in Nat /\ u[i-1] \in Nat
    BY <1>1, <1>5, <1>9, <2>1
  <2>3. exts[i].count <= blocks - u[i-1]
    BY <2>2
  <2>4. t[i].count = exts[i].count /\ t[i].start = exts[i].start /\ t[i] \in Extent /\ exts[i] \in Extent
    BY <1>1, <1>9, <1>11, <2>1, <2>3
  <2>. QED BY <2>4 DEF Extent
<1>14. t[k].start = exts[k].start /\ t[k].count = blocks - u[k-1]
  <2>1. k \in 1..k /\ u[k] = u[k-1] + exts[k].count /\ u[k-1] \in Nat /\ exts[k].count \in Nat
    BY <1>1, <1>4, <1>9
  <2>. QED BY <1>4, <1>11, <2>1
<1>15. u[k-1] < blocks
  BY <1>4, <1>5
<1>. QED BY <1>4, <1>12, <1>13, <1>14, <1>15, <1>1 DEF TrimmedAt, t, u, n

\* A trimmed list has no empty extent, and the blocks that were asked for.
LEMMA TrimCovers ==
    ASSUME NEW exts \in Filled, NEW blocks \in Nat \ {0}, blocks <= Covered(exts)
    PROVE  /\ Trim(exts, blocks) \in Filled /\ Len(Trim(exts, blocks)) <= Len(exts)
           /\ Covered(Trim(exts, blocks)) = blocks
<1>1. exts \in Lists
  BY DEF Filled
<1>2. PICK k \in 1..Len(exts) : TrimmedAt(exts, blocks, k)
  BY <1>1, TrimShape
<1>. DEFINE t == Trim(exts, blocks)
            u == UpTo(exts)
            v == UpTo(t)
<1>3. t \in Lists /\ Len(t) = k /\ k \in Nat \ {0} /\ k <= Len(exts) /\ Len(exts) \in Nat
  BY <1>1, <1>2, ExtentTypes DEF TrimmedAt
<1>4. \A i \in 1..(k-1) : t[i] = exts[i]
  BY <1>2 DEF TrimmedAt
<1>5. v[k-1] = u[k-1] /\ v[k] = v[k-1] + t[k].count
  <2>1. v[k-1] = u[k-1]
    <3>1. k - 1 \in Nat /\ k - 1 <= Len(t) /\ k - 1 <= Len(exts) /\ k - 1 \in 0..(k-1)
      BY <1>3
    <3>2. \A i \in 1..(k-1) : t[i].count = exts[i].count
      BY <1>4
    <3>. HIDE DEF t
    <3>. QED BY <1>1, <1>3, <3>1, <3>2, UpToOfPrefix
  <2>2. k \in 1..Len(t)
    BY <1>3
  <2>. HIDE DEF t
  <2>3. v[k] = v[k-1] + t[k].count
    BY <1>3, <2>2, UpToUnfolds
  <2>. QED BY <2>1, <2>3
<1>6. t[k].count = blocks - u[k-1] /\ u[k-1] < blocks /\ u[k-1] \in Nat
  <2>1. k - 1 \in 0..Len(exts)
    BY <1>3
  <2>2. u[k-1] \in Nat
    BY <1>1, <2>1, UpToUnfolds
  <2>. QED BY <1>2, <2>2 DEF TrimmedAt
<1>7. Covered(t) = blocks
  BY <1>3, <1>5, <1>6 DEF Covered
<1>8. \A i \in 1..Len(t) : t[i].count # 0
  <2>1. \A i \in 1..Len(t) : i = k \/ i \in 1..(k-1)
    BY <1>3
  <2>2. \A i \in 1..(k-1) : i \in 1..Len(exts)
    BY <1>3
  <2>. QED BY <1>4, <1>6, <2>1, <2>2 DEF Filled
<1>. QED BY <1>3, <1>7, <1>8 DEF Filled

LEMMA ConcatIsFilled ==
    ASSUME NEW s \in Filled, NEW t \in Filled
    PROVE  s \o t \in Filled /\ Len(s \o t) = Len(s) + Len(t)
<1>1. s \in Seq(Extent) /\ t \in Seq(Extent)
  BY DEF Filled, Lists
<1>2. s \o t \in Seq(Extent) /\ Len(s \o t) = Len(s) + Len(t) /\ Len(s) \in Nat /\ Len(t) \in Nat
  BY <1>1
<1>3. ASSUME NEW i \in 1..Len(s \o t) PROVE (s \o t)[i].count # 0
  <2>1. CASE i <= Len(s)
    <3>1. (s \o t)[i] = s[i] /\ i \in 1..Len(s)
      BY <1>1, <1>2, <2>1
    <3>. QED BY <3>1 DEF Filled
  <2>2. CASE i > Len(s)
    <3>1. (s \o t)[i] = t[i - Len(s)] /\ i - Len(s) \in 1..Len(t)
      BY <1>1, <1>2, <2>2
    <3>. QED BY <3>1 DEF Filled
  <2>. QED BY <1>2, <2>1, <2>2
<1>. QED BY <1>2, <1>3 DEF Filled, Lists

---------------------------------------------------------------------------
(* Opening the volume. *)

\* What the run was given, and never changes.
Given ==
    /\ IsImage(image) /\ (image.sound => AsMade(image)) /\ IsConfig(config)
    /\ IsFork(fork) /\ (fork.sound => IsLaid(fork)) /\ (fork.sound /\ image.sound => OnVolume(fork, image))
    /\ fork.size \in Int /\ (fork.kind # "deleted" => fork.size \in 0..MaxInt)

\* The header at hand is the one that lies where the offsets found so far say.
HeaderRead(offset) ==
    /\ offset \in Nat /\ config.base \in Nat /\ Fits(offset)
    /\ Within(config.base + offset + HeaderAt, Sector)
    /\ header = HeaderIn(config.base + offset + HeaderAt)

\* The wrapper that an embedded volume was found in.
Wrapper(offset) ==
    LET at == config.base + HeaderAt
    IN  Within(at, Sector) /\ Wraps(HeaderIn(at)) /\ offset = Embedded(HeaderIn(at))

\* An open volume lies where the caller said, with blocks of the size made.
OpenedAt ==
    /\ opening = "done" /\ openErr = NoError
    /\ vol.start = config.base /\ vol.base \in Nat /\ vol.blockSize \in Nat \ {0}
    /\ image.sound /\ config.base = image.start => vol.blockSize = image.blockSize

\* Opening: each state's header is the one the offsets so far lead to.
OpenInv ==
    /\ opening \in {"start", "volume", "embedded", "done"}
    /\ opening # "done" => vol = NotOpen /\ openErr = NoError
    /\ opening = "start" => derived = 0
    /\ opening = "volume" => derived = 0 /\ HeaderRead(0)
    /\ opening = "embedded" => HeaderRead(derived) /\ Wrapper(derived)
    /\ vol # NotOpen => OpenedAt
    /\ VolumePlaced /\ OpenErrorsTell

LEMMA Sizes == /\ Sector \in Nat \ {0} /\ DefaultAlloc \in Nat \ {0} /\ MaxInt \in Nat
               /\ HeaderAt \in Nat /\ HeaderAt <= MaxInt /\ HeaderAt > 0
BY VolumeOpenAssumption DEF HeaderAt

LEMMA SmallRemainder ==
    ASSUME NEW d \in Nat \ {0}, NEW n \in 0..(d-1)
    PROVE  n % d = n /\ (n + d) % d = n
OBVIOUS

\* An offset that is not below zero has not wrapped.
LEMMA WrapsBelow ==
    ASSUME NEW n \in 0..(2 * MaxInt + 1)
    PROVE  /\ Wrap(n) \in Int
           /\ n <= MaxInt => Wrap(n) = n
           /\ n > MaxInt => Wrap(n) < 0
<1>. DEFINE d == MaxInt + 1
<1>1. d \in Nat \ {0} /\ 2 * d \in Nat \ {0} /\ n \in 0..(2*d-1)
  BY Sizes
<1>2. Wrap(n) = ((n + d) % (2 * d)) - d
  BY Sizes DEF Wrap
<1>3. CASE n <= MaxInt
  <2>1. n + d \in 0..(2*d-1)
    BY <1>1, <1>3, Sizes
  <2>2. (n + d) % (2 * d) = n + d
    BY <1>1, <2>1, SmallRemainder
  <2>. QED BY <1>1, <1>2, <1>3, <2>2, Sizes
<1>4. CASE n > MaxInt
  <2>1. n - d \in 0..(2*d-1) /\ n - d < d /\ n + d = (n - d) + 2 * d
    BY <1>1, <1>4, Sizes
  <2>2. (n + d) % (2 * d) = n - d
    <3>1. ((n - d) + 2 * d) % (2 * d) = n - d
      BY <1>1, <2>1, SmallRemainder
    <3>. QED BY <2>1, <3>1
  <2>. QED BY <1>1, <1>2, <1>4, <2>1, <2>2, Sizes
<1>. QED BY <1>1, <1>3, <1>4, Sizes

LEMMA HeaderFields ==
    ASSUME IsImage(image), NEW at \in Int
    PROVE  /\ IsHeader(HeaderIn(at))
           /\ HeaderIn(at).sig # "none" => at \in DOMAIN image.headers /\ HeaderIn(at) = image.headers[at]
<1>1. CASE at \in DOMAIN image.headers
  BY <1>1 DEF IsImage, HeaderIn
<1>2. CASE at \notin DOMAIN image.headers
  BY <1>2 DEF HeaderIn, NoHeader, IsHeader
<1>. QED BY <1>1, <1>2

LEMMA OpenInvInit == Given /\ OpenInit => OpenInv
BY DEF Given, OpenInit, OpenInv, VolumePlaced, OpenErrorsTell, NotOpen, NoError

\* ReadStart finds the header where the caller said, or blames the caller.
LEMMA ReadStartStep ==
    ASSUME Given, OpenInv, ReadStart
    PROVE  OpenInv'
<1>. DEFINE at == Wrap(config.base + HeaderAt)
<1>1. /\ opening = "start" /\ derived = 0 /\ vol = NotOpen /\ openErr = NoError
      /\ UNCHANGED <<image, config, derived>>
      /\ config.base \in Int /\ config.base <= MaxInt /\ image.size \in Nat /\ IsImage(image)
  BY Sizes DEF Given, OpenInv, ReadStart, IsConfig, IsImage
<1>2. config.base >= 0 => /\ config.base + HeaderAt \in 0..(2 * MaxInt + 1) /\ at \in Int
                          /\ at < 0 \/ at = config.base + HeaderAt
  <2>1. config.base >= 0 => config.base + HeaderAt \in 0..(2 * MaxInt + 1)
    BY <1>1, Sizes
  <2>. QED BY <2>1, WrapsBelow, Sizes
<1>. HIDE DEF at
<1>3. CASE config.base < 0 /\ Refuse("offset", config.base)
  BY <1>1, <1>3 DEF OpenInv, Refuse, VolumePlaced, OpenErrorsTell, IsCorrupt
<1>4. CASE config.base >= 0 /\ ~Within(at, Sector)
           /\ Refuse(ReadError(at), IF ReadError(at) = "short" /\ config.base # 0 THEN config.base ELSE at)
  <2>1. ReadError(at) \in {"short", "failed"}
    BY DEF ReadError
  <2>2. ReadError(at) = "short" => at = config.base + HeaderAt /\ config.base + HeaderAt + Sector > image.size
    BY <1>1, <1>2, <1>4, Sizes DEF ReadError, Within
  <2>. QED BY <1>1, <1>4, <2>1, <2>2, Sizes DEF OpenInv, Refuse, VolumePlaced, OpenErrorsTell, IsCorrupt
<1>5. CASE Refuse("failed", at)
  BY <1>1, <1>5 DEF OpenInv, Refuse, VolumePlaced, OpenErrorsTell, IsCorrupt
<1>6. CASE /\ config.base >= 0 /\ Within(at, Sector)
           /\ opening' = "volume" /\ header' = HeaderIn(at) /\ UNCHANGED <<vol, openErr>>
  <2>1. at = config.base + HeaderAt
    BY <1>2, <1>6 DEF Within
  <2>2. HeaderRead(0)'
    BY <1>1, <1>6, <2>1, Sizes DEF HeaderRead, Fits, Within, HeaderIn
  <2>. QED BY <1>1, <1>6, <2>2 DEF OpenInv, VolumePlaced, OpenErrorsTell
<1>. QED BY <1>3, <1>4, <1>5, <1>6, <1>1 DEF ReadStart, at

\* FollowWrapper's offset is added to the caller's, and a bad sum is no corruption.
LEMMA FollowWrapperStep ==
    ASSUME Given, OpenInv, FollowWrapper
    PROVE  OpenInv'
<1>. DEFINE offset == Embedded(header)
            at     == Wrap(config.base + offset + HeaderAt)
<1>1. /\ opening = "volume" /\ derived = 0 /\ vol = NotOpen /\ openErr = NoError
      /\ UNCHANGED <<image, config>> /\ HeaderRead(0) /\ Wraps(header)
      /\ config.base \in Nat /\ config.base <= MaxInt /\ image.size \in Nat /\ IsImage(image)
  BY Sizes DEF Given, OpenInv, FollowWrapper, IsConfig, IsImage, HeaderRead, Fits
<1>2. /\ header = HeaderIn(config.base + HeaderAt) /\ Within(config.base + HeaderAt, Sector)
      /\ IsHeader(header)
  <2>1. config.base + 0 + HeaderAt = config.base + HeaderAt /\ config.base + HeaderAt \in Int
    BY <1>1, Sizes
  <2>. QED BY <1>1, <2>1, HeaderFields DEF HeaderRead
<1>3. offset \in Nat
  <2>1. header.alBlSt \in Nat /\ header.embedStart \in Nat /\ header.blockSize \in Nat
    BY <1>1, <1>2 DEF Wraps, IsHeader
  <2>. QED BY <2>1, Sizes DEF Embedded
<1>4. Fits(offset) => /\ config.base + offset + HeaderAt \in 0..(2 * MaxInt + 1) /\ at \in Int
                      /\ at < 0 \/ at = config.base + offset + HeaderAt
  <2>. HIDE DEF offset
  <2>1. Fits(offset) => config.base + offset + HeaderAt \in 0..(2 * MaxInt + 1)
    BY <1>1, <1>3, Sizes DEF Fits
  <2>. QED BY <2>1, WrapsBelow, Sizes
<1>5. Wrapper(offset)
  BY <1>1, <1>2 DEF Wrapper
<1>6. \/ ~Fits(offset) /\ Refuse("offset", config.base)
      \/ Fits(offset) /\ ~Within(at, Sector) /\ Refuse(ReadError(at), at)
      \/ Refuse("failed", at)
      \/ /\ Fits(offset) /\ Within(at, Sector)
         /\ opening' = "embedded" /\ header' = HeaderIn(at) /\ derived' = offset
         /\ UNCHANGED <<vol, openErr>>
  BY DEF FollowWrapper
<1>. HIDE DEF at, offset
<1>7. CASE Refuse("offset", config.base)
  BY <1>1, <1>7 DEF OpenInv, Refuse, VolumePlaced, OpenErrorsTell, IsCorrupt
<1>8. CASE Fits(offset) /\ ~Within(at, Sector) /\ Refuse(ReadError(at), at)
  <2>1. ReadError(at) \in {"short", "failed"}
    BY DEF ReadError
  <2>2. ReadError(at) = "short" => at # config.base
    BY <1>1, <1>3, <1>4, <1>8, Sizes DEF ReadError
  <2>. QED BY <1>1, <1>8, <2>1, <2>2 DEF OpenInv, Refuse, VolumePlaced, OpenErrorsTell, IsCorrupt
<1>9. CASE Refuse("failed", at)
  BY <1>1, <1>9 DEF OpenInv, Refuse, VolumePlaced, OpenErrorsTell, IsCorrupt
<1>10. CASE /\ Fits(offset) /\ Within(at, Sector)
            /\ opening' = "embedded" /\ header' = HeaderIn(at) /\ derived' = offset
            /\ UNCHANGED <<vol, openErr>>
  <2>1. at = config.base + offset + HeaderAt
    BY <1>4, <1>10 DEF Within
  <2>2. HeaderRead(derived)'
    BY <1>1, <1>3, <1>10, <2>1 DEF HeaderRead, Fits, Within, HeaderIn
  <2>3. Wrapper(derived)'
    BY <1>1, <1>5, <1>10 DEF Wrapper, Within, HeaderIn
  <2>. QED BY <1>1, <1>10, <2>2, <2>3 DEF OpenInv, VolumePlaced, OpenErrorsTell
<1>. QED BY <1>6, <1>7, <1>8, <1>9, <1>10

\* What a volume that is opened gets from the header and the offsets.
LEMMA OpenedFields ==
    ASSUME Given, NEW kind \in {"HFS", "HFS+", "HFSX"}, NEW offset \in Nat, NEW h,
           config.base \in Nat, h.blockSize \in Nat \ {0},
           UNCHANGED <<image, config>>, opening # "done", openErr = NoError,
           image.sound /\ config.base = image.start =>
               /\ image.kind = kind /\ image.zero = image.start + offset
               /\ h.blockSize = image.blockSize
               /\ kind = "HFS" => /\ image.name = image.start + HeaderAt
                                  /\ image.bitmap = image.start + h.vbm * Sector,
           Opened(kind, h, offset)
    PROVE  OpenInv'
<1>1. /\ opening' = "done" /\ openErr' = NoError /\ vol'.kind = kind /\ vol'.start = config.base
      /\ vol'.base = config.base + offset /\ vol'.blockSize = h.blockSize
      /\ kind = "HFS" => vol'.vbm = h.vbm
  BY DEF Opened, Base
<1>2. vol' # NotOpen
  BY <1>1 DEF NotOpen
<1>3. OpenedAt'
  BY <1>1 DEF OpenedAt
<1>4. VolumePlaced'
  BY <1>1 DEF VolumePlaced, NameAt, BitmapAt
<1>. QED BY <1>1, <1>2, <1>3, <1>4 DEF OpenInv, OpenErrorsTell

\* A classic volume lies where its MDB says, inside no wrapper.
LEMMA OpenClassicStep ==
    ASSUME Given, OpenInv, OpenClassic
    PROVE  OpenInv'
<1>. DEFINE area == header.alBlSt * Sector
            at   == config.base + HeaderAt
<1>1. /\ opening = "volume" /\ derived = 0 /\ vol = NotOpen /\ openErr = NoError
      /\ UNCHANGED <<image, config, header, derived>> /\ HeaderRead(0) /\ ~Wraps(header) /\ header.sig = "HFS"
      /\ config.base \in Nat /\ image.size \in Nat /\ IsImage(image)
  BY DEF Given, OpenInv, OpenClassic, IsImage, HeaderRead
<1>2. /\ header = HeaderIn(at) /\ Within(at, Sector) /\ IsHeader(header) /\ header = image.headers[at]
  <2>1. config.base + 0 + HeaderAt = at /\ at \in Int
    BY <1>1, Sizes
  <2>. QED BY <1>1, <2>1, HeaderFields DEF HeaderRead
<1>3. area \in Nat /\ header.blockSize \in Nat /\ header.total \in Nat
  BY <1>1, <1>2, Sizes DEF IsHeader
<1>4. image.sound /\ config.base = image.start => ClassicHeader(image, header)
  BY <1>1, <1>2 DEF Given, AsMade, Within, PlusHeader
<1>5. CASE (header.blockSize = 0 \/ header.total = 0) /\ Refuse("corrupt", at)
  <2>1. ~(image.sound /\ config.base = image.start)
    BY <1>4, <1>5 DEF ClassicHeader, HeaderOf
  <2>2. at # config.base /\ at + Sector <= image.size
    BY <1>1, <1>2, Sizes DEF Within
  <2>3. VolumePlaced' /\ opening' = "done" /\ vol' = NotOpen
    BY <1>1, <1>5 DEF Refuse, VolumePlaced
  <2>4. OpenErrorsTell'
    <3>1. openErr' = [kind |-> "corrupt", at |-> at] /\ HeaderIn(at)' = header
      BY <1>1, <1>2, <1>5 DEF Refuse, HeaderIn
    <3>. QED BY <1>1, <1>5, <2>1, <2>2, <3>1 DEF OpenErrorsTell, IsCorrupt
  <2>. QED BY <2>3, <2>4 DEF OpenInv
<1>6. CASE Refuse("offset", config.base)
  BY <1>1, <1>6 DEF OpenInv, Refuse, VolumePlaced, OpenErrorsTell, IsCorrupt
<1>7. CASE header.blockSize # 0 /\ Opened("HFS", header, area)
  <2>1. image.sound /\ config.base = image.start =>
            /\ image.kind = "HFS" /\ image.zero = image.start + area
            /\ header.blockSize = image.blockSize
            /\ image.name = image.start + HeaderAt
            /\ image.bitmap = image.start + header.vbm * Sector
    BY <1>4 DEF ClassicHeader, HeaderOf
  <2>. HIDE DEF area
  <2>. QED BY <1>1, <1>3, <1>7, <2>1, OpenedFields
<1>8. \/ (header.blockSize = 0 \/ header.total = 0) /\ Refuse("corrupt", at)
      \/ Refuse("offset", config.base)
      \/ header.blockSize # 0 /\ Opened("HFS", header, area)
  <2>. HIDE DEF Opened, Refuse, Fits, Wraps
  <2>1. CASE header.blockSize = 0 \/ header.total = 0
    BY <2>1 DEF OpenClassic
  <2>2. CASE header.blockSize > 0 /\ header.total > 0 /\ ~Fits(area)
    BY <2>2 DEF OpenClassic
  <2>3. CASE header.blockSize > 0 /\ header.total > 0 /\ Fits(area)
    BY <2>3 DEF OpenClassic
  <2>. QED BY <1>3, <2>1, <2>2, <2>3
<1>. QED BY <1>5, <1>6, <1>7, <1>8

\* What OpenPlus makes of a sound image: the header is that of the volume.
LEMMA SoundPlus ==
    ASSUME Given, OpenInv, OpenPlus, image.sound, config.base = image.start
    PROVE  /\ header.sig = image.kind /\ header.version = image.kind /\ image.kind \in {"HFS+", "HFSX"}
           /\ HeaderOf(image, header) /\ image.zero = image.start + derived
<1>. DEFINE at == config.base + derived + HeaderAt
<1>1. config.base \in Nat /\ derived \in Nat /\ IsImage(image) /\ AsMade(image) /\ HeaderRead(derived)
  BY DEF Given, OpenInv, OpenPlus, HeaderRead
<1>2. header = HeaderIn(at) /\ Within(at, Sector)
  BY <1>1 DEF HeaderRead
<1>3. at \in DOMAIN image.headers => header = image.headers[at]
  BY <1>2 DEF HeaderIn
<1>4. CASE opening = "volume" /\ header.sig # "HFS"
  <2>1. derived = 0 /\ at = image.start + HeaderAt
    BY <1>1, <1>4, Sizes DEF OpenInv
  <2>. QED BY <1>1, <1>2, <1>3, <1>4, <2>1, Sizes DEF AsMade, PlusHeader, ClassicHeader, Within, Wraps
<1>5. CASE opening = "embedded"
  <2>. DEFINE first == image.start + HeaderAt
  <2>1. Wrapper(derived) /\ first = config.base + HeaderAt
    BY <1>5 DEF OpenInv
  <2>2. Within(first, Sector) /\ Wraps(HeaderIn(first)) /\ derived = Embedded(HeaderIn(first))
    BY <2>1 DEF Wrapper
  <2>3. first \in DOMAIN image.headers /\ HeaderIn(first) = image.headers[first]
    BY <2>2 DEF HeaderIn, Wraps, NoHeader
  <2>4. /\ image.zero = image.start + derived
        /\ image.zero + HeaderAt + Sector <= image.size => PlusHeader(image, image.zero + HeaderAt)
    <3>1. first + Sector <= image.size
      BY <2>2 DEF Within
    <3>2. ~PlusHeader(image, first)
      BY <2>2, <2>3 DEF PlusHeader, Wraps
    <3>. QED BY <1>1, <2>2, <2>3, <3>1, <3>2 DEF AsMade
  <2>5. at = image.zero + HeaderAt /\ at + Sector <= image.size
    BY <1>1, <1>2, <2>4, Sizes DEF Within
  <2>. QED BY <1>3, <2>4, <2>5 DEF PlusHeader
<1>. QED BY <1>4, <1>5 DEF OpenPlus

LEMMA OpenPlusStep ==
    ASSUME Given, OpenInv, OpenPlus
    PROVE  OpenInv'
<1>. DEFINE at == config.base + derived + HeaderAt
<1>1. /\ opening \in {"volume", "embedded"} /\ vol = NotOpen /\ openErr = NoError
      /\ UNCHANGED <<image, config, header, derived>> /\ HeaderRead(derived)
      /\ config.base \in Nat /\ derived \in Nat /\ image.size \in Nat /\ IsImage(image)
  BY DEF Given, OpenInv, OpenPlus, IsImage, HeaderRead
<1>2. /\ header = HeaderIn(at) /\ Within(at, Sector) /\ IsHeader(header) /\ at \in Nat
  <2>1. at \in Nat
    BY <1>1, Sizes
  <2>. QED BY <1>1, <2>1, HeaderFields DEF HeaderRead
<1>3. header.sig # "none" => header.blockSize \in Nat /\ header.total \in Nat
  BY <1>2 DEF IsHeader
<1>4. at + Sector <= image.size /\ HeaderIn(at)' = header
  BY <1>1, <1>2 DEF Within, HeaderIn
<1>5. ASSUME NEW kind, NEW p \in {at, at + 2}, Refuse(kind, p),
             IsCorrupt(kind) => /\ ~(image.sound /\ config.base = image.start)
                                /\ p = IF kind = "version" THEN at + 2 ELSE at
                                /\ \/ header.sig = "none" \/ header.blockSize = 0 \/ header.total = 0
                                   \/ header.version # header.sig,
             kind # "short"
      PROVE  OpenInv'
  <2>1. opening' = "done" /\ vol' = NotOpen /\ openErr' = [kind |-> kind, at |-> p]
    BY <1>5 DEF Refuse
  <2>2. VolumePlaced'
    BY <2>1 DEF VolumePlaced
  <2>3. OpenErrorsTell'
    <3>1. kind = "version" => p - 2 = at
      BY <1>2, <1>5 DEF IsCorrupt
    <3>2. kind # "version" /\ IsCorrupt(kind) => p = at
      BY <1>5
    <3>3. openErr.kind' = kind /\ openErr.at' = p
      BY <2>1
    <3>. QED BY <1>1, <1>4, <1>5, <3>1, <3>2, <3>3 DEF OpenErrorsTell, IsCorrupt
  <2>. QED BY <2>1, <2>2, <2>3 DEF OpenInv
<1>6. CASE header.sig = "none"
  <2>1. Refuse("signature", at)
    BY <1>6 DEF OpenPlus
  <2>2. ~(image.sound /\ config.base = image.start)
    BY <1>6, SoundPlus
  <2>. QED BY <1>5, <1>6, <2>1, <2>2
<1>7. CASE header.sig = "HFS"
  <2>1. Refuse("format", at)
    BY <1>7 DEF OpenPlus
  <2>. QED BY <1>5, <2>1 DEF IsCorrupt
<1>8. CASE header.sig \in {"HFS+", "HFSX"} /\ header.version # header.sig
  <2>1. Refuse("version", at + 2)
    BY <1>8 DEF OpenPlus
  <2>2. ~(image.sound /\ config.base = image.start)
    BY <1>8, SoundPlus
  <2>. QED BY <1>5, <1>8, <2>1, <2>2
<1>9. CASE header.sig \in {"HFS+", "HFSX"} /\ header.version = header.sig
  <2>1. CASE header.blockSize = 0 \/ header.total = 0
    <3>1. Refuse("corrupt", at)
      BY <1>9, <2>1 DEF OpenPlus
    <3>2. ~(image.sound /\ config.base = image.start)
      BY <1>3, <1>9, <2>1, SoundPlus DEF HeaderOf
    <3>. QED BY <1>5, <2>1, <3>1, <3>2
  <2>2. CASE header.blockSize # 0 /\ header.total # 0
    <3>1. Opened(header.sig, header, derived)
      BY <1>9, <2>2 DEF OpenPlus
    <3>2. image.sound /\ config.base = image.start =>
            /\ image.kind = header.sig /\ image.zero = image.start + derived
            /\ header.blockSize = image.blockSize
      BY SoundPlus DEF HeaderOf
    <3>. QED BY <1>1, <1>3, <1>9, <2>2, <3>1, <3>2, OpenedFields
  <2>. QED BY <2>1, <2>2
<1>. QED BY <1>2, <1>6, <1>7, <1>8, <1>9 DEF IsHeader

LEMMA OpenInvStep ==
    ASSUME Given, OpenInv, OpenNext
    PROVE  OpenInv'
BY ReadStartStep, FollowWrapperStep, OpenClassicStep, OpenPlusStep DEF OpenNext

LEMMA OpenInvStays ==
    ASSUME OpenInv, UNCHANGED openVars
    PROVE  OpenInv'
BY DEF OpenInv, openVars, HeaderRead, Wrapper, OpenedAt, VolumePlaced, OpenErrorsTell,
       Fits, Within, HeaderIn, NameAt, BitmapAt

---------------------------------------------------------------------------
(* Resolving the extents of a fork. *)

\* The list is no longer than the blocks it covers, or than were asked for, allow.
Short(exts, blocks) == Len(exts) <= MaxRecord * (blocks + 1)

\* The walk keeps its list short: each record adds at least a block.
Resolving ==
    /\ phase = "inline" => out = <<>>
    /\ phase \in {"collect", "append"} =>
           /\ fork.total > 0 /\ Short(out, Count(out)) /\ Short(out, fork.total)
    /\ \A b \in DOMAIN overflow : overflow[b] \in Filled /\ Len(overflow[b]) <= MaxRecord

\* Resolving: the list never holds an empty extent, and covers the fork in the end.
ResolveInv ==
    /\ phase \in {"inline", "collect", "append", "done"}
    /\ result \in {"none", "ok", "missing", "corrupt", "failed"}
    /\ (phase = "done") <=> (result # "none")
    /\ out \in Filled
    /\ Resolving
    /\ result = "ok" => Short(out, fork.total)
    /\ result \in {"missing", "corrupt", "failed"} => out = <<>>
    /\ CoversTotal

LEMMA EmptyIsFilled == <<>> \in Filled /\ Len(<<>>) = 0
BY DEF Filled, Lists

LEMMA RecordShape ==
    ASSUME NEW exts \in Record
    PROVE  exts \in Lists /\ Compact(exts) \in Filled /\ Len(Compact(exts)) <= MaxRecord
<1>1. exts \in Lists /\ Len(exts) <= MaxRecord
  BY DEF Record, Lists
<1>2. Compact(exts) \in Filled /\ Len(Compact(exts)) <= Len(exts) /\ Len(exts) \in Nat
  BY <1>1, CompactIsFilled, ExtentTypes
<1>3. Len(Compact(exts)) \in Nat
  BY <1>2, ExtentTypes DEF Filled
<1>. QED BY <1>1, <1>2, <1>3, ForkExtentsAssumption

LEMMA ShortLists ==
    ASSUME NEW n \in Nat, NEW b \in Nat
    PROVE  /\ n <= MaxRecord => n <= MaxRecord * (b + 1)
           /\ \A a \in Nat : n <= MaxRecord * (a + 1) /\ a < b => n + MaxRecord <= MaxRecord * (b + 1)
           /\ \A a \in Nat : n <= MaxRecord * (a + 1) /\ a <= b => n <= MaxRecord * (b + 1)
<1>1. MaxRecord \in Nat \ {0}
  BY ForkExtentsAssumption
<1>2. MaxRecord * (b + 1) = MaxRecord * b + MaxRecord /\ MaxRecord * b \in Nat
  BY <1>1
<1>3. ASSUME NEW a \in Nat, a < b PROVE MaxRecord * (a + 1) <= MaxRecord * b
  <2>1. a + 1 <= b
    BY <1>3
  <2>2. b = (a + 1) + (b - (a + 1)) /\ b - (a + 1) \in Nat
    BY <2>1
  <2>3. MaxRecord * b = MaxRecord * (a + 1) + MaxRecord * (b - (a + 1)) /\ MaxRecord * (b - (a + 1)) \in Nat
    BY <1>1, <2>2
  <2>4. MaxRecord * (a + 1) \in Nat
    BY <1>1
  <2>. QED BY <1>2, <2>3, <2>4
<1>4. ASSUME NEW a \in Nat, n <= MaxRecord * (a + 1), a < b PROVE n + MaxRecord <= MaxRecord * (b + 1)
  <2>1. MaxRecord * (a + 1) \in Nat
    BY <1>1
  <2>. QED BY <1>1, <1>2, <1>3, <1>4, <2>1
<1>5. ASSUME NEW a \in Nat, n <= MaxRecord * (a + 1), a <= b PROVE n <= MaxRecord * (b + 1)
  <2>1. CASE a = b
    BY <1>5, <2>1
  <2>2. CASE a < b
    <3>1. n + MaxRecord <= MaxRecord * (b + 1)
      BY <1>4, <1>5, <2>2
    <3>. QED BY <1>1, <1>2, <3>1
  <2>. QED BY <1>5, <2>1, <2>2
<1>. QED BY <1>1, <1>2, <1>4, <1>5

LEMMA GivenFork ==
    ASSUME Given
    PROVE  /\ fork.total \in Nat /\ fork.total < Width /\ fork.inline \in Record
           /\ \A b \in DOMAIN fork.overflow : fork.overflow[b] \in Record
BY ExtentListsAssumption DEF Given, IsFork

LEMMA ResolveInvInit == ResolveInit => ResolveInv
<1>. SUFFICES ASSUME ResolveInit PROVE ResolveInv
  OBVIOUS
<1>1. phase = "inline" /\ out = <<>> /\ overflow = <<>> /\ result = "none"
  BY DEF ResolveInit
<1>2. DOMAIN overflow = {}
  BY <1>1
<1>. QED BY <1>1, <1>2, EmptyIsFilled DEF ResolveInv, Resolving, CoversTotal

\* A list that is given up ends the loop.
LEMMA GiveError ==
    ASSUME ResolveInv, NEW r \in {"missing", "corrupt", "failed"}, Give(r, <<>>), UNCHANGED <<fork, overflow>>
    PROVE  ResolveInv'
BY EmptyIsFilled DEF ResolveInv, Resolving, Give, CoversTotal

\* A list that covers the fork is cut to it.
LEMMA GiveTrimmed ==
    ASSUME Given, ResolveInv, fork.total > 0, NEW exts \in Filled, Short(exts, fork.total),
           Count(exts) >= fork.total, Give("ok", Trim(exts, fork.total)), UNCHANGED <<fork, overflow>>
    PROVE  ResolveInv'
<1>. DEFINE t == Trim(exts, fork.total)
<1>1. fork.total \in Nat \ {0} /\ exts \in Lists
  BY GivenFork DEF Filled
<1>2. fork.total <= Covered(exts)
  <2>1. Count(exts) \in Nat /\ Count(exts) <= Covered(exts) /\ Covered(exts) \in Nat
    BY <1>1, CountIsSmall, CoveredIsNat, ExtentListsAssumption
  <2>. QED BY <1>1, <2>1
<1>3. t \in Filled /\ Len(t) <= Len(exts) /\ Covered(t) = fork.total
  BY <1>1, <1>2, TrimCovers
<1>4. Short(t, fork.total)
  <2>1. Len(t) \in Nat /\ Len(exts) \in Nat
    BY <1>1, <1>3, ExtentTypes DEF Filled
  <2>2. MaxRecord * (fork.total + 1) \in Nat
    BY <1>1, ForkExtentsAssumption
  <2>. QED BY <1>3, <2>1, <2>2 DEF Short
<1>. HIDE DEF t
<1>5. phase' = "done" /\ result' = "ok" /\ out' = t
  BY DEF Give, t
<1>. QED BY <1>3, <1>4, <1>5 DEF ResolveInv, Resolving, CoversTotal, Short

LEMMA InlineStep ==
    ASSUME Given, ResolveInv, Inline
    PROVE  ResolveInv'
<1>. DEFINE exts == Compact(fork.inline)
<1>1. exts \in Filled /\ Len(exts) <= MaxRecord /\ fork.total \in Nat /\ exts \in Lists
  BY GivenFork, RecordShape DEF Filled
<1>2. UNCHANGED <<fork, overflow>> /\ phase = "inline"
  BY DEF Inline
<1>3. Short(exts, fork.total) /\ Short(exts, Count(exts)) /\ Count(exts) \in Nat
  <2>1. Count(exts) \in Nat /\ Len(exts) \in Nat
    BY <1>1, CountIsSmall, ExtentTypes, ExtentListsAssumption
  <2>. QED BY <1>1, <2>1, ShortLists DEF Short
<1>4. CASE fork.total = 0
  <2>1. Give("ok", exts)
    BY <1>4 DEF Inline
  <2>. QED BY <1>1, <1>2, <1>3, <1>4, <2>1 DEF ResolveInv, Resolving, CoversTotal, Give, Short
<1>5. CASE fork.total > 0 /\ Count(exts) >= fork.total
  <2>1. Give("ok", Trim(exts, fork.total))
    BY <1>5 DEF Inline
  <2>. QED BY <1>1, <1>2, <1>3, <1>5, <2>1, GiveTrimmed
<1>6. CASE fork.total > 0 /\ ~(Count(exts) >= fork.total)
  <2>1. phase' = "collect" /\ out' = exts /\ UNCHANGED result
    BY <1>6 DEF Inline
  <2>. QED BY <1>1, <1>2, <1>3, <1>6, <2>1 DEF ResolveInv, Resolving, CoversTotal, Short, Count
<1>. QED BY <1>1, <1>4, <1>5, <1>6

LEMMA CollectStep ==
    ASSUME Given, ResolveInv, Collect
    PROVE  ResolveInv'
<1>1. phase = "collect" /\ UNCHANGED fork
  BY DEF Collect
<1>2. CASE Give("failed", <<>>) /\ UNCHANGED overflow
  BY <1>1, <1>2, GiveError
<1>3. CASE /\ phase' = "append"
           /\ overflow' = IF cnid # fork.cnid THEN <<>>
                          ELSE [b \in DOMAIN fork.overflow |-> Compact(fork.overflow[b])]
           /\ UNCHANGED <<out, result>>
  <2>1. \A b \in DOMAIN overflow' : overflow'[b] \in Filled /\ Len(overflow'[b]) <= MaxRecord
    <3>1. CASE cnid # fork.cnid
      <4>1. DOMAIN overflow' = {}
        BY <1>3, <3>1
      <4>. QED BY <4>1
    <3>2. CASE cnid = fork.cnid
      <4>1. overflow' = [b \in DOMAIN fork.overflow |-> Compact(fork.overflow[b])]
        BY <1>3, <3>2
      <4>2. \A b \in DOMAIN fork.overflow : /\ Compact(fork.overflow[b]) \in Filled
                                            /\ Len(Compact(fork.overflow[b])) <= MaxRecord
        BY GivenFork, RecordShape
      <4>. QED BY <4>1, <4>2
    <3>. QED BY <3>1, <3>2
  <2>2. Short(out, Count(out))' /\ Short(out, fork.total)'
    BY <1>1, <1>3 DEF ResolveInv, Resolving, Short
  <2>. QED BY <1>1, <1>3, <2>1, <2>2 DEF ResolveInv, Resolving, CoversTotal
<1>. QED BY <1>2, <1>3 DEF Collect

\* Each round covers at least one block more, so the rounds are no more than
\* the blocks, and no list is longer than so many records.
LEMMA AppendRecordStep ==
    ASSUME Given, ResolveInv, AppendRecord
    PROVE  ResolveInv'
<1>. DEFINE covered == Count(out)
            next    == NextKey(out)
            longer  == out \o overflow[next]
<1>1. /\ phase = "append" /\ result = "none" /\ UNCHANGED <<fork, overflow>> /\ out \in Filled /\ out \in Lists
      /\ fork.total > 0 /\ fork.total \in Nat /\ Short(out, covered) /\ Short(out, fork.total)
  BY GivenFork DEF AppendRecord, ResolveInv, Resolving, Filled
<1>2. CASE covered >= fork.total /\ Give("ok", Trim(out, fork.total))
  BY <1>1, <1>2, GiveTrimmed
<1>3. CASE Give("missing", <<>>)
  BY <1>1, <1>3, GiveError
<1>4. CASE Give("corrupt", <<>>)
  BY <1>1, <1>4, GiveError
<1>5. CASE /\ ~(covered >= fork.total)
           /\ next \in DOMAIN overflow /\ ~Stuck(covered, Count(longer))
           /\ out' = longer /\ UNCHANGED <<phase, result>>
  <2>1. overflow[next] \in Filled /\ Len(overflow[next]) <= MaxRecord
    BY <1>5 DEF ResolveInv, Resolving
  <2>2. longer \in Filled /\ Len(longer) = Len(out) + Len(overflow[next])
    BY <1>1, <2>1, ConcatIsFilled
  <2>3. Len(out) \in Nat /\ Len(overflow[next]) \in Nat /\ Len(longer) \in Nat
    BY <1>1, <2>1, <2>2, ExtentTypes DEF Filled
  <2>4. covered \in Nat /\ Count(longer) \in Nat
    BY <1>1, <2>2, CountIsSmall, ExtentListsAssumption DEF Filled
  <2>. HIDE DEF covered, longer
  <2>5. covered < fork.total /\ covered < Count(longer)
    BY <1>1, <1>5, <2>4 DEF Stuck
  <2>6. Len(out) <= MaxRecord * (covered + 1)
    BY <1>1 DEF Short
  <2>7. Len(longer) <= MaxRecord * (fork.total + 1) /\ Len(longer) <= MaxRecord * (Count(longer) + 1)
    <3>1. /\ Len(out) + MaxRecord <= MaxRecord * (fork.total + 1)
          /\ Len(out) + MaxRecord <= MaxRecord * (Count(longer) + 1)
      BY <1>1, <2>3, <2>4, <2>5, <2>6, ShortLists
    <3>2. Len(longer) <= Len(out) + MaxRecord /\ MaxRecord \in Nat
      BY <2>1, <2>2, <2>3, ForkExtentsAssumption
    <3>3. MaxRecord * (fork.total + 1) \in Nat /\ MaxRecord * (Count(longer) + 1) \in Nat
      BY <1>1, <2>4, ForkExtentsAssumption
    <3>. QED BY <2>3, <3>1, <3>2, <3>3
  <2>8. Short(out, Count(out))' /\ Short(out, fork.total)'
    <3>1. out' = longer
      BY <1>5
    <3>2. Count(out)' = Count(longer)
      BY <3>1 DEF Count
    <3>. QED BY <1>1, <2>7, <3>1, <3>2 DEF Short
  <2>. QED BY <1>1, <1>5, <2>2, <2>8 DEF ResolveInv, Resolving, CoversTotal
<1>6. \/ covered >= fork.total /\ Give("ok", Trim(out, fork.total))
      \/ Give("missing", <<>>)
      \/ Give("corrupt", <<>>)
      \/ /\ ~(covered >= fork.total)
         /\ next \in DOMAIN overflow /\ ~Stuck(covered, Count(longer))
         /\ out' = longer /\ UNCHANGED <<phase, result>>
  BY DEF AppendRecord
<1>. QED BY <1>2, <1>3, <1>4, <1>5, <1>6

LEMMA ResolveInvStep ==
    ASSUME Given, ResolveInv, ResolveNext
    PROVE  ResolveInv'
BY InlineStep, CollectStep, AppendRecordStep DEF ResolveNext

LEMMA ResolveInvStays ==
    ASSUME ResolveInv, UNCHANGED resolveVars
    PROVE  ResolveInv'
BY DEF ResolveInv, resolveVars, Resolving, CoversTotal, Short, Count

LEMMA ResolveTypes ==
    ASSUME Given, ResolveInv
    PROVE  ResolveTypeOK
<1>1. \A i \in 1..Len(out) : out[i].count \in 1..(Width - 1)
  <2>1. \A i \in 1..Len(out) : out[i].count # 0 /\ out[i].count \in Nat /\ out[i].count < Width
    BY ExtentTypes DEF ResolveInv, Filled
  <2>. QED BY <2>1, ExtentListsAssumption
<1>2. Len(out) <= MaxRecord * (fork.total + 1)
  <2>1. fork.total \in Nat /\ Len(<<>>) = 0
    BY GivenFork, EmptyIsFilled
  <2>2. MaxRecord * (fork.total + 1) \in Nat
    BY <2>1, ForkExtentsAssumption
  <2>3. CASE out = <<>>
    BY <2>1, <2>2, <2>3
  <2>4. CASE Short(out, fork.total)
    BY <2>4 DEF Short
  <2>. QED BY <2>3, <2>4 DEF ResolveInv, Resolving
<1>. QED BY <1>1, <1>2 DEF ResolveInv, ResolveTypeOK

---------------------------------------------------------------------------
(* Sequences put end to end. *)

LEMMA MinOfTwo ==
    ASSUME NEW a \in Int, NEW b \in Int
    PROVE  Min({a, b}) = IF a <= b THEN a ELSE b
<1>. DEFINE m == IF a <= b THEN a ELSE b
            Least2(x) == \A y \in {a, b} : x <= y
<1>1. m \in {a, b} /\ Least2(m)
  OBVIOUS
<1>2. Min({a, b}) \in {a, b} /\ Least2(Min({a, b}))
  <2>1. Min({a, b}) = CHOOSE x \in {a, b} : Least2(x)
    BY DEF Min
  <2>. HIDE DEF Least2, m
  <2>. QED BY <1>1, <2>1
<1>. QED BY <1>2

LEMMA MaxOfTwo ==
    ASSUME NEW a \in Int, NEW b \in Int
    PROVE  Max({a, b}) = IF a <= b THEN b ELSE a
<1>. DEFINE m == IF a <= b THEN b ELSE a
            Most(x) == \A y \in {a, b} : x >= y
<1>1. m \in {a, b} /\ Most(m)
  OBVIOUS
<1>2. Max({a, b}) \in {a, b} /\ Most(Max({a, b}))
  <2>1. Max({a, b}) = CHOOSE x \in {a, b} : Most(x)
    BY DEF Max
  <2>. HIDE DEF Most, m
  <2>. QED BY <1>1, <2>1
<1>. QED BY <1>2

LEMMA ConcatAt ==
    ASSUME NEW s \in Seq(Int), NEW t \in Seq(Int)
    PROVE  /\ s \o t \in Seq(Int) /\ Len(s \o t) = Len(s) + Len(t) /\ Len(s) \in Nat /\ Len(t) \in Nat
           /\ \A x \in 1..Len(s) : (s \o t)[x] = s[x]
           /\ \A x \in 1..Len(t) : (s \o t)[Len(s) + x] = t[x]
OBVIOUS

\* The pieces up to the i-th end at ends[i], and lie one behind the other.
PutTogether(f, pieces, ends, i) ==
    /\ f[i] \in Seq(Int) /\ Len(f[i]) = ends[i]
    /\ \A m \in 1..i : \A j \in 1..Len(pieces[m]) : f[i][ends[m-1] + j] = pieces[m][j]

LEMMA PutTogetherStep ==
    ASSUME NEW n \in Nat, NEW pieces \in [1..n -> Seq(Int)], NEW ends \in [0..n -> Nat], NEW f, NEW i \in 1..n,
           \A m \in 1..n : ends[m] = ends[m-1] + Len(pieces[m]),
           i # 1 => PutTogether(f, pieces, ends, i - 1),
           ends[0] = 0,
           f[i] = IF i = 1 THEN pieces[i] ELSE f[i-1] \o pieces[i]
    PROVE  PutTogether(f, pieces, ends, i)
<1>. DEFINE t == pieces[i]
<1>1. ASSUME NEW m \in 1..n
      PROVE  /\ pieces[m] \in Seq(Int) /\ Len(pieces[m]) \in Nat /\ ends[m-1] \in Nat /\ ends[m] \in Nat
             /\ ends[m] = ends[m-1] + Len(pieces[m])
  <2>1. m - 1 \in 0..n /\ m \in 0..n
    OBVIOUS
  <2>2. pieces[m] \in Seq(Int)
    OBVIOUS
  <2>3. Len(pieces[m]) \in Nat
    BY <2>2
  <2>4. ends[m-1] \in Nat /\ ends[m] \in Nat
    BY <2>1
  <2>. QED BY <2>2, <2>3, <2>4
<1>2. t \in Seq(Int) /\ Len(t) \in Nat /\ ends[i-1] \in Nat /\ ends[i] = ends[i-1] + Len(t)
  BY <1>1
<1>. HIDE DEF t
<1>3. CASE i = 1
  <2>1. f[i] = t /\ ends[i-1] = 0
    BY <1>3 DEF t
  <2>2. ASSUME NEW m \in 1..i, NEW j \in 1..Len(pieces[m]) PROVE f[i][ends[m-1] + j] = pieces[m][j]
    <3>1. m = i /\ pieces[m] = t
      BY <1>3 DEF t
    <3>2. ends[m-1] + j = j
      BY <1>2, <2>1, <3>1
    <3>. QED BY <2>1, <3>1, <3>2
  <2>3. f[i] \in Seq(Int) /\ Len(f[i]) = ends[i]
    BY ONLY <1>2, <2>1
  <2>. QED BY <2>2, <2>3 DEF PutTogether
<1>4. CASE i # 1
  <2>. DEFINE s == f[i-1]
  <2>1. /\ f[i] = s \o t /\ s \in Seq(Int) /\ Len(s) = ends[i-1]
        /\ \A m \in 1..(i-1) : \A j \in 1..Len(pieces[m]) : s[ends[m-1] + j] = pieces[m][j]
    BY <1>4 DEF PutTogether, t
  <2>. HIDE DEF s
  <2>2. /\ s \o t \in Seq(Int) /\ Len(s \o t) = Len(s) + Len(t) /\ Len(s) \in Nat
        /\ s \in Seq(Int) /\ Len(s) = ends[i-1] /\ f[i] = s \o t
    BY ONLY <1>2, <2>1, ConcatAt
  <2>5. /\ \A x \in 1..Len(s) : (s \o t)[x] = s[x]
        /\ \A x \in 1..Len(t) : (s \o t)[Len(s) + x] = t[x]
    BY ONLY <1>2, <2>2, ConcatAt
  <2>3. f[i] \in Seq(Int) /\ Len(f[i]) = ends[i]
    BY <1>2, <2>1, <2>2
  <2>4. ASSUME NEW m \in 1..i, NEW j \in 1..Len(pieces[m])
        PROVE  f[i][ends[m-1] + j] = pieces[m][j]
    <3>1. CASE m = i
      <4>1. j \in 1..Len(t) /\ ends[m-1] = Len(s)
        BY <2>2, <3>1 DEF t
      <4>2. (s \o t)[Len(s) + j] = t[j]
        BY <2>5, <4>1
      <4>. QED BY <2>2, <3>1, <4>1, <4>2 DEF t
    <3>2. CASE m # i
      <4>1. m \in 1..(i-1) /\ m \in 1..n
        BY <3>2
      <4>2. /\ Len(pieces[m]) \in Nat /\ ends[m-1] \in Nat /\ ends[m] \in Nat
            /\ ends[m] = ends[m-1] + Len(pieces[m])
        BY <1>1, <4>1
      <4>3. ends[m] <= ends[i-1]
        <5>1. ASSUME NEW k \in 1..n PROVE ends[k-1] <= ends[k]
          BY <1>1
        <5>2. m \in 0..n /\ i - 1 \in m..n
          BY <4>1
        <5>. QED BY ONLY <5>1, <5>2, n \in Nat, ends \in [0..n -> Nat], Ascends
      <4>4. ends[m-1] + j \in 1..Len(s)
        <5>. DEFINE x == ends[m-1]
                    y == ends[m]
                    l == Len(pieces[m])
        <5>1. x \in Nat /\ l \in Nat /\ y = x + l /\ y <= Len(s) /\ Len(s) \in Nat /\ j \in 1..l
          BY <2>2, <4>2, <4>3
        <5>. HIDE DEF x, y, l
        <5>2. x + j \in 1..Len(s)
          BY ONLY <5>1
        <5>. QED BY <5>2 DEF x
      <4>5. (s \o t)[ends[m-1] + j] = s[ends[m-1] + j]
        BY <2>5, <4>4
      <4>. QED BY <2>1, <4>1, <4>5
    <3>. QED BY <3>1, <3>2
  <2>. QED BY <2>3, <2>4 DEF PutTogether
<1>. QED BY <1>3, <1>4

\* FlattenSeq puts each piece where the pieces before it end.
LEMMA FlattenedAt ==
    ASSUME NEW n \in Nat, NEW pieces \in [1..n -> Seq(Int)], NEW ends \in [0..n -> Nat], ends[0] = 0,
           \A m \in 1..n : ends[m] = ends[m-1] + Len(pieces[m])
    PROVE  /\ FlattenSeq(pieces) \in Seq(Int) /\ Len(FlattenSeq(pieces)) = ends[n]
           /\ \A m \in 1..n : \A j \in 1..Len(pieces[m]) : FlattenSeq(pieces)[ends[m-1] + j] = pieces[m][j]
<1>1. Len(pieces) = n /\ pieces \in Seq(Seq(Int))
  OBVIOUS
<1>2. CASE n = 0
  <2>1. FlattenSeq(pieces) = pieces
    BY <1>1, <1>2 DEF FlattenSeq
  <2>2. pieces = <<>>
    BY <1>1, <1>2
  <2>. QED BY <1>2, <2>1, <2>2
<1>3. CASE n # 0
  <2>. DEFINE F(f) == [i \in 1..n |-> IF i = 1 THEN pieces[i] ELSE f[i-1] \o pieces[i]]
              step == [i \in 1..n |-> [s \in Seq(Int) |-> s \o pieces[i]]]
  <2>1. step \in [1..n -> [Seq(Int) -> Seq(Int)]]
    OBVIOUS
  <2>2. PICK h \in [0..n -> Seq(Int)] : Unfolds(h, n, <<>>, step)
    <3>1. <<>> \in Seq(Int)
      OBVIOUS
    <3>. HIDE DEF step
    <3>. QED BY <2>1, <3>1, RecursionExists
  <2>. DEFINE g == [i \in 1..n |-> h[i]]
  <2>3. g = F(g)
    <3>1. ASSUME NEW i \in 1..n
          PROVE  g[i] = IF i = 1 THEN pieces[i] ELSE g[i-1] \o pieces[i]
      <4>1. h[i-1] \in Seq(Int) /\ h[i] = step[i][h[i-1]]
        <5>. HIDE DEF step
        <5>1. i - 1 \in 0..n
          OBVIOUS
        <5>. QED BY <2>2, <5>1 DEF Unfolds
      <4>2. h[i] = h[i-1] \o pieces[i]
        BY <4>1
      <4>3. CASE i = 1
        <5>1. h[i-1] = <<>>
          BY <2>2, <4>3 DEF Unfolds
        <5>. QED BY <4>2, <4>3, <5>1
      <4>4. CASE i # 1
        <5>1. i - 1 \in 1..n
          BY <4>4
        <5>. QED BY <4>2, <4>4, <5>1
      <4>. QED BY <4>3, <4>4
    <3>. QED BY <3>1
  <2>. DEFINE flat == CHOOSE f : f = F(f)
  <2>4. flat = F(flat)
    <3>. HIDE DEF F
    <3>. QED BY <2>3
  <2>5. FlattenSeq(pieces) = flat[n]
    BY <1>1, <1>3 DEF FlattenSeq
  <2>. HIDE DEF flat
  <2>6. \A i \in 1..n : flat[i] = IF i = 1 THEN pieces[i] ELSE flat[i-1] \o pieces[i]
    BY <2>4
  <2>. HIDE DEF F, step
  <2>. DEFINE Off == {i \in 1..n : ~PutTogether(flat, pieces, ends, i)}
  <2>7. Off = {}
    <3>. SUFFICES ASSUME Off # {} PROVE FALSE
      OBVIOUS
    <3>1. PICK k \in Off : \A y \in Off : k <= y
      <4>1. Off \in SUBSET Nat
        OBVIOUS
      <4>. QED BY <4>1, Least
    <3>2. k # 1 => PutTogether(flat, pieces, ends, k - 1)
      <4>1. k # 1 => k - 1 \in 1..n /\ k - 1 \notin Off
        BY <3>1
      <4>. QED BY <4>1
    <3>3. k \in 1..n /\ flat[k] = IF k = 1 THEN pieces[k] ELSE flat[k-1] \o pieces[k]
      BY <2>6, <3>1
    <3>4. \A m \in 1..n : pieces[m] \in Seq(Int) /\ ends[m] = ends[m-1] + Len(pieces[m])
      OBVIOUS
    <3>5. PutTogether(flat, pieces, ends, k)
      BY <3>2, <3>3, <3>4, PutTogetherStep
    <3>. QED BY <3>1, <3>5
  <2>8. PutTogether(flat, pieces, ends, n)
    <3>1. n \in 1..n
      BY <1>3
    <3>. QED BY <2>7, <3>1
  <2>. QED BY <2>5, <2>8 DEF PutTogether
<1>. QED BY <1>2, <1>3

---------------------------------------------------------------------------
(* The bytes of a fork. *)

\* Where the i-th extent ends in the fork.
Ends(exts, i) == UpTo(exts)[i] * vol.blockSize

LEMMA SpanFacts ==
    ASSUME vol.blockSize \in Nat, NEW exts \in Lists
    PROVE  /\ Len(exts) \in Nat /\ Spans(exts) \in Nat
           /\ Ends(exts, 0) = 0 /\ Ends(exts, Len(exts)) = Spans(exts)
           /\ \A i \in 0..Len(exts) : Ends(exts, i) \in Nat /\ Ends(exts, i) <= Spans(exts)
           /\ \A i \in 1..Len(exts) : /\ Span(exts[i]) \in Nat /\ exts[i].start \in Nat
                                      /\ Ends(exts, i) = Ends(exts, i - 1) + Span(exts[i])
<1>. DEFINE b == vol.blockSize
            n == Len(exts)
            u == UpTo(exts)
<1>1. /\ n \in Nat /\ u \in [0..n -> Nat] /\ u[0] = 0 /\ Covered(exts) = u[n]
      /\ \A i \in 1..n : /\ u[i] = u[i-1] + exts[i].count
                         /\ exts[i].count \in Nat /\ exts[i].start \in Nat
  BY UpToUnfolds, ExtentTypes DEF Covered
<1>2. \A i \in 0..n : u[i] <= u[n]
  BY CoveredIsNat DEF Covered
<1>3. b \in Nat
  OBVIOUS
<1>. HIDE DEF n, u, b
<1>4. ASSUME NEW x \in Nat, NEW y \in Nat
      PROVE  x * b \in Nat /\ (x <= y => x * b <= y * b) /\ (x + y) * b = x * b + y * b
  <2>1. x * b \in Nat /\ y * b \in Nat /\ (x + y) * b = x * b + y * b
    BY <1>3
  <2>2. ASSUME x <= y PROVE x * b <= y * b
    <3>1. y - x \in Nat /\ y = x + (y - x)
      BY <2>2
    <3>2. y * b = x * b + (y - x) * b /\ (y - x) * b \in Nat
      BY <1>3, <3>1
    <3>. QED BY <2>1, <3>2
  <2>. QED BY <2>1, <2>2
<1>5. ASSUME NEW i \in 0..n PROVE Ends(exts, i) \in Nat /\ Ends(exts, i) <= Spans(exts)
  <2>1. u[i] \in Nat /\ u[n] \in Nat /\ u[i] <= u[n]
    BY <1>1, <1>2
  <2>2. u[i] * b \in Nat /\ u[i] * b <= u[n] * b
    BY ONLY <1>4, <2>1
  <2>. QED BY <1>1, <2>2 DEF Ends, Spans, u, b
<1>6. ASSUME NEW i \in 1..n
      PROVE  /\ Span(exts[i]) \in Nat /\ exts[i].start \in Nat
             /\ Ends(exts, i) = Ends(exts, i - 1) + Span(exts[i])
  <2>. DEFINE c == exts[i].count
              p == u[i-1]
  <2>1. c \in Nat /\ p \in Nat /\ u[i] = p + c /\ exts[i].start \in Nat
    <3>1. i - 1 \in 0..n
      BY <1>1
    <3>. QED BY <1>1, <3>1
  <2>. HIDE DEF c, p
  <2>2. c * b \in Nat /\ u[i] * b = p * b + c * b
    BY ONLY <1>4, <2>1
  <2>. QED BY <2>1, <2>2 DEF Ends, Span, c, p, u, b
<1>7. Ends(exts, 0) = 0 /\ Ends(exts, n) = Spans(exts)
  BY <1>1, <1>3 DEF Ends, Spans, u, b
<1>8. Spans(exts) \in Nat
  BY <1>1, <1>5, <1>7
<1>. QED BY <1>1, <1>5, <1>6, <1>7, <1>8 DEF n

\* How much of the fork's data lies before a place in its extents.
Reach(size, at) == IF size <= at THEN size ELSE at

LEMMA DataLengths ==
    ASSUME NEW size \in Nat, NEW at \in Nat, NEW span \in Nat
    PROVE  /\ DataLength(size - at, span) \in Nat /\ DataLength(size - at, span) <= span
           /\ Reach(size, at + span) = Reach(size, at) + DataLength(size - at, span)
<1>1. Min({size - at, span}) = IF size - at <= span THEN size - at ELSE span
  BY MinOfTwo
<1>2. Max({0, Min({size - at, span})}) = IF 0 <= Min({size - at, span}) THEN Min({size - at, span}) ELSE 0
  <2>1. Min({size - at, span}) \in Int
    BY <1>1
  <2>. QED BY <2>1, MaxOfTwo
<1>. QED BY <1>1, <1>2 DEF DataLength, Bounded, Reach

\* The data that ranges report: byte k of the fork lies where the extent that
\* holds it says, and there are no more than the fork has and the extents hold.
LEMMA DataOfRanges ==
    ASSUME vol.blockSize \in Nat, vol.base \in Int, MaxInt \in Int,
           NEW exts \in Lists, NEW size \in Nat
    PROVE  LET data == DataOf(Ranges(exts, size))
           IN  /\ data \in Seq(Int) /\ Len(data) = Reach(size, Spans(exts))
               /\ \A i \in 1..Len(exts) : \A j \in 1..DataLength(size - Ends(exts, i-1), Span(exts[i])) :
                      data[Ends(exts, i-1) + j] = BlockOffset(exts[i].start) + j - 1
<1>. DEFINE n == Len(exts)
            ranges == Ranges(exts, size)
            pieces == [i \in 1..n |-> [j \in 1..ranges[i].length |-> ranges[i].diskOffset + j - 1]]
            ends == [i \in 0..n |-> Reach(size, Ends(exts, i))]
            data == DataOf(Ranges(exts, size))
            len(i) == DataLength(size - Ends(exts, i-1), Span(exts[i]))
<1>1. /\ n \in Nat /\ DOMAIN exts = 1..n
      /\ \A i \in 0..n : Ends(exts, i) \in Nat
      /\ \A i \in 1..n : /\ Span(exts[i]) \in Nat /\ exts[i].start \in Nat
                         /\ Ends(exts, i) = Ends(exts, i - 1) + Span(exts[i])
      /\ Ends(exts, 0) = 0 /\ Ends(exts, n) = Spans(exts)
  BY SpanFacts, ExtentTypes
<1>. HIDE DEF n
<1>2. ASSUME NEW i \in 1..n
      PROVE  /\ ranges[i].length = len(i) /\ ranges[i].diskOffset = BlockOffset(exts[i].start)
             /\ len(i) \in Nat /\ BlockOffset(exts[i].start) \in Int
             /\ Reach(size, Ends(exts, i)) = Reach(size, Ends(exts, i-1)) + len(i)
             /\ len(i) > 0 => Reach(size, Ends(exts, i-1)) = Ends(exts, i-1)
  <2>1. i - 1 \in 0..n /\ i \in 0..n
    BY <1>1
  <2>2. Ends(exts, i-1) \in Nat /\ Span(exts[i]) \in Nat /\ exts[i].start \in Nat
    BY <1>1, <2>1
  <2>. DEFINE e == Ends(exts, i-1)
              s == Span(exts[i])
  <2>7. Ends(exts, i) = e + s
    BY <1>1
  <2>8. e \in Nat /\ s \in Nat /\ len(i) = DataLength(size - e, s)
    BY <2>2
  <2>. HIDE DEF e, s, len
  <2>9. DataLength(size - e, s) \in Nat /\ Reach(size, e + s) = Reach(size, e) + DataLength(size - e, s)
    BY <2>8, DataLengths
  <2>3. len(i) \in Nat /\ Reach(size, Ends(exts, i)) = Reach(size, Ends(exts, i-1)) + len(i)
    BY <2>7, <2>8, <2>9 DEF e
  <2>4. ranges[i].length = len(i) /\ ranges[i].diskOffset = BlockOffset(exts[i].start)
    BY <1>1 DEF Ranges, Before, Ends, len
  <2>5. BlockOffset(exts[i].start) \in Int
    BY <2>2 DEF BlockOffset
  <2>6. len(i) > 0 => Reach(size, Ends(exts, i-1)) = Ends(exts, i-1)
    <3>1. DataLength(size - e, s) > 0 => Reach(size, e) = e
      BY <2>8, <2>9 DEF Reach
    <3>. QED BY <2>8, <3>1 DEF e
  <2>. QED BY <2>3, <2>4, <2>5, <2>6
<1>3. pieces \in [1..n -> Seq(Int)] /\ \A i \in 1..n : Len(pieces[i]) = len(i)
  <2>1. ASSUME NEW i \in 1..n PROVE pieces[i] \in Seq(Int) /\ Len(pieces[i]) = len(i)
    <3>. DEFINE l == ranges[i].length
                d == ranges[i].diskOffset
    <3>1. l \in Nat /\ d \in Int /\ l = len(i)
      BY <1>2
    <3>. HIDE DEF l, d
    <3>2. [j \in 1..l |-> d + j - 1] \in Seq(Int) /\ Len([j \in 1..l |-> d + j - 1]) = l
      BY <3>1
    <3>3. pieces[i] = [j \in 1..l |-> d + j - 1]
      BY DEF l, d
    <3>. QED BY <3>1, <3>2, <3>3
  <2>. QED BY <2>1
<1>4. ends \in [0..n -> Nat] /\ ends[0] = 0
  <2>1. ASSUME NEW i \in 0..n PROVE Reach(size, Ends(exts, i)) \in Nat
    BY <1>1 DEF Reach
  <2>2. Reach(size, Ends(exts, 0)) = 0 /\ 0 \in 0..n
    BY <1>1 DEF Reach
  <2>. QED BY <2>1, <2>2
<1>5. \A m \in 1..n : ends[m] = ends[m-1] + Len(pieces[m])
  <2>. TAKE m \in 1..n
  <2>1. m \in 0..n /\ m - 1 \in 0..n
    BY <1>1
  <2>2. ends[m] = Reach(size, Ends(exts, m)) /\ ends[m-1] = Reach(size, Ends(exts, m-1))
    BY <2>1
  <2>. HIDE DEF ends, pieces, len
  <2>. QED BY <1>2, <1>3, <2>2
<1>6. data = FlattenSeq(pieces)
  <2>1. DOMAIN ranges = 1..n
    BY <1>1 DEF Ranges
  <2>. QED BY <2>1 DEF DataOf
<1>7. /\ data \in Seq(Int) /\ Len(data) = ends[n]
      /\ \A m \in 1..n : \A j \in 1..Len(pieces[m]) : data[ends[m-1] + j] = pieces[m][j]
  <2>. HIDE DEF data, pieces, ends
  <2>. QED BY ONLY <1>1, <1>3, <1>4, <1>5, <1>6, FlattenedAt
<1>8. Len(data) = Reach(size, Spans(exts))
  <2>1. n \in 0..n
    BY <1>1
  <2>2. ends[n] = Reach(size, Ends(exts, n))
    BY <2>1
  <2>. HIDE DEF ends, data
  <2>. QED BY <1>1, <1>7, <2>2
<1>9. ASSUME NEW i \in 1..n, NEW j \in 1..len(i)
      PROVE  data[Ends(exts, i-1) + j] = BlockOffset(exts[i].start) + j - 1
  <2>1. len(i) \in Nat /\ j > 0 /\ len(i) > 0
    BY <1>2
  <2>2. ends[i-1] = Ends(exts, i-1)
    <3>1. i - 1 \in 0..n
      BY <1>1
    <3>. QED BY <1>2, <2>1, <3>1
  <2>3. j \in 1..Len(pieces[i])
    BY <1>3
  <2>4. pieces[i][j] = BlockOffset(exts[i].start) + j - 1
    <3>1. ranges[i].length = len(i) /\ ranges[i].diskOffset = BlockOffset(exts[i].start)
      BY <1>2
    <3>. HIDE DEF len, ranges
    <3>2. pieces[i][j] = ranges[i].diskOffset + j - 1
      BY <3>1
    <3>. QED BY <3>1, <3>2
  <2>. HIDE DEF data, pieces, ends, len
  <2>. QED BY <1>7, <2>2, <2>3, <2>4
<1>. QED BY <1>7, <1>8, <1>9 DEF n

---------------------------------------------------------------------------
(* Reading an open fork. *)

\* What the ranges of the open fork report.
Data ==
    LET exts == file.extents
    IN  /\ content \in Seq(Int) /\ Len(content) = Reach(file.size, Spans(exts))
        /\ \A i \in 1..Len(exts) :
               /\ BlockOffset(exts[i].start) # -1
               /\ Span(exts[i]) <= MaxInt - BlockOffset(exts[i].start)
               /\ \A j \in 1..DataLength(file.size - Ends(exts, i-1), Span(exts[i])) :
                      content[Ends(exts, i-1) + j] = BlockOffset(exts[i].start) + j - 1

InlineData ==
    /\ content \in Seq(Int) /\ Len(content) = file.size /\ file.told
    /\ \A i \in 1..file.size : content[i] = i - 1

\* The open file: its content is what its ranges report.
FileInv ==
    /\ vol # NotOpen
    /\ file.kind \in {"fork", "inline", "tree"} /\ file.extents \in Lists /\ file.size \in Nat
    /\ file.kind = "tree" => file.size = Spans(file.extents)
    /\ file.kind = "inline" => InlineData
    /\ file.kind # "inline" /\ file.told => Data

\* The call under way is one that may be asked for.
Asked(c) ==
    /\ c.kind \in {"Read", "ReadAt", "ReadAll", "node"} /\ c.off \in Nat /\ c.len \in Nat
    /\ file.kind = IF c.kind = "node" THEN "tree" ELSE "fork"
    /\ c.kind # "node" => c.off < file.size
    /\ c.kind = "Read" => c.off = foff
    /\ c.kind = "ReadAll" => c.off = 0 /\ c.len = file.size

\* These bytes are the fork's, from that offset on.
RightAt(off, bytes) ==
    /\ Len(bytes) > 0 => off + Len(bytes) <= Len(content)
    /\ \A j \in 1..Len(bytes) : bytes[j] = content[off + j]

\* The buffer is filled up to where the extents done with end.
Progress ==
    /\ idx \in 1..(Len(file.extents) + 1) /\ logical = Ends(file.extents, idx - 1)
    /\ buf \in Seq(Int) /\ Len(buf) <= Want(call)
    /\ Len(buf) = Want(call) \/ call.off + Len(buf) >= logical
    /\ file.told => RightAt(call.off, buf)

\* Reading: the handle stays inside the file, the buffer on its bytes.
ReadInv ==
    /\ file = Closed => content = <<>> /\ call = Idle
    /\ file # Closed => FileInv
    /\ call = Idle => idx = 1 /\ logical = 0 /\ buf = <<>>
    /\ call # Idle => Asked(call) /\ Progress
    /\ foff \in Nat /\ (foff <= file.size \/ foff = 0)
    /\ ret.err \in {"nil", "EOF", "short", "failed", "invalid", "limit"} /\ ret.n = Len(ret.bytes)

LEMMA Geometry ==
    ASSUME OpenInv, vol # NotOpen
    PROVE  vol.base \in Nat /\ vol.blockSize \in Nat \ {0} /\ MaxInt \in Nat
BY Sizes DEF OpenInv, OpenedAt

LEMMA EmptySeq == <<>> \in Seq(Int) /\ Len(<<>>) = 0
OBVIOUS

LEMMA ReadInvInit == ReadInit => ReadInv
BY EmptySeq DEF ReadInit, ReadInv, Closed, Nothing

LEMMA FileInvStays ==
    ASSUME FileInv, UNCHANGED <<vol, file, content>>
    PROVE  FileInv'
<1>1. /\ \A e : Span(e)' = Span(e)
      /\ \A b : BlockOffset(b)' = BlockOffset(b)
      /\ \A exts, i : Ends(exts, i)' = Ends(exts, i)
      /\ \A exts : Spans(exts)' = Spans(exts)
  BY DEF Span, BlockOffset, Ends, Spans
<1>2. Data => Data'
  BY <1>1 DEF Data
<1>3. InlineData => InlineData'
  BY DEF InlineData
<1>. QED BY <1>1, <1>2, <1>3 DEF FileInv

LEMMA ReadInvStays ==
    ASSUME ReadInv, UNCHANGED readVars, UNCHANGED vol
    PROVE  ReadInv'
<1>1. UNCHANGED <<file, foff, call, idx, logical, buf, ret, content>>
  BY DEF readVars
<1>2. file # Closed => FileInv'
  BY <1>1, FileInvStays DEF ReadInv
<1>3. call # Idle => (Asked(call) /\ Progress)'
  <2>1. ASSUME call # Idle PROVE Asked(call)' /\ Progress'
    <3>1. Asked(call) /\ Progress
      BY <2>1 DEF ReadInv
    <3>2. Asked(call)'
      BY <1>1, <3>1 DEF Asked
    <3>3. Progress'
      BY <1>1, <3>1 DEF Progress, Want, RightAt, Ends
    <3>. QED BY <3>2, <3>3
  <2>. QED BY <2>1
<1>. QED BY <1>1, <1>2, <1>3 DEF ReadInv

\* Opening a fork.
LEMMA OpenAsStep ==
    ASSUME OpenInv, ReadInv, file = Closed, vol # NotOpen, UNCHANGED vol,
           NEW kind \in {"fork", "inline", "tree"}, NEW exts \in Lists, NEW size \in Nat,
           kind = "tree" => size = Spans(exts), kind = "inline" => exts = <<>>,
           OpenAs(kind, exts, size)
    PROVE  ReadInv' /\ Abstract!Open
<1>1. /\ file' = [kind |-> kind, extents |-> exts, size |-> size, told |-> Addressable(exts)]
      /\ content' = Content(file') /\ UNCHANGED <<foff, call, idx, logical, buf, ret>>
      /\ vol.base \in Nat /\ vol.blockSize \in Nat /\ MaxInt \in Nat
  BY Geometry DEF OpenAs
<1>2. call = Idle /\ foff = 0 /\ content = <<>>
  BY DEF ReadInv, Closed
<1>3. file'.kind = kind /\ file'.extents = exts /\ file'.size = size /\ file'.told = Addressable(exts)
  BY <1>1
<1>4. /\ \A e : Span(e)' = Span(e)
      /\ \A b : BlockOffset(b)' = BlockOffset(b)
      /\ \A es, i : Ends(es, i)' = Ends(es, i)
      /\ \A es : Spans(es)' = Spans(es)
  BY DEF Span, BlockOffset, Ends, Spans
<1>5. kind # "inline" /\ Addressable(exts) => Data'
  <2>. SUFFICES ASSUME kind # "inline", Addressable(exts) PROVE Data'
    OBVIOUS
  <2>. DEFINE data == DataOf(Ranges(exts, size))
  <2>3. content' = data
    BY <1>1, <1>3 DEF Content
  <2>4. /\ data \in Seq(Int) /\ Len(data) = Reach(size, Spans(exts))
        /\ \A i \in 1..Len(exts) : \A j \in 1..DataLength(size - Ends(exts, i-1), Span(exts[i])) :
               data[Ends(exts, i-1) + j] = BlockOffset(exts[i].start) + j - 1
    BY <1>1, DataOfRanges
  <2>. HIDE DEF data
  <2>5. \A i \in 1..Len(exts) : /\ BlockOffset(exts[i].start) # -1
                                /\ Span(exts[i]) <= MaxInt - BlockOffset(exts[i].start)
    BY ExtentTypes DEF Addressable
  <2>. QED BY <1>3, <1>4, <2>3, <2>4, <2>5 DEF Data
<1>6. kind = "inline" => InlineData'
  <2>. SUFFICES ASSUME kind = "inline" PROVE InlineData'
    OBVIOUS
  <2>1. content' = [i \in 1..size |-> i - 1]
    BY <1>1, <1>3 DEF Content
  <2>2. content' \in Seq(Int) /\ Len(content') = size /\ \A i \in 1..size : content'[i] = i - 1
    BY <2>1
  <2>3. Addressable(exts)
    <3>1. Covered(exts) = 0 /\ DOMAIN exts = {}
      <4>1. Len(exts) = 0
        OBVIOUS
      <4>. QED BY <4>1, UpToUnfolds, ExtentTypes DEF Covered
    <3>. QED BY <1>1, <3>1 DEF Addressable, Spans
  <2>. QED BY <1>3, <2>2, <2>3 DEF InlineData
<1>7. FileInv'
  BY <1>3, <1>4, <1>5, <1>6 DEF FileInv
<1>8. file' # Closed
  BY <1>3 DEF Closed
<1>9. ReadInv'
  BY <1>1, <1>2, <1>3, <1>7, <1>8 DEF ReadInv
<1>. QED BY <1>1, <1>2, <1>9 DEF Abstract!Open

LEMMA ContentSize ==
    ASSUME OpenInv, FileInv, file.told
    PROVE  /\ content \in Seq(Int) /\ Len(content) \in Nat /\ Len(content) <= file.size
           /\ Spans(file.extents) \in Nat
           /\ Len(content) = file.size \/ (file.kind # "inline" /\ Len(content) = Spans(file.extents))
           /\ file.kind # "inline" => Len(content) <= Spans(file.extents)
<1>1. Spans(file.extents) \in Nat
  BY Geometry, SpanFacts DEF FileInv
<1>2. CASE file.kind = "inline"
  BY <1>1, <1>2 DEF FileInv, InlineData
<1>3. CASE file.kind # "inline"
  BY <1>1, <1>3 DEF FileInv, Data, Reach
<1>. QED BY <1>2, <1>3

LEMMA SliceOf ==
    ASSUME NEW s \in Seq(Int), NEW t \in Seq(Int), NEW off \in Nat, off + Len(t) <= Len(s),
           \A j \in 1..Len(t) : t[j] = s[off + j]
    PROVE  t = SubSeq(s, off + 1, off + Len(t))
<1>. DEFINE n == Len(t)
            u == SubSeq(s, off + 1, off + n)
<1>1. n \in Nat /\ Len(s) \in Nat
  OBVIOUS
<1>2. u \in Seq(Int) /\ Len(u) = n /\ \A j \in 1..n : u[j] = s[off + j]
  <2>. HIDE DEF n
  <2>1. u \in Seq(Int) /\ Len(u) = n
    BY <1>1 DEF n
  <2>2. ASSUME NEW j \in 1..n PROVE u[j] = s[off + j]
    <3>1. off + 1 \in 1..Len(s) + 1 /\ j \in 1..((off + n) - (off + 1) + 1)
      BY <1>1 DEF n
    <3>2. u[j] = s[(off + 1) + j - 1]
      BY <1>1, <3>1
    <3>3. (off + 1) + j - 1 = off + j
      BY <1>1
    <3>. QED BY <3>2, <3>3
  <2>. QED BY <2>1, <2>2
<1>. HIDE DEF u
<1>3. t = [j \in 1..n |-> t[j]] /\ u = [j \in 1..n |-> u[j]]
  BY <1>2
<1>4. \A j \in 1..n : t[j] = u[j]
  BY <1>2
<1>5. t = u
  BY <1>3, <1>4
<1>. QED BY <1>5 DEF u

\* A call that returns what is right of it is answered as ByteFile allows.
LEMMA Answered ==
    ASSUME OpenInv, ReadInv, file # Closed, UNCHANGED <<vol, file, content>>,
           NEW c, NEW bytes \in Seq(Int),
           NEW err \in {"nil", "EOF", "short", "failed", "invalid", "limit"},
           Return(c, bytes, err),
           c.kind \in {"Read", "ReadAt", "ReadAll", "node"}, c.len \in Nat, c.off \in Int,
           bytes # <<>> => (c.off \in Nat /\ c.off + Len(bytes) <= file.size) \/ c.kind = "node",
           bytes # <<>> => c.off \in Nat,
           c.kind = "Read" => c.off = foff,
           file.told => Len(bytes) <= c.len /\ RightAt(c.off, bytes),
           file.told /\ err = "nil" /\ c.kind # "ReadAll" => Len(bytes) = c.len,
           file.told /\ err = "EOF" /\ c.kind # "ReadAll" => c.off + Len(bytes) >= Len(content),
           file.told /\ err \in {"nil", "EOF"} /\ c.kind = "ReadAll" => Len(bytes) = Len(content)
    PROVE  ReadInv' /\ Abstract!Answer
<1>. DEFINE all  == c.kind \in {"ReadAll", "node"} /\ err \notin {"nil", "EOF"}
            kept == IF all THEN <<>> ELSE bytes
            said == IF c.kind = "ReadAll" /\ err = "EOF" THEN "nil" ELSE err
            r    == [call |-> c, n |-> Len(kept), bytes |-> kept, err |-> said]
<1>1. /\ call' = Idle /\ idx' = 1 /\ logical' = 0 /\ buf' = <<>> /\ ret' = r
      /\ foff' = IF c.kind = "Read" THEN foff + Len(bytes) ELSE foff
  BY DEF Return, Advance
<1>2. kept \in Seq(Int) /\ Len(kept) \in Nat /\ Len(bytes) \in Nat /\ (kept = bytes \/ kept = <<>>)
      /\ (bytes = <<>> => Len(bytes) = 0) /\ Len(<<>>) = 0
  BY EmptySeq
<1>3. said \in {"nil", "EOF", "short", "failed", "invalid", "limit"}
  OBVIOUS
<1>4. r.call = c /\ r.n = Len(kept) /\ r.bytes = kept /\ r.err = said
  OBVIOUS
<1>5. c.kind = "Read" => kept = bytes
  OBVIOUS
<1>. HIDE DEF r
<1>6. ReadInv'
  <2>1. FileInv'
    BY FileInvStays DEF ReadInv
  <2>2. foff' \in Nat /\ (foff' <= file.size \/ foff' = 0)
    <3>1. CASE c.kind = "Read" /\ bytes # <<>>
      BY <1>1, <1>2, <3>1 DEF ReadInv
    <3>2. CASE ~(c.kind = "Read" /\ bytes # <<>>)
      <4>1. foff' = foff
        BY <1>1, <1>2, <3>2 DEF ReadInv
      <4>. QED BY <4>1 DEF ReadInv
    <3>. QED BY <3>1, <3>2
  <2>3. ret'.err \in {"nil", "EOF", "short", "failed", "invalid", "limit"} /\ ret'.n = Len(ret'.bytes)
    BY <1>1, <1>3, <1>4
  <2>. HIDE DEF said, kept
  <2>. QED BY <1>1, <2>1, <2>2, <2>3 DEF ReadInv
<1>7. ASSUME file.told
      PROVE  /\ Abstract!Allowed(r)
             /\ IF c.kind = "Read" THEN c.off = foff /\ foff' = foff + r.n ELSE foff' = foff
  <2>1. /\ content \in Seq(Int) /\ Len(content) \in Nat /\ Len(bytes) <= c.len /\ RightAt(c.off, bytes)
    BY <1>7, ContentSize DEF ReadInv
  <2>2. Len(kept) <= c.len
    BY <1>2, <2>1
  <2>3. Abstract!RightBytes(r)
    <3>1. ASSUME Len(kept) > 0
          PROVE  c.off + Len(kept) <= Len(content) /\ kept = SubSeq(content, c.off + 1, c.off + Len(kept))
      <4>1. kept = bytes /\ bytes # <<>> /\ c.off \in Nat
        BY <1>2, <3>1
      <4>2. c.off + Len(bytes) <= Len(content) /\ \A j \in 1..Len(bytes) : bytes[j] = content[c.off + j]
        BY <2>1, <3>1, <4>1 DEF RightAt
      <4>3. bytes = SubSeq(content, c.off + 1, c.off + Len(bytes))
        BY <2>1, <4>1, <4>2, SliceOf
      <4>. QED BY <4>1, <4>2, <4>3
    <3>. HIDE DEF kept
    <3>. QED BY <1>4, <3>1 DEF Abstract!RightBytes
  <2>4. Abstract!Promise(r)
    <3>1. CASE c.kind = "ReadAll"
      <4>1. said = "nil" => kept = bytes /\ Len(bytes) = Len(content)
        BY <1>7, <3>1
      <4>. HIDE DEF said, kept
      <4>. QED BY <1>4, <3>1, <4>1 DEF Abstract!Promise
    <3>2. CASE c.kind # "ReadAll"
      <4>1. /\ said = "nil" => Len(kept) = c.len
            /\ said = "EOF" => c.off + Len(kept) >= Len(content)
        BY <1>7, <3>2
      <4>. HIDE DEF said, kept
      <4>. QED BY <1>4, <3>2, <4>1 DEF Abstract!Promise
    <3>. QED BY <3>1, <3>2
  <2>. QED BY <1>1, <1>4, <1>5, <2>2, <2>3, <2>4 DEF Abstract!Allowed
<1>8. Abstract!Answer
  BY <1>1, <1>4, <1>7 DEF Abstract!Answer
<1>. QED BY <1>6, <1>8

\* The same of a call that returns no bytes.
LEMMA AnsweredEmpty ==
    ASSUME OpenInv, ReadInv, file # Closed, UNCHANGED <<vol, file, content>>,
           NEW c, NEW err \in {"nil", "EOF", "short", "failed", "invalid", "limit"},
           Return(c, <<>>, err),
           c.kind \in {"Read", "ReadAt", "ReadAll", "node"}, c.len \in Nat, c.off \in Int,
           c.kind = "Read" => c.off = foff,
           file.told /\ err = "nil" /\ c.kind # "ReadAll" => c.len = 0,
           file.told /\ err = "EOF" /\ c.kind # "ReadAll" => c.off >= Len(content),
           file.told /\ err \in {"nil", "EOF"} /\ c.kind = "ReadAll" => Len(content) = 0
    PROVE  ReadInv' /\ Abstract!Answer
<1>. DEFINE bytes == <<>>
<1>1. bytes \in Seq(Int) /\ Len(bytes) = 0 /\ bytes = <<>> /\ c.off + Len(bytes) = c.off
  BY EmptySeq
<1>2. RightAt(c.off, bytes)
  BY <1>1 DEF RightAt
<1>3. Return(c, bytes, err)
  OBVIOUS
<1>. HIDE DEF bytes
<1>4. /\ Len(bytes) <= c.len
      /\ file.told /\ err = "nil" /\ c.kind # "ReadAll" => Len(bytes) = c.len
      /\ file.told /\ err = "EOF" /\ c.kind # "ReadAll" => c.off + Len(bytes) >= Len(content)
      /\ file.told /\ err \in {"nil", "EOF"} /\ c.kind = "ReadAll" => Len(bytes) = Len(content)
  BY <1>1
<1>. QED BY <1>1, <1>2, <1>3, <1>4, Answered

\* A step of the reading is one of ByteFile's, or none.
Refines == Abstract!Open \/ Abstract!Answer \/ UNCHANGED <<content, file, foff, ret>>

LEMMA StartStep ==
    ASSUME OpenInv, ReadInv, UNCHANGED vol, NEW c, Start(c),
           c.kind \in {"Read", "ReadAt", "ReadAll"}, c.len \in Nat, c.off \in Int,
           c.kind = "Read" => c.off = foff,
           c.kind = "ReadAll" => c.off = 0 /\ c.len = file.size
    PROVE  ReadInv' /\ Refines
<1>1. /\ file.kind \in {"fork", "inline"} /\ call = Idle /\ UNCHANGED <<file, content>> /\ file # Closed
      /\ FileInv /\ file.size \in Nat
  BY DEF Start, ReadInv, Closed, FileInv
<1>2. file.told => /\ Len(content) \in Nat /\ Len(content) <= file.size
                   /\ content \in Seq(Int)
  BY <1>1, ContentSize
<1>3. RightAt(c.off, <<>>)
  BY EmptySeq DEF RightAt
<1>4. CASE c.off < 0 /\ Return(c, <<>>, "invalid")
  BY <1>1, <1>4, AnsweredEmpty DEF Refines
<1>5. CASE c.off >= 0 /\ c.len = 0 /\ Return(c, <<>>, "nil")
  <2>1. file.told /\ c.kind = "ReadAll" => Len(content) = 0
    BY <1>2, <1>5
  <2>. QED BY <1>1, <1>5, <2>1, AnsweredEmpty DEF Refines
<1>6. CASE c.off >= 0 /\ c.len > 0 /\ c.off >= file.size /\ Return(c, <<>>, "EOF")
  <2>1. file.told => c.off >= Len(content)
    BY <1>1, <1>2, <1>6
  <2>2. c.kind # "ReadAll"
    BY <1>1, <1>6
  <2>. QED BY <1>1, <1>6, <2>1, <2>2, AnsweredEmpty DEF Refines
<1>7. CASE /\ c.off >= 0 /\ c.len > 0 /\ c.off < file.size /\ file.kind = "inline"
           /\ Return(c, InlineBytes(c), IF c.off + Len(InlineBytes(c)) >= file.size THEN "EOF" ELSE "nil")
  <2>. DEFINE m     == Min({c.len, file.size - c.off})
              bytes == InlineBytes(c)
              err   == IF c.off + Len(bytes) >= file.size THEN "EOF" ELSE "nil"
  <2>1. m = IF c.len <= file.size - c.off THEN c.len ELSE file.size - c.off
    BY <1>1, MinOfTwo
  <2>2. m \in Nat \ {0} /\ m <= c.len /\ c.off + m <= file.size /\ (m = c.len \/ c.off + m = file.size)
    <3>. HIDE DEF m
    <3>. QED BY <1>1, <1>7, <2>1
  <2>3. bytes \in Seq(Int) /\ Len(bytes) = m /\ \A j \in 1..m : bytes[j] = c.off + j - 1
    <3>1. bytes = [i \in 1..m |-> c.off + i - 1]
      BY DEF InlineBytes
    <3>. HIDE DEF m, bytes
    <3>. QED BY <2>2, <3>1
  <2>. HIDE DEF m, bytes
  <2>4. InlineData
    BY <1>1, <1>7 DEF FileInv
  <2>5. RightAt(c.off, bytes)
    <3>1. \A j \in 1..m : c.off + j \in 1..file.size /\ (c.off + j) - 1 = c.off + j - 1
      BY <1>1, <1>7, <2>2
    <3>2. \A j \in 1..m : content[c.off + j] = c.off + j - 1
      BY <2>4, <3>1 DEF InlineData
    <3>. QED BY <2>2, <2>3, <2>4, <3>2 DEF RightAt, InlineData
  <2>6. /\ err \in {"nil", "EOF"} /\ (err = "EOF" => c.off + m >= file.size)
        /\ (err = "nil" => ~(c.off + m >= file.size))
    BY <2>3
  <2>. HIDE DEF err
  <2>7. err = "nil" => m = c.len
    BY <1>1, <2>2, <2>6
  <2>8. c.kind = "ReadAll" => m = file.size
    BY <1>1, <2>2
  <2>9. Len(content) = file.size
    BY <2>4 DEF InlineData
  <2>10. Return(c, bytes, err)
    BY <1>7 DEF bytes, err
  <2>11. c.off \in Nat /\ c.off + Len(bytes) <= file.size
    BY <1>7, <2>2, <2>3
  <2>12. err \in {"nil", "EOF", "short", "failed", "invalid", "limit"}
    BY <2>6
  <2>13. /\ Len(bytes) <= c.len
         /\ err = "nil" => Len(bytes) = c.len
         /\ err = "EOF" => c.off + Len(bytes) >= Len(content)
         /\ c.kind = "ReadAll" => Len(bytes) = Len(content)
    BY <2>2, <2>3, <2>6, <2>7, <2>8, <2>9
  <2>. QED BY <1>1, <2>3, <2>5, <2>10, <2>11, <2>12, <2>13, Answered DEF Refines
<1>8. CASE /\ c.off >= 0 /\ c.len > 0 /\ c.off < file.size /\ file.kind = "fork"
           /\ call' = c /\ ret' = Nothing /\ UNCHANGED <<foff, idx, logical, buf>>
  <2>1. Asked(c)
    BY <1>1, <1>8 DEF Asked
  <2>2. Asked(call)'
    BY <1>1, <1>8, <2>1 DEF Asked
  <2>3. FileInv'
    BY <1>1, FileInvStays
  <2>4. idx = 1 /\ logical = 0 /\ buf = <<>>
    BY <1>1 DEF ReadInv
  <2>5. Want(c) \in Nat
    <3>1. Want(c) = IF c.len <= file.size - c.off THEN c.len ELSE file.size - c.off
      BY <1>1, MinOfTwo DEF Want
    <3>. QED BY <1>1, <1>8, <3>1
  <2>6. Progress'
    <3>1. 0 = Ends(file.extents, 0) /\ Len(file.extents) \in Nat
      BY <1>1, Geometry, SpanFacts DEF FileInv
    <3>2. Ends(file.extents, 0)' = Ends(file.extents, 0) /\ Want(call)' = Want(c)
      BY <1>1, <1>8 DEF Ends, Want
    <3>3. RightAt(call.off, buf)'
      BY <1>3, <1>8, <2>4, <1>1, EmptySeq DEF RightAt
    <3>. QED BY <1>1, <1>8, <2>4, <2>5, <3>1, <3>2, <3>3, EmptySeq DEF Progress
  <2>7. ReadInv'
    <3>1. ret'.err = "nil" /\ ret'.n = Len(ret'.bytes)
      BY <1>8, EmptySeq DEF Nothing
    <3>2. call' # Idle
      BY <1>8 DEF Idle
    <3>. QED BY <1>1, <1>8, <2>2, <2>3, <2>6, <3>1, <3>2 DEF ReadInv
  <2>8. Abstract!Answer
    <3>1. /\ ret'.call = Idle /\ ret'.n = 0 /\ ret'.err = "nil" /\ Idle.kind = "idle" /\ Idle.len = 0
      BY <1>8 DEF Nothing, Idle
    <3>2. Abstract!Allowed(ret')
      BY <3>1 DEF Abstract!Allowed, Abstract!RightBytes, Abstract!Promise
    <3>. QED BY <1>1, <1>8, <3>1, <3>2 DEF Abstract!Answer
  <2>. QED BY <2>7, <2>8 DEF Refines
<1>9. c.off < 0 \/ c.off >= 0
  OBVIOUS
<1>10. CASE c.off < 0
  <2>. HIDE DEF Return
  <2>. QED BY <1>4, <1>10 DEF Start
<1>11. CASE c.off >= 0 /\ c.len = 0
  BY <1>5, <1>11 DEF Start
<1>12. CASE c.off >= 0 /\ c.len > 0 /\ c.off >= file.size
  <2>1. Return(c, <<>>, "EOF")
    <3>1. ~(c.off < file.size) /\ ~(c.len = 0) /\ ~(c.off < 0)
      BY <1>1, <1>12
    <3>. HIDE DEF Return, InlineBytes
    <3>. QED BY <1>12, <3>1 DEF Start
  <2>. QED BY <1>6, <1>12, <2>1
<1>13. CASE c.off >= 0 /\ c.len > 0 /\ c.off < file.size /\ file.kind = "inline"
  BY <1>7, <1>13 DEF Start
<1>14. CASE c.off >= 0 /\ c.len > 0 /\ c.off < file.size /\ file.kind = "fork"
  BY <1>1, <1>8, <1>14 DEF Start
<1>. QED BY <1>1, <1>9, <1>10, <1>11, <1>12, <1>13, <1>14

LEMMA ReadAllStep ==
    ASSUME OpenInv, ReadInv, UNCHANGED vol, ReadAll
    PROVE  ReadInv' /\ Refines
<1>. DEFINE c == [kind |-> "ReadAll", len |-> file.size, off |-> 0]
<1>1. file.kind \in {"fork", "inline"} /\ file # Closed /\ FileInv /\ UNCHANGED <<file, content>>
  BY DEF ReadAll, Start, ReadInv, Closed
<1>2. c.kind = "ReadAll" /\ c.len = file.size /\ c.off = 0 /\ file.size \in Nat
  BY <1>1 DEF FileInv
<1>. HIDE DEF c
<1>3. CASE Start(c)
  BY <1>2, <1>3, StartStep
<1>4. CASE Return(c, <<>>, "limit")
  BY <1>1, <1>2, <1>4, AnsweredEmpty DEF Refines
<1>. QED BY <1>3, <1>4 DEF ReadAll, c

LEMMA ReadNodeStep ==
    ASSUME OpenInv, ReadInv, UNCHANGED vol, NEW num \in Nat, ReadNode(num)
    PROVE  ReadInv' /\ Refines
<1>. DEFINE c == [kind |-> "node", len |-> NodeSize, off |-> num * NodeSize]
<1>1. /\ file.kind = "tree" /\ call = Idle /\ UNCHANGED <<file, content, foff, idx, logical, buf>>
      /\ file # Closed /\ FileInv /\ call' = c /\ ret' = Nothing
  BY DEF ReadNode, ReadInv, Closed
<1>2. c.kind = "node" /\ c.len = NodeSize /\ c.off = num * NodeSize /\ c.off \in Nat /\ c.len \in Nat
  BY FileReadAssumption
<1>. HIDE DEF c
<1>3. Asked(call)'
  BY <1>1, <1>2 DEF Asked
<1>4. FileInv'
  BY <1>1, FileInvStays
<1>5. idx = 1 /\ logical = 0 /\ buf = <<>>
  BY <1>1 DEF ReadInv
<1>6. Progress'
  <2>1. 0 = Ends(file.extents, 0) /\ Len(file.extents) \in Nat
    BY <1>1, Geometry, SpanFacts DEF FileInv
  <2>2. Ends(file.extents, 0)' = Ends(file.extents, 0) /\ Want(call)' = NodeSize
    BY <1>1, <1>2 DEF Ends, Want
  <2>3. RightAt(call.off, buf)'
    BY <1>1, <1>5, EmptySeq DEF RightAt
  <2>. QED BY <1>1, <1>2, <1>5, <2>1, <2>2, <2>3, EmptySeq DEF Progress
<1>7. ReadInv'
  <2>1. ret'.err = "nil" /\ ret'.n = Len(ret'.bytes)
    BY <1>1, EmptySeq DEF Nothing
  <2>2. call' # Idle
    BY <1>1, <1>2 DEF Idle
  <2>. QED BY <1>1, <1>3, <1>4, <1>6, <2>1, <2>2 DEF ReadInv
<1>8. Abstract!Answer
  <2>1. /\ ret'.call = Idle /\ ret'.n = 0 /\ ret'.err = "nil" /\ Idle.kind = "idle" /\ Idle.len = 0
    BY <1>1 DEF Nothing, Idle
  <2>2. Abstract!Allowed(ret')
    BY <2>1 DEF Abstract!Allowed, Abstract!RightBytes, Abstract!Promise
  <2>. QED BY <1>1, <2>1, <2>2 DEF Abstract!Answer
<1>. QED BY <1>7, <1>8 DEF Refines

LEMMA WantBound ==
    ASSUME FileInv, NEW c, Asked(c)
    PROVE  /\ Want(c) \in Nat /\ Want(c) <= c.len /\ c.off \in Nat /\ c.len \in Nat /\ file.size \in Nat
           /\ c.kind = "node" => Want(c) = c.len
           /\ c.kind # "node" => /\ c.off + Want(c) <= file.size
                                 /\ Want(c) = c.len \/ c.off + Want(c) = file.size
<1>1. c.off \in Nat /\ c.len \in Nat /\ file.size \in Nat
  BY DEF Asked, FileInv
<1>2. CASE c.kind = "node"
  BY <1>1, <1>2 DEF Want
<1>3. CASE c.kind # "node"
  <2>1. Want(c) = IF c.len <= file.size - c.off THEN c.len ELSE file.size - c.off
    BY <1>1, <1>3, MinOfTwo DEF Want
  <2>2. c.off < file.size
    BY <1>3 DEF Asked
  <2>. QED BY <1>1, <1>3, <2>1, <2>2
<1>. QED BY <1>2, <1>3

LEMMA InData ==
    ASSUME NEW remaining \in Int, NEW span \in Nat, NEW j \in Nat, j <= remaining, j <= span
    PROVE  j <= DataLength(remaining, span) /\ DataLength(remaining, span) \in Nat
<1>1. Min({remaining, span}) = IF remaining <= span THEN remaining ELSE span
  BY MinOfTwo
<1>2. Max({0, Min({remaining, span})}) = IF 0 <= Min({remaining, span}) THEN Min({remaining, span}) ELSE 0
  <2>1. Min({remaining, span}) \in Int
    BY <1>1
  <2>. QED BY <2>1, MaxOfTwo
<1>. QED BY <1>1, <1>2 DEF DataLength, Bounded

\* What a call under way knows.
LEMMA UnderWay ==
    ASSUME OpenInv, ReadInv, call # Idle
    PROVE  /\ file # Closed /\ FileInv /\ Asked(call) /\ Progress
           /\ vol.base \in Nat /\ vol.blockSize \in Nat /\ MaxInt \in Nat
           /\ Len(buf) \in Nat /\ logical \in Nat /\ idx \in Nat /\ Len(file.extents) \in Nat
           /\ file.kind # "inline"
<1>1. file # Closed /\ FileInv /\ Asked(call) /\ Progress
  BY DEF ReadInv
<1>2. vol.base \in Nat /\ vol.blockSize \in Nat /\ MaxInt \in Nat
  BY <1>1, Geometry DEF FileInv
<1>3. Len(file.extents) \in Nat /\ idx \in Nat /\ idx - 1 \in 0..Len(file.extents) /\ Len(buf) \in Nat
  BY <1>1, ExtentTypes DEF FileInv, Progress
<1>4. logical \in Nat
  BY <1>1, <1>2, <1>3, SpanFacts DEF FileInv, Progress
<1>. QED BY <1>1, <1>2, <1>3, <1>4 DEF Asked

\* The extent under way, and where in it the next byte lies.
LEMMA InExtent ==
    ASSUME OpenInv, ReadInv, call # Idle, idx <= Len(file.extents), Len(buf) < Want(call)
    PROVE  LET span == Span(file.extents[idx])
           IN  /\ idx \in 1..Len(file.extents) /\ span \in Nat /\ InExt(call) \in Nat
               /\ file.extents[idx].start \in Nat
               /\ Ends(file.extents, idx) = logical + span /\ logical + span <= Spans(file.extents)
               /\ Ends(file.extents, idx - 1) = logical
               /\ Spans(file.extents) \in Nat
<1>1. /\ FileInv /\ Asked(call) /\ Progress /\ vol.blockSize \in Nat
      /\ Len(buf) \in Nat /\ logical \in Nat /\ idx \in Nat /\ Len(file.extents) \in Nat
  BY UnderWay
<1>2. idx \in 1..Len(file.extents) /\ logical = Ends(file.extents, idx - 1)
  BY <1>1 DEF Progress
<1>3. /\ Span(file.extents[idx]) \in Nat /\ file.extents[idx].start \in Nat
      /\ Ends(file.extents, idx) = logical + Span(file.extents[idx])
      /\ Ends(file.extents, idx) <= Spans(file.extents) /\ Spans(file.extents) \in Nat
  <2>1. file.extents \in Lists /\ idx \in 0..Len(file.extents)
    BY <1>1, <1>2 DEF FileInv
  <2>. QED BY <1>1, <1>2, <2>1, SpanFacts
<1>4. InExt(call) \in Nat
  <2>1. call.off + Len(buf) >= logical /\ call.off \in Nat
    BY <1>1, WantBound DEF Progress
  <2>. QED BY <1>1, <2>1 DEF InExt
<1>. QED BY <1>2, <1>3, <1>4

LEMMA SkipExtentStep ==
    ASSUME OpenInv, ReadInv, UNCHANGED vol, SkipExtent
    PROVE  ReadInv' /\ Refines
<1>1. /\ call # Idle /\ idx <= Len(file.extents) /\ Len(buf) < Want(call)
      /\ InExt(call) >= Span(file.extents[idx])
      /\ logical' = logical + Span(file.extents[idx]) /\ idx' = idx + 1
      /\ UNCHANGED <<file, foff, call, buf, ret, content>>
  BY DEF SkipExtent
<1>2. /\ file # Closed /\ FileInv /\ Asked(call) /\ Progress
      /\ Len(buf) \in Nat /\ logical \in Nat /\ idx \in Nat /\ Len(file.extents) \in Nat
  BY <1>1, UnderWay
<1>3. /\ idx \in 1..Len(file.extents) /\ Span(file.extents[idx]) \in Nat
      /\ Ends(file.extents, idx) = logical + Span(file.extents[idx])
  BY <1>1, InExtent
<1>4. Asked(call)' /\ FileInv'
  BY <1>1, <1>2, FileInvStays DEF Asked
<1>5. Progress'
  <2>1. idx' - 1 = idx /\ idx' \in 1..(Len(file.extents) + 1)
    BY <1>1, <1>2, <1>3
  <2>2. Want(call)' = Want(call) /\ Ends(file.extents, idx - 1)' = Ends(file.extents, idx)
    BY <1>1, <2>1 DEF Want, Ends
  <2>3. call.off + Len(buf) >= logical + Span(file.extents[idx])
    <3>1. call.off \in Nat
      BY <1>2, WantBound
    <3>. QED BY <1>1, <1>2, <1>3, <3>1 DEF InExt
  <2>4. (file.told => RightAt(call.off, buf))'
    BY <1>1, <1>2 DEF Progress, RightAt
  <2>. QED BY <1>1, <1>2, <1>3, <2>1, <2>2, <2>3, <2>4 DEF Progress
<1>6. ReadInv'
  BY <1>1, <1>2, <1>4, <1>5 DEF ReadInv
<1>. QED BY <1>1, <1>6 DEF Refines

\* The bytes of a read that succeeds are those the ranges report.
LEMMA RightExtent ==
    ASSUME OpenInv, ReadInv, call # Idle, idx <= Len(file.extents), Len(buf) < Want(call), file.told,
           NEW can \in Nat \ {0}, InExt(call) + can <= Span(file.extents[idx]), Len(buf) + can <= Want(call),
           NEW bytes \in Seq(Int), Len(bytes) = Len(buf) + can,
           \A j \in 1..Len(buf) : bytes[j] = buf[j],
           \A j \in 1..can : bytes[Len(buf) + j] = Wrap(Disk(file.extents[idx], InExt(call))) + j - 1
    PROVE  RightAt(call.off, bytes)
<1>. DEFINE e    == file.extents[idx]
            span == Span(e)
            in   == InExt(call)
            n    == Len(buf)
            off  == call.off
            size == file.size
            bo   == BlockOffset(e.start)
            at   == Wrap(Disk(e, in))
<1>1. /\ FileInv /\ Asked(call) /\ Progress /\ vol.base \in Nat /\ vol.blockSize \in Nat /\ MaxInt \in Nat
      /\ n \in Nat /\ logical \in Nat /\ file.kind # "inline"
  BY UnderWay
<1>2. /\ idx \in 1..Len(file.extents) /\ span \in Nat /\ in \in Nat /\ e.start \in Nat
      /\ logical + span <= Spans(file.extents) /\ Spans(file.extents) \in Nat
      /\ Ends(file.extents, idx - 1) = logical
  BY InExtent
<1>3. /\ Data /\ RightAt(off, buf) /\ off \in Nat /\ size \in Nat /\ in = off + n - logical
  BY <1>1, WantBound DEF FileInv, Progress, InExt
<1>4. bo # -1 /\ span <= MaxInt - bo
  BY <1>2, <1>3 DEF Data
<1>5. bo = vol.base + e.start * vol.blockSize /\ bo \in Nat
  <2>. DEFINE p == e.start
              b == vol.blockSize
  <2>1. p \in Nat /\ b \in Nat
    BY <1>1, <1>2
  <2>2. bo = IF p * b > MaxInt - vol.base THEN -1 ELSE vol.base + p * b
    BY DEF BlockOffset
  <2>. HIDE DEF p, b, bo
  <2>3. p * b \in Nat
    BY <2>1
  <2>4. bo = vol.base + p * b
    BY <1>4, <2>2
  <2>5. bo \in Nat
    BY <1>1, <2>3, <2>4
  <2>. QED BY <2>4, <2>5 DEF p, b
<1>6. at = bo + in
  <2>1. Disk(e, in) = bo + in
    BY <1>5 DEF Disk
  <2>. HIDE DEF bo, in, span
  <2>2. bo + in \in 0..(2 * MaxInt + 1) /\ bo + in <= MaxInt
    <3>1. in + can <= span
      BY DEF in, span
    <3>2. in \in Nat /\ span \in Nat /\ bo \in Nat /\ MaxInt \in Nat /\ span <= MaxInt - bo
      BY <1>1, <1>2, <1>4, <1>5
    <3>3. bo + in <= MaxInt
      BY <3>1, <3>2
    <3>. QED BY <3>2, <3>3
  <2>. QED BY <2>1, <2>2, WrapsBelow
<1>7. off + n + can <= size /\ off + n + can <= logical + span
  <2>1. off + n + can <= logical + span
    <3>1. in + can <= span
      OBVIOUS
    <3>. HIDE DEF in, off, n, span
    <3>. QED BY <1>1, <1>2, <1>3, <3>1
  <2>2. CASE call.kind = "node"
    <3>1. size = Spans(file.extents)
      BY <1>1, <2>2 DEF Asked, FileInv
    <3>. HIDE DEF in, off, n, span, size
    <3>. QED BY <1>1, <1>2, <1>3, <2>1, <3>1
  <2>3. CASE call.kind # "node"
    <3>1. off + Want(call) <= size /\ Want(call) \in Nat /\ n + can <= Want(call)
      BY <1>1, <2>3, WantBound
    <3>. HIDE DEF in, off, n, span, size
    <3>. QED BY <1>1, <1>3, <2>1, <3>1
  <2>. QED BY <2>2, <2>3
<1>8. Len(content) \in Nat /\ off + n + can <= Len(content)
  <2>1. Len(content) = Reach(size, Spans(file.extents))
    BY <1>3 DEF Data
  <2>. DEFINE spans == Spans(file.extents)
  <2>. HIDE DEF in, off, n, span, size
  <2>2. spans \in Nat /\ size \in Nat /\ off \in Nat /\ n \in Nat /\ off + n + can <= spans
        /\ off + n + can <= size
    BY <1>1, <1>2, <1>3, <1>7
  <2>3. Reach(size, spans) = IF size <= spans THEN size ELSE spans
    BY DEF Reach
  <2>. HIDE DEF spans
  <2>4. Reach(size, spans) \in Nat /\ off + n + can <= Reach(size, spans)
    BY ONLY <2>2, <2>3
  <2>. QED BY <2>1, <2>4 DEF spans
<1>9. ASSUME NEW j \in 1..can PROVE content[off + (n + j)] = at + j - 1
  <2>. DEFINE k == in + j
              dl == DataLength(size - logical, span)
  <2>1. k \in Nat /\ k >= 1 /\ k <= size - logical /\ k <= span /\ logical + k = off + (n + j)
    <3>1. j \in Nat /\ j >= 1 /\ j <= can
      OBVIOUS
    <3>. HIDE DEF in, off, n, span, size
    <3>2. /\ n \in Nat /\ logical \in Nat /\ span \in Nat /\ in \in Nat /\ off \in Nat /\ size \in Nat
          /\ in = off + n - logical
      BY ONLY <1>1, <1>2, <1>3
    <3>. QED BY ONLY <1>7, <3>1, <3>2, can \in Nat
  <2>2. k <= dl /\ dl \in Nat
    <3>1. size - logical \in Int
      BY <1>1, <1>3
    <3>. HIDE DEF k, span, size
    <3>. QED BY <1>2, <2>1, <3>1, InData
  <2>3. k \in 1..dl
    BY <2>1, <2>2
  <2>4. content[logical + k] = bo + k - 1
    <3>1. \A i \in 1..Len(file.extents) : \A x \in 1..DataLength(file.size - Ends(file.extents, i-1), Span(file.extents[i])) :
              content[Ends(file.extents, i-1) + x] = BlockOffset(file.extents[i].start) + x - 1
      BY <1>3 DEF Data
    <3>2. \A x \in 1..dl : content[logical + x] = bo + x - 1
      BY <1>2, <3>1
    <3>. HIDE DEF k, dl, bo
    <3>. QED BY <2>3, <3>2
  <2>5. bo + k - 1 = at + j - 1
    <3>. HIDE DEF at, bo, in
    <3>. QED BY <1>2, <1>5, <1>6
  <2>. HIDE DEF k, bo, at
  <2>. QED BY <2>1, <2>4, <2>5
<1>10. ASSUME NEW x \in 1..Len(bytes) PROVE bytes[x] = content[off + x]
  <2>1. CASE x <= n
    <3>1. x \in 1..n
      BY <1>1, <2>1
    <3>2. Len(buf) > 0
      BY <1>1, <3>1
    <3>. QED BY <1>3, <3>1, <3>2 DEF RightAt
  <2>2. CASE x > n
    <3>. DEFINE j == x - n
    <3>1. j \in 1..can /\ x = n + j
      <4>1. Len(bytes) = n + can /\ can \in Nat
        OBVIOUS
      <4>. HIDE DEF n
      <4>. QED BY <1>1, <2>2, <4>1
    <3>. HIDE DEF j
    <3>2. bytes[n + j] = at + j - 1
      BY <3>1
    <3>. QED BY <1>9, <3>1, <3>2
  <2>. QED BY <1>1, <2>1, <2>2
<1>11. off + Len(bytes) <= Len(content)
  <2>1. Len(bytes) = n + can
    OBVIOUS
  <2>. HIDE DEF n, off
  <2>. QED BY <1>1, <1>3, <1>8, <2>1
<1>. QED BY <1>10, <1>11 DEF RightAt

LEMMA ReadExtentStep ==
    ASSUME OpenInv, ReadInv, UNCHANGED vol, ReadExtent
    PROVE  ReadInv' /\ Refines
<1>. DEFINE e    == file.extents[idx]
            span == Span(e)
            in   == InExt(call)
            n    == Len(buf)
            want == Want(call)
            at   == Wrap(Disk(e, in))
            can  == Min({span - in, want - n})
            more == [i \in 1..can |-> at + i - 1]
            err  == IF Within(at, can) THEN "failed" ELSE ReadError(at)
<1>1. /\ call # Idle /\ idx <= Len(file.extents) /\ n < want /\ in < span /\ UNCHANGED <<file, content>>
      /\ \/ /\ buf' = buf \o more /\ logical' = logical + span /\ idx' = idx + 1
            /\ UNCHANGED <<foff, call, ret>>
         \/ Return(call, buf, err)
  BY DEF ReadExtent
<1>2. /\ file # Closed /\ FileInv /\ Asked(call) /\ Progress
      /\ n \in Nat /\ logical \in Nat /\ idx \in Nat /\ Len(file.extents) \in Nat
      /\ vol.base \in Nat /\ vol.blockSize \in Nat /\ MaxInt \in Nat
  BY <1>1, UnderWay
<1>3. /\ idx \in 1..Len(file.extents) /\ span \in Nat /\ in \in Nat /\ e.start \in Nat
      /\ Ends(file.extents, idx) = logical + span
  BY <1>1, InExtent
<1>4. /\ want \in Nat /\ want <= call.len /\ call.off \in Nat /\ call.len \in Nat /\ file.size \in Nat
      /\ call.kind # "node" => call.off + want <= file.size
  BY <1>2, WantBound
<1>5. CASE Return(call, buf, err)
  <2>1. err \in {"failed", "short"}
    BY DEF ReadError
  <2>. HIDE DEF err
  <2>2. buf \in Seq(Int) /\ n <= want /\ (file.told => RightAt(call.off, buf))
    BY <1>2 DEF Progress
  <2>3. call.kind = "node" \/ call.off + n <= file.size
    BY <1>2, <1>4, <2>2
  <2>4. /\ call.kind \in {"Read", "ReadAt", "ReadAll", "node"}
        /\ call.kind = "Read" => call.off = foff
    BY <1>2 DEF Asked
  <2>5. n <= call.len
    BY <1>2, <1>4, <2>2
  <2>. HIDE DEF want
  <2>. QED BY <1>1, <1>2, <1>4, <1>5, <2>1, <2>2, <2>3, <2>4, <2>5, Answered DEF Refines
<1>6. CASE /\ buf' = buf \o more /\ logical' = logical + span /\ idx' = idx + 1
           /\ UNCHANGED <<foff, call, ret>>
  <2>1. /\ can \in Nat \ {0} /\ in + can <= span /\ n + can <= want
        /\ n + can = want \/ in + can = span
    <3>1. can = IF span - in <= want - n THEN span - in ELSE want - n
      <4>. DEFINE a == span - in
                  b == want - n
      <4>1. a \in Int /\ b \in Int
        <5>. HIDE DEF span, in, want, n
        <5>. QED BY <1>2, <1>3, <1>4
      <4>. HIDE DEF a, b
      <4>2. Min({a, b}) = IF a <= b THEN a ELSE b
        BY <4>1, MinOfTwo
      <4>. QED BY <4>2 DEF a, b
    <3>. HIDE DEF can, span, in, n, want
    <3>. QED BY <1>1, <1>2, <1>3, <1>4, <3>1
  <2>2. at \in Int
    <3>1. Disk(e, in) \in Int
      <4>. DEFINE p == e.start
                  b == vol.blockSize
      <4>1. p \in Nat /\ b \in Nat
        BY <1>2, <1>3
      <4>2. Disk(e, in) = vol.base + p * b + in
        BY DEF Disk
      <4>. HIDE DEF p, b, in
      <4>3. p * b \in Nat
        BY <4>1
      <4>. QED BY <1>2, <1>3, <4>2, <4>3
    <3>. DEFINE d == Disk(e, in)
    <3>. HIDE DEF d
    <3>2. MaxInt + 1 \in Nat \ {0} /\ 2 * (MaxInt + 1) \in Nat \ {0} /\ d + MaxInt + 1 \in Int
      BY <1>2, <3>1 DEF d
    <3>3. (d + MaxInt + 1) % (2 * (MaxInt + 1)) \in Int
      BY <3>2
    <3>4. Wrap(d) \in Int
      BY <3>2, <3>3 DEF Wrap
    <3>. QED BY <3>4 DEF d
  <2>. HIDE DEF at, can
  <2>3. more \in Seq(Int) /\ Len(more) = can /\ \A j \in 1..can : more[j] = at + j - 1
    BY <2>1, <2>2
  <2>. HIDE DEF more
  <2>4. buf \in Seq(Int)
    BY <1>2 DEF Progress
  <2>. DEFINE bytes == buf \o more
  <2>5. /\ bytes \in Seq(Int) /\ Len(bytes) = n + can
        /\ \A j \in 1..n : bytes[j] = buf[j]
        /\ \A j \in 1..can : bytes[n + j] = at + j - 1
    <3>1. /\ bytes \in Seq(Int) /\ Len(bytes) = Len(buf) + Len(more)
          /\ \A x \in 1..Len(buf) : bytes[x] = buf[x]
          /\ \A x \in 1..Len(more) : bytes[Len(buf) + x] = more[x]
      BY ONLY <2>3, <2>4, ConcatAt
    <3>. HIDE DEF bytes
    <3>. QED BY <2>3, <3>1
  <2>. HIDE DEF bytes
  <2>6. file.told => RightAt(call.off, bytes)
    <3>. HIDE DEF n, in, span, want
    <3>1. n = Len(buf) /\ in = InExt(call) /\ span = Span(e) /\ want = Want(call)
          /\ at = Wrap(Disk(file.extents[idx], InExt(call)))
      BY DEF n, in, span, want, at
    <3>. QED BY <1>1, <2>1, <2>5, <3>1, RightExtent
  <2>7. FileInv' /\ Asked(call)'
    BY <1>1, <1>2, <1>6, FileInvStays DEF Asked
  <2>8. Progress'
    <3>1. idx' - 1 = idx /\ idx' \in 1..(Len(file.extents) + 1)
      <4>. DEFINE last == Len(file.extents)
      <4>1. idx' = idx + 1 /\ last \in Nat /\ idx \in 1..last
        BY ONLY <1>2, <1>3, <1>6
      <4>. HIDE DEF last
      <4>2. idx' - 1 = idx /\ idx' \in 1..(last + 1)
        BY ONLY <4>1
      <4>. QED BY ONLY <4>2 DEF last
    <3>2. Want(call)' = want /\ Ends(file.extents, idx - 1)' = Ends(file.extents, idx)
      BY <1>1, <1>6, <3>1 DEF Want, Ends
    <3>3. buf' = bytes
      BY <1>6 DEF bytes
    <3>4. Len(bytes) <= want /\ (Len(bytes) = want \/ call.off + Len(bytes) >= logical + span)
      <4>1. in = call.off + n - logical
        BY DEF InExt
      <4>. DEFINE l   == Len(bytes)
                  off == call.off
      <4>2. /\ n \in Nat /\ logical \in Nat /\ span \in Nat /\ in \in Nat /\ want \in Nat /\ off \in Nat
            /\ can \in Nat /\ l = n + can /\ n + can <= want /\ in = off + n - logical
            /\ n + can = want \/ in + can = span
        <5>. HIDE DEF can, n, in, span, want, bytes
        <5>. QED BY <1>2, <1>3, <1>4, <2>1, <2>5, <4>1
      <4>. HIDE DEF can, in, n, span, want, l, off
      <4>3. l <= want /\ (l = want \/ off + l >= logical + span)
        BY ONLY <4>2
      <4>. QED BY <4>3 DEF l, off
    <3>5. (file.told => RightAt(call.off, buf))'
      BY <1>1, <1>6, <2>6, <3>3 DEF RightAt
    <3>. HIDE DEF span, want
    <3>. QED BY <1>1, <1>3, <1>6, <2>5, <3>1, <3>2, <3>3, <3>4, <3>5 DEF Progress
  <2>9. ReadInv'
    BY <1>1, <1>2, <1>6, <2>7, <2>8 DEF ReadInv
  <2>. QED BY <1>1, <1>6, <2>9 DEF Refines
<1>. QED BY <1>1, <1>5, <1>6

LEMMA EndReadStep ==
    ASSUME OpenInv, ReadInv, UNCHANGED vol, EndRead
    PROVE  ReadInv' /\ Refines
<1>. DEFINE c    == call
            n    == Len(buf)
            want == Want(call)
            err  == CASE c.kind = "node" -> IF n < want THEN "short" ELSE "nil"
                      [] OTHER -> IF n < want \/ AtEnd(c) THEN "EOF" ELSE "nil"
<1>1. /\ c # Idle /\ (idx > Len(file.extents) \/ n >= want) /\ UNCHANGED <<file, content>>
      /\ Return(c, buf, err)
  BY DEF EndRead
<1>2. /\ file # Closed /\ FileInv /\ Asked(c) /\ Progress
      /\ n \in Nat /\ logical \in Nat /\ idx \in Nat /\ Len(file.extents) \in Nat
      /\ vol.base \in Nat /\ vol.blockSize \in Nat /\ MaxInt \in Nat /\ file.kind # "inline"
  BY <1>1, UnderWay
<1>3. /\ want \in Nat /\ want <= c.len /\ c.off \in Nat /\ c.len \in Nat /\ file.size \in Nat
      /\ c.kind = "node" => want = c.len
      /\ c.kind # "node" => c.off + want <= file.size /\ (want = c.len \/ c.off + want = file.size)
  BY <1>2, WantBound
<1>4. /\ buf \in Seq(Int) /\ n <= want /\ (file.told => RightAt(c.off, buf))
      /\ n = want \/ c.off + n >= logical
      /\ idx \in 1..(Len(file.extents) + 1) /\ logical = Ends(file.extents, idx - 1)
  BY <1>2 DEF Progress
<1>5. n < want => logical = Spans(file.extents)
  <2>1. n < want => idx = Len(file.extents) + 1
    <3>. HIDE DEF n, want
    <3>1. (idx > Len(file.extents) \/ n >= want) /\ n \in Nat /\ want \in Nat /\ idx \in Nat
          /\ Len(file.extents) \in Nat /\ idx \in 1..(Len(file.extents) + 1)
      BY ONLY <1>1, <1>2, <1>3, <1>4
    <3>. QED BY ONLY <3>1
  <2>2. Ends(file.extents, Len(file.extents)) = Spans(file.extents)
    BY <1>2, SpanFacts DEF FileInv
  <2>3. (Len(file.extents) + 1) - 1 = Len(file.extents)
    BY <1>2
  <2>. QED BY <1>4, <2>1, <2>2, <2>3
<1>6. file.told => /\ Len(content) \in Nat /\ Len(content) <= file.size
                   /\ Len(content) <= Spans(file.extents) /\ Spans(file.extents) \in Nat
  BY <1>2, ContentSize
<1>7. file.told /\ (n < want \/ c.off + n >= file.size) => c.off + n >= Len(content)
  <2>. HIDE DEF n, want, c
  <2>. QED BY <1>2, <1>3, <1>4, <1>5, <1>6
<1>8. /\ err \in {"nil", "EOF", "short", "failed", "invalid", "limit"}
      /\ err = "EOF" => c.kind # "node" /\ (n < want \/ c.off + n >= file.size)
      /\ err = "nil" /\ c.kind = "node" => n = want
      /\ err = "nil" /\ c.kind # "node" => n = want /\ ~(c.off + n >= file.size)
  <2>1. AtEnd(c) <=> c.off + n >= file.size
    BY DEF AtEnd
  <2>2. n < want \/ n = want
    <3>. HIDE DEF n, want
    <3>. QED BY <1>2, <1>3, <1>4
  <2>3. CASE c.kind = "node"
    BY <2>2, <2>3
  <2>4. CASE c.kind # "node"
    <3>1. err = IF n < want \/ AtEnd(c) THEN "EOF" ELSE "nil"
      BY <2>4
    <3>. HIDE DEF err, n, want, c
    <3>. QED BY <2>1, <2>2, <2>4, <3>1
  <2>. QED BY <2>3, <2>4
<1>9. /\ c.kind \in {"Read", "ReadAt", "ReadAll", "node"}
      /\ c.kind = "Read" => c.off = foff
      /\ c.kind = "ReadAll" => c.off = 0 /\ c.len = file.size
  BY <1>2 DEF Asked
<1>. HIDE DEF err, want, n, c
<1>10. err = "nil" => n = c.len
  BY <1>2, <1>3, <1>8
<1>11. file.told /\ err = "EOF" => c.off + n >= Len(content)
  BY <1>7, <1>8
<1>12. file.told /\ c.kind = "ReadAll" /\ err \in {"nil", "EOF"} => n = Len(content)
  <2>. SUFFICES ASSUME file.told, c.kind = "ReadAll", err \in {"nil", "EOF"} PROVE n = Len(content)
    OBVIOUS
  <2>1. c.off = 0 /\ c.len = file.size
    BY <1>9
  <2>2. err = "EOF"
    BY <1>2, <1>3, <1>8, <1>10, <2>1
  <2>3. n >= Len(content)
    BY <1>2, <1>11, <2>1, <2>2
  <2>4. n > 0 => n <= Len(content)
    BY <1>2, <1>4, <2>1 DEF RightAt, n
  <2>. QED BY <1>2, <1>6, <2>3, <2>4
<1>13. c.kind = "node" \/ c.off + n <= file.size
  BY <1>2, <1>3, <1>4
<1>14. n <= c.len /\ n = Len(buf)
  BY <1>2, <1>3, <1>4 DEF n
<1>. QED BY <1>1, <1>2, <1>3, <1>4, <1>8, <1>9, <1>10, <1>11, <1>12, <1>13, <1>14, Answered DEF Refines

---------------------------------------------------------------------------
(* The blocks of a list of extents. *)

LEMMA BlocksAt ==
    ASSUME NEW exts \in Lists
    PROVE  /\ BlocksOf(exts) \in Seq(Int) /\ Len(BlocksOf(exts)) = Covered(exts)
           /\ \A i \in 1..Len(exts) : \A j \in 1..exts[i].count :
                  BlocksOf(exts)[UpTo(exts)[i-1] + j] = exts[i].start + j - 1
<1>. DEFINE n == Len(exts)
            u == UpTo(exts)
            pieces == [i \in 1..n |-> [j \in 1..exts[i].count |-> exts[i].start + j - 1]]
<1>1. /\ n \in Nat /\ DOMAIN exts = 1..n /\ u \in [0..n -> Nat] /\ u[0] = 0 /\ Covered(exts) = u[n]
      /\ \A i \in 1..n : u[i] = u[i-1] + exts[i].count /\ exts[i].count \in Nat /\ exts[i].start \in Nat
  BY UpToUnfolds, ExtentTypes DEF Covered
<1>. HIDE DEF n, u
<1>2. ASSUME NEW i \in 1..n
      PROVE  /\ pieces[i] \in Seq(Int) /\ Len(pieces[i]) = exts[i].count
             /\ \A j \in 1..exts[i].count : pieces[i][j] = exts[i].start + j - 1
  <2>. DEFINE c == exts[i].count
              s == exts[i].start
  <2>1. c \in Nat /\ s \in Nat
    BY <1>1
  <2>2. pieces[i] = [j \in 1..c |-> s + j - 1]
    OBVIOUS
  <2>. HIDE DEF c, s, pieces
  <2>3. pieces[i] \in Seq(Int) /\ Len(pieces[i]) = c /\ \A j \in 1..c : pieces[i][j] = s + j - 1
    BY <2>1, <2>2
  <2>. QED BY <2>3 DEF c, s
<1>3. pieces \in [1..n -> Seq(Int)]
  BY <1>2
<1>4. BlocksOf(exts) = FlattenSeq(pieces)
  BY <1>1 DEF BlocksOf
<1>. HIDE DEF pieces
<1>5. \A m \in 1..n : u[m] = u[m-1] + Len(pieces[m])
  BY <1>1, <1>2
<1>6. /\ FlattenSeq(pieces) \in Seq(Int) /\ Len(FlattenSeq(pieces)) = u[n]
      /\ \A m \in 1..n : \A j \in 1..Len(pieces[m]) : FlattenSeq(pieces)[u[m-1] + j] = pieces[m][j]
  BY ONLY <1>1, <1>3, <1>5, FlattenedAt
<1>7. \A i \in 1..n : \A j \in 1..exts[i].count : FlattenSeq(pieces)[u[i-1] + j] = exts[i].start + j - 1
  BY <1>2, <1>6
<1>. QED BY <1>1, <1>4, <1>6, <1>7 DEF n, u

\* Every block of a list lies in one of its extents.
LEMMA InSomeExtent ==
    ASSUME NEW exts \in Lists, NEW m \in 1..Covered(exts)
    PROVE  \E i \in 1..Len(exts) : \E j \in 1..exts[i].count : m = UpTo(exts)[i-1] + j
<1>. DEFINE n == Len(exts)
            u == UpTo(exts)
            T == {i \in 0..n : u[i] >= m}
<1>1. /\ n \in Nat /\ u \in [0..n -> Nat] /\ u[0] = 0 /\ Covered(exts) = u[n]
      /\ \A i \in 1..n : u[i] = u[i-1] + exts[i].count /\ exts[i].count \in Nat
  BY UpToUnfolds, ExtentTypes DEF Covered
<1>2. m \in Nat /\ m >= 1 /\ m <= u[n]
  <2>1. u[n] \in Nat /\ m \in 1..u[n]
    BY <1>1
  <2>. HIDE DEF u, n
  <2>. QED BY <2>1
<1>. HIDE DEF n, u
<1>3. PICK i \in T : \A y \in T : i <= y
  <2>1. T \in SUBSET Nat
    BY <1>1
  <2>2. n \in T
    BY <1>1, <1>2
  <2>. QED BY <2>1, <2>2, Least
<1>4. i \in 1..n /\ i - 1 \in 0..n /\ i \in 0..n /\ u[i] >= m
  <2>1. u[i] >= m /\ i \in 0..n
    BY <1>3
  <2>2. i # 0
    BY <1>1, <1>2, <2>1
  <2>. QED BY <1>1, <2>1, <2>2
<1>5. i - 1 \notin T
  BY <1>1, <1>3, <1>4
<1>6. u[i-1] < m /\ u[i-1] \in Nat /\ u[i] = u[i-1] + exts[i].count /\ exts[i].count \in Nat
  <2>1. u[i-1] \in Nat
    BY <1>1, <1>4
  <2>. QED BY <1>1, <1>2, <1>4, <1>5, <2>1
<1>. DEFINE j == m - u[i-1]
<1>7. j \in 1..exts[i].count /\ m = u[i-1] + j
  BY <1>2, <1>4, <1>6
<1>. QED BY <1>4, <1>7 DEF n, u

\* A list that begins like another, trimmed, stands for the first blocks of both.
LEMMA TrimmedBlocks ==
    ASSUME NEW s \in Lists, NEW laid \in Lists, Len(s) <= Len(laid), \A i \in 1..Len(s) : s[i] = laid[i],
           NEW total \in Nat \ {0}, total <= Covered(s)
    PROVE  /\ BlocksOf(Trim(s, total)) = SubSeq(BlocksOf(laid), 1, total)
           /\ \A i \in 1..Len(Trim(s, total)) :
                 /\ i \in 1..Len(laid) /\ Trim(s, total)[i].start = laid[i].start
                 /\ Trim(s, total)[i].count <= laid[i].count
<1>. DEFINE t == Trim(s, total)
            u == UpTo(laid)
            v == UpTo(t)
            w == UpTo(s)
<1>1. PICK k \in 1..Len(s) : TrimmedAt(s, total, k)
  BY TrimShape
<1>2. /\ t \in Lists /\ Len(t) = k /\ w[k-1] < total /\ total <= w[k]
      /\ \A i \in 1..(k-1) : t[i] = s[i]
      /\ t[k].start = s[k].start /\ t[k].count = total - w[k-1]
  BY <1>1 DEF TrimmedAt
<1>. HIDE DEF t
<1>3. k \in Nat \ {0} /\ k <= Len(s) /\ Len(s) \in Nat /\ Len(laid) \in Nat
  BY <1>1, ExtentTypes
<1>4. \A i \in 1..k : i \in 1..Len(s) /\ i \in 1..Len(laid) /\ i \in 1..Len(t) /\ s[i] = laid[i]
  <2>1. \A i \in 1..k : i \in 1..Len(s) /\ i \in 1..Len(laid) /\ i \in 1..Len(t)
    BY <1>2, <1>3
  <2>. QED BY <2>1
<1>5. \A i \in 0..k : w[i] = u[i]
  <2>1. \A i \in 1..k : s[i].count = laid[i].count
    BY <1>4
  <2>2. k <= Len(laid) /\ k \in Nat
    BY <1>3
  <2>. QED BY <1>3, <2>1, <2>2, UpToOfPrefix
<1>6. \A i \in 0..(k-1) : v[i] = u[i]
  <2>1. \A i \in 1..(k-1) : t[i].count = laid[i].count
    <3>1. \A i \in 1..(k-1) : i \in 1..k
      BY <1>3
    <3>. QED BY <1>2, <1>4, <3>1
  <2>2. k - 1 \in Nat /\ k - 1 <= Len(t) /\ k - 1 <= Len(laid)
    BY <1>2, <1>3
  <2>. QED BY <1>2, <2>1, <2>2, UpToOfPrefix
<1>7. ASSUME NEW i \in 1..k
      PROVE  /\ t[i].start = laid[i].start /\ t[i].count <= laid[i].count
             /\ t[i].count \in Nat /\ laid[i].count \in Nat
  <2>1. t[i].count \in Nat /\ laid[i].count \in Nat
    BY <1>2, <1>4, ExtentTypes
  <2>2. CASE i = k
    <3>1. w[k] = w[k-1] + s[k].count /\ s[k] = laid[k]
      BY <1>1, <1>4, <2>2, UpToUnfolds
    <3>2. w[k-1] \in Nat /\ s[k].count \in Nat
      <4>1. k - 1 \in 0..Len(s)
        BY <1>3
      <4>. QED BY <1>1, <4>1, UpToUnfolds, ExtentTypes
    <3>. HIDE DEF w
    <3>3. total - w[k-1] <= s[k].count
      BY <1>2, <3>1, <3>2
    <3>. QED BY <1>2, <2>1, <2>2, <3>1, <3>3
  <2>3. CASE i # k
    <3>1. i \in 1..(k-1)
      BY <1>3, <2>3
    <3>. QED BY <1>2, <1>4, <2>1, <3>1
  <2>. QED BY <2>1, <2>2, <2>3
<1>8. Covered(t) = total
  <2>1. k \in 1..Len(t) /\ k - 1 \in 0..(k-1) /\ k - 1 \in 0..k /\ k - 1 \in 0..Len(s)
    BY <1>2, <1>3
  <2>2. v[k] = v[k-1] + t[k].count /\ v[k-1] = w[k-1]
    BY <1>2, <1>5, <1>6, <2>1, UpToUnfolds
  <2>3. w[k-1] \in Nat
    BY <2>1, UpToUnfolds
  <2>. QED BY <1>2, <2>2, <2>3 DEF Covered
<1>9. total <= Covered(laid)
  <2>1. k \in 0..Len(laid) /\ k \in 0..k
    BY <1>3
  <2>2. w[k] = u[k] /\ u[k] \in Nat /\ u[k] <= Covered(laid) /\ Covered(laid) \in Nat
    BY <1>5, <2>1, CoveredIsNat
  <2>. HIDE DEF u, w
  <2>. QED BY <1>2, <2>2
<1>. DEFINE a == BlocksOf(t)
            b == BlocksOf(laid)
<1>10. a \in Seq(Int) /\ Len(a) = total /\ b \in Seq(Int) /\ Len(b) = Covered(laid)
  BY <1>2, <1>8, BlocksAt
<1>11. ASSUME NEW m \in 1..total PROVE a[m] = b[m]
  <2>1. PICK i \in 1..Len(t) : \E j \in 1..t[i].count : m = v[i-1] + j
    <3>1. m \in 1..Covered(t)
      BY <1>8
    <3>. QED BY <1>2, <3>1, InSomeExtent
  <2>2. PICK j \in 1..t[i].count : m = v[i-1] + j
    BY <2>1
  <2>3. i \in 1..k /\ i - 1 \in 0..(k-1)
    BY <1>2, <1>3, <2>1
  <2>4. j \in 1..laid[i].count /\ v[i-1] = u[i-1] /\ t[i].start = laid[i].start
    BY <1>6, <1>7, <2>3
  <2>5. a[m] = t[i].start + j - 1
    BY <1>2, <2>2, BlocksAt
  <2>6. b[u[i-1] + j] = laid[i].start + j - 1
    BY <1>4, <2>3, <2>4, BlocksAt
  <2>. QED BY <2>2, <2>4, <2>5, <2>6
<1>12. a = SubSeq(b, 1, total)
  <2>. HIDE DEF a, b
  <2>1. \A m \in 1..Len(a) : a[m] = b[0 + m]
    <3>1. \A m \in 1..total : 0 + m = m
      OBVIOUS
    <3>. QED BY <1>10, <1>11, <3>1
  <2>2. 0 + Len(a) <= Len(b) /\ 0 \in Nat
    BY <1>9, <1>10
  <2>3. a = SubSeq(b, 0 + 1, 0 + Len(a))
    BY ONLY <1>10, <2>1, <2>2, SliceOf
  <2>4. 0 + 1 = 1 /\ 0 + Len(a) = total
    BY <1>10
  <2>. QED BY <2>3, <2>4
<1>. QED BY <1>2, <1>4, <1>7, <1>12 DEF t

---------------------------------------------------------------------------
(* A sound fork's list. *)

\* The first i of some extents.
LEMMA FirstOf ==
    ASSUME NEW exts \in Lists, NEW i \in 0..Len(exts)
    PROVE  LET s == SubSeq(exts, 1, i)
           IN  /\ s \in Lists /\ Len(s) = i /\ \A x \in 1..i : s[x] = exts[x]
               /\ \A x \in 0..i : UpTo(s)[x] = UpTo(exts)[x]
               /\ Covered(s) = UpTo(exts)[i]
<1>. DEFINE s == SubSeq(exts, 1, i)
<1>1. exts \in Seq(Extent) /\ Len(exts) \in Nat /\ i \in Nat /\ i <= Len(exts)
  BY ExtentTypes DEF Lists
<1>2. s \in Seq(Extent) /\ Len(s) = i /\ \A x \in 1..i : s[x] = exts[x]
  <2>1. s \in Seq(Extent) /\ Len(s) = i
    BY <1>1
  <2>2. ASSUME NEW x \in 1..i PROVE s[x] = exts[x]
    <3>1. s[x] = exts[1 + x - 1] /\ 1 + x - 1 = x
      BY <1>1
    <3>. QED BY <3>1
  <2>. QED BY <2>1, <2>2
<1>. HIDE DEF s
<1>3. s \in Lists
  BY <1>2 DEF Lists
<1>4. \A x \in 0..i : UpTo(s)[x] = UpTo(exts)[x]
  <2>1. \A x \in 1..i : s[x].count = exts[x].count
    BY <1>2
  <2>2. i <= Len(s)
    BY <1>1, <1>2
  <2>. QED BY <1>1, <1>3, <2>1, <2>2, UpToOfPrefix
<1>5. Covered(s) = UpTo(exts)[i]
  BY <1>1, <1>2, <1>4 DEF Covered
<1>. QED BY <1>2, <1>3, <1>4, <1>5 DEF s

LEMMA ExtentsConcat ==
    ASSUME NEW s \in Seq(Extent), NEW t \in Seq(Extent)
    PROVE  /\ s \o t \in Seq(Extent) /\ Len(s \o t) = Len(s) + Len(t) /\ Len(s) \in Nat /\ Len(t) \in Nat
           /\ \A x \in 1..Len(s) : (s \o t)[x] = s[x]
           /\ \A x \in 1..Len(t) : (s \o t)[Len(s) + x] = t[x]
OBVIOUS

\* They are followed by the next.
LEMMA FirstAndNext ==
    ASSUME NEW exts \in Lists, NEW i \in 0..Len(exts), NEW j \in (i + 1)..Len(exts)
    PROVE  /\ SubSeq(exts, 1, i) \o SubSeq(exts, i + 1, j) = SubSeq(exts, 1, j)
           /\ SubSeq(exts, i + 1, j) # <<>>
<1>1. exts \in Seq(Extent) /\ Len(exts) \in Nat /\ i \in Nat /\ j \in Nat /\ i < j /\ j <= Len(exts)
  BY ExtentTypes DEF Lists
<1>. DEFINE s == SubSeq(exts, 1, i)
            t == SubSeq(exts, i + 1, j)
            w == SubSeq(exts, 1, j)
<1>2. s \in Seq(Extent) /\ Len(s) = i /\ \A x \in 1..i : s[x] = exts[x]
  BY FirstOf DEF Lists
<1>3. j \in 0..Len(exts)
  BY <1>1
<1>4. w \in Seq(Extent) /\ Len(w) = j /\ \A x \in 1..j : w[x] = exts[x]
  BY <1>3, FirstOf DEF Lists
<1>5. t \in Seq(Extent) /\ Len(t) = j - i /\ \A x \in 1..(j - i) : t[x] = exts[i + x]
  <2>1. t \in Seq(Extent) /\ Len(t) = j - i
    BY <1>1
  <2>2. ASSUME NEW x \in 1..(j - i) PROVE t[x] = exts[i + x]
    <3>1. t[x] = exts[(i + 1) + x - 1] /\ (i + 1) + x - 1 = i + x
      BY <1>1
    <3>. QED BY <3>1
  <2>. QED BY <2>1, <2>2
<1>. HIDE DEF s, t, w
<1>6. s \o t \in Seq(Extent) /\ Len(s \o t) = j
  <2>1. s \o t \in Seq(Extent) /\ Len(s \o t) = Len(s) + Len(t)
    BY ONLY <1>2, <1>5, ExtentsConcat
  <2>. QED BY ONLY <1>1, <1>2, <1>5, <2>1
<1>7. ASSUME NEW x \in 1..j PROVE (s \o t)[x] = w[x]
  <2>1. CASE x <= i
    <3>1. x \in 1..i /\ (s \o t)[x] = s[x]
      BY <1>1, <1>2, <1>5, <2>1, ExtentsConcat
    <3>. QED BY <1>2, <1>4, <3>1
  <2>2. CASE x > i
    <3>1. x - i \in 1..(j - i) /\ i + (x - i) = x
      BY <1>1, <2>2
    <3>2. (s \o t)[Len(s) + (x - i)] = t[x - i] /\ Len(s) + (x - i) = x
      BY <1>1, <1>2, <1>5, <3>1, ExtentsConcat
    <3>. QED BY <1>4, <1>5, <3>1, <3>2
  <2>3. x <= i \/ x > i
    <3>1. x \in Nat /\ i \in Nat
      BY <1>1
    <3>. QED BY ONLY <3>1
  <2>. QED BY ONLY <2>1, <2>2, <2>3
<1>8. s \o t = w
  <2>. DEFINE st == s \o t
  <2>1. st \in Seq(Extent) /\ Len(st) = j /\ \A x \in 1..j : st[x] = w[x]
    BY <1>6, <1>7
  <2>. HIDE DEF st
  <2>2. st = [x \in 1..j |-> st[x]]
    BY <2>1
  <2>3. w = [x \in 1..j |-> w[x]]
    BY <1>4
  <2>. QED BY <2>1, <2>2, <2>3 DEF st
<1>9. t # <<>>
  BY <1>1, <1>5
<1>. QED BY <1>8, <1>9 DEF s, t, w

\* A sound fork's extents: their blocks tell them apart, and no sum of them wraps.
LEMMA LaidFacts ==
    ASSUME Given, fork.sound
    PROVE  /\ fork.laid \in Filled /\ fork.laid \in Lists
           /\ Covered(fork.laid) < Width /\ fork.total <= Covered(fork.laid)
           /\ \A i \in 0..Len(fork.laid) : \A j \in 0..Len(fork.laid) :
                  i < j => UpTo(fork.laid)[i] < UpTo(fork.laid)[j]
           /\ \A i \in 0..Len(fork.laid) : Count(SubSeq(fork.laid, 1, i)) = UpTo(fork.laid)[i]
<1>. DEFINE laid == fork.laid
            n == Len(laid)
            u == UpTo(laid)
<1>1. laid \in Filled /\ laid \in Lists /\ Covered(laid) \in fork.total .. Width - 1
  <2>1. laid \in Seq(Extent) /\ (\A i \in DOMAIN laid : laid[i].count # 0) /\ Covered(laid) \in fork.total .. Width - 1
    BY DEF Given, IsLaid
  <2>. QED BY <2>1, ExtentTypes DEF Filled, Lists
<1>2. Covered(laid) \in Nat /\ Covered(laid) < Width /\ fork.total <= Covered(laid)
  BY <1>1, CoveredIsNat, GivenFork, ExtentListsAssumption
<1>3. n \in Nat /\ u \in [0..n -> Nat]
      /\ \A i \in 1..n : u[i] = u[i-1] + laid[i].count /\ laid[i].count \in Nat \ {0}
  <2>1. n \in Nat /\ u \in [0..n -> Nat]
        /\ \A i \in 1..n : u[i] = u[i-1] + laid[i].count /\ laid[i].count \in Nat
    BY <1>1, UpToUnfolds, ExtentTypes
  <2>. QED BY <1>1, <2>1 DEF Filled
<1>4. \A i \in 0..n : u[i] <= Covered(laid)
  BY <1>1, CoveredIsNat
<1>5. \A i \in 0..n : \A j \in i..n : u[i] <= u[j]
  BY <1>1, UpToAscends
<1>6. \A i \in 0..n : Count(SubSeq(laid, 1, i)) = u[i]
  <2>. TAKE i \in 0..n
  <2>. DEFINE c == Covered(SubSeq(laid, 1, i))
  <2>1. c = u[i] /\ u[i] \in Nat /\ u[i] <= Covered(laid)
    BY <1>1, <1>3, <1>4, FirstOf
  <2>. HIDE DEF c, u, laid
  <2>2. c \in Nat /\ c < Width
    <3>. DEFINE a == Covered(laid)
                v == u[i]
    <3>1. a \in Nat /\ a < Width /\ v \in Nat /\ c = v /\ v <= a /\ Width \in Nat
      BY <1>2, <2>1, ExtentListsAssumption
    <3>. HIDE DEF a, v
    <3>. QED BY ONLY <3>1
  <2>3. c % Width = c
    BY <2>2, ExtentListsAssumption
  <2>. QED BY <2>1, <2>3 DEF Count, c
<1>. HIDE DEF laid, n, u
<1>7. ASSUME NEW i \in 0..n, NEW j \in 0..n, i < j PROVE u[i] < u[j]
  <2>1. i + 1 \in 1..n /\ i + 1 \in 0..n /\ j \in (i + 1)..n /\ (i + 1) - 1 = i
    BY <1>3, <1>7
  <2>2. u[i + 1] = u[i] + laid[i + 1].count /\ laid[i + 1].count \in Nat \ {0}
    BY <1>3, <2>1
  <2>3. u[i + 1] <= u[j]
    BY <1>5, <2>1
  <2>4. u[i] \in Nat /\ u[j] \in Nat /\ u[i + 1] \in Nat
    BY <1>3, <2>1
  <2>. QED BY <2>2, <2>3, <2>4
<1>. QED BY <1>1, <1>2, <1>6, <1>7 DEF laid, n, u

\* The list so far is the first extents of the fork, as many as records hold.
Tracked(exts) ==
    \E i \in 0..Len(fork.laid) : exts = SubSeq(fork.laid, 1, i) /\ Continues(fork, i)

\* The list that is returned is those extents, cut to the fork.
Exact(exts) ==
    /\ BlocksOf(exts) = WrittenTo(fork) /\ Covered(exts) = fork.total
    /\ \A i \in 1..Len(exts) : /\ i \in 1..Len(fork.laid) /\ exts[i].start = fork.laid[i].start
                               /\ exts[i].count <= fork.laid[i].count

\* Asked for by its own CNID, a sound fork never comes back short or wrong.
Tracks ==
    fork.sound /\ cnid = fork.cnid =>
        /\ phase \in {"collect", "append"} => Tracked(out)
        /\ phase = "append" => overflow = [b \in DOMAIN fork.overflow |-> Compact(fork.overflow[b])]
        /\ result \in {"none", "ok", "failed"}
        /\ result = "ok" => Exact(out)

LEMMA TracksInit == ResolveInit => Tracks
BY DEF ResolveInit, Tracks

LEMMA TrackedStays == \A e, f : e = f /\ UNCHANGED fork /\ Tracked(e) => Tracked(f)'
BY DEF Tracked, Continues

LEMMA ExactStays == \A e, f : e = f /\ UNCHANGED fork /\ Exact(e) => Exact(f)'
BY DEF Exact, WrittenTo

LEMMA TracksStay ==
    ASSUME Tracks, UNCHANGED resolveVars
    PROVE  Tracks'
BY TrackedStays, ExactStays DEF Tracks, resolveVars

\* A list that covers the fork is exact once it is trimmed.
LEMMA GiveExact ==
    ASSUME Given, fork.sound, NEW exts, Tracked(exts), Count(exts) >= fork.total, fork.total > 0
    PROVE  Exact(Trim(exts, fork.total))
<1>1. PICK i \in 0..Len(fork.laid) : exts = SubSeq(fork.laid, 1, i)
  BY DEF Tracked
<1>2. fork.laid \in Lists /\ Len(fork.laid) \in Nat /\ fork.total \in Nat \ {0} /\ fork.laid \in Filled
  BY LaidFacts, GivenFork, ExtentTypes
<1>3. exts \in Lists /\ Len(exts) = i /\ \A x \in 1..i : exts[x] = fork.laid[x]
  BY <1>1, <1>2, FirstOf
<1>4. fork.total <= Covered(exts)
  <2>1. Count(exts) \in Nat /\ Count(exts) <= Covered(exts) /\ Covered(exts) \in Nat
    BY <1>3, CountIsSmall, CoveredIsNat, ExtentListsAssumption
  <2>. QED BY <1>2, <2>1
<1>5. Len(exts) <= Len(fork.laid)
  BY <1>1, <1>2, <1>3
<1>6. exts \in Filled
  <2>1. \A x \in 1..i : x \in 1..Len(fork.laid)
    BY <1>1, <1>2
  <2>. QED BY <1>2, <1>3, <2>1 DEF Filled
<1>7. Covered(Trim(exts, fork.total)) = fork.total
  BY <1>2, <1>4, <1>6, TrimCovers
<1>8. \A x \in 1..Len(exts) : exts[x] = fork.laid[x]
  BY <1>3
<1>9. /\ BlocksOf(Trim(exts, fork.total)) = SubSeq(BlocksOf(fork.laid), 1, fork.total)
      /\ \A x \in 1..Len(Trim(exts, fork.total)) :
            /\ x \in 1..Len(fork.laid) /\ Trim(exts, fork.total)[x].start = fork.laid[x].start
            /\ Trim(exts, fork.total)[x].count <= fork.laid[x].count
  BY <1>2, <1>3, <1>4, <1>5, <1>8, TrimmedBlocks
<1>. QED BY <1>7, <1>9 DEF Exact, WrittenTo

\* The catalog record of a sound fork holds its first extents.
LEMMA InlineTracks ==
    ASSUME Given, ResolveInv, fork.sound, cnid = fork.cnid, Inline
    PROVE  /\ phase' \in {"collect", "append"} => Tracked(out') /\ phase' # "append"
           /\ result' = "ok" => Exact(out')
           /\ result' \in {"none", "ok"}
<1>. DEFINE exts == Compact(fork.inline)
<1>1. Tracked(exts) /\ (fork.total = 0 => fork.laid = <<>>)
  BY DEF Given, IsLaid, Tracked
<1>2. fork.total \in Nat /\ fork.laid \in Lists
  BY GivenFork, LaidFacts
<1>. HIDE DEF exts
<1>3. fork.total = 0 => Exact(exts)
  <2>. SUFFICES ASSUME fork.total = 0 PROVE Exact(exts)
    OBVIOUS
  <2>1. PICK i \in 0..Len(fork.laid) : exts = SubSeq(fork.laid, 1, i)
    BY <1>1 DEF Tracked
  <2>2. fork.laid = <<>> /\ i = 0
    BY <1>1
  <2>3. exts \in Lists /\ Len(exts) = 0 /\ Covered(exts) = 0
    <3>1. i \in 0..Len(fork.laid)
      OBVIOUS
    <3>2. exts \in Lists /\ Len(exts) = i /\ Covered(exts) = UpTo(fork.laid)[i]
      BY <1>2, <2>1, FirstOf
    <3>. QED BY <1>2, <2>2, <3>2, UpToUnfolds
  <2>4. BlocksOf(exts) \in Seq(Int) /\ Len(BlocksOf(exts)) = 0
    BY <2>3, BlocksAt
  <2>5. BlocksOf(fork.laid) \in Seq(Int)
    BY <1>2, BlocksAt
  <2>6. SubSeq(BlocksOf(fork.laid), 1, 0) = <<>> /\ BlocksOf(exts) = <<>>
    BY <2>4, <2>5
  <2>. QED BY <2>3, <2>6 DEF Exact, WrittenTo
<1>4. CASE fork.total = 0 /\ Give("ok", exts)
  BY <1>3, <1>4 DEF Give, Inline
<1>5. CASE fork.total > 0 /\ Count(exts) >= fork.total /\ Give("ok", Trim(exts, fork.total))
  BY <1>1, <1>5, GiveExact DEF Give, Inline
<1>6. CASE phase' = "collect" /\ out' = exts /\ UNCHANGED result
  <2>1. result' = "none"
    BY <1>6 DEF Inline, ResolveInv
  <2>. QED BY <1>1, <1>6, <2>1 DEF Inline
<1>. QED BY <1>4, <1>5, <1>6, <1>2 DEF Inline, exts

\* The record that is found is the one that continues the list.
LEMMA AppendTracks ==
    ASSUME Given, ResolveInv, Tracks, fork.sound, cnid = fork.cnid, AppendRecord
    PROVE  /\ phase' = "append" => Tracked(out')
           /\ result' = "ok" => Exact(out')
           /\ phase' \in {"append", "done"} /\ result' \in {"none", "ok"}
<1>. DEFINE laid    == fork.laid
            n       == Len(laid)
            u       == UpTo(laid)
            covered == Count(out)
            next    == NextKey(out)
            longer  == out \o overflow[next]
<1>1. /\ phase = "append" /\ result = "none" /\ Tracked(out) /\ fork.total \in Nat /\ fork.total > 0
      /\ overflow = [b \in DOMAIN fork.overflow |-> Compact(fork.overflow[b])]
  BY GivenFork DEF AppendRecord, ResolveInv, Resolving, Tracks
<1>2. PICK i \in 0..n : out = SubSeq(laid, 1, i) /\ Continues(fork, i)
  BY <1>1 DEF Tracked
<1>3. /\ laid \in Lists /\ n \in Nat /\ u \in [0..n -> Nat]
      /\ \A k \in 0..n : \A j \in 0..n : k < j => u[k] < u[j]
      /\ \A k \in 0..n : Count(SubSeq(laid, 1, k)) = u[k]
  <2>1. laid \in Lists
    BY LaidFacts
  <2>. QED BY <2>1, LaidFacts, UpToUnfolds, ExtentTypes
<1>4. covered = u[i] /\ next = u[i] /\ u[i] \in Nat
  BY <1>2, <1>3 DEF NextKey
<1>5. CASE covered >= fork.total
  <2>1. Give("ok", Trim(out, fork.total))
    BY <1>5 DEF AppendRecord
  <2>2. Exact(Trim(out, fork.total))
    BY <1>1, <1>5, GiveExact
  <2>. QED BY <2>1, <2>2 DEF Give
<1>6. CASE ~(covered >= fork.total)
  <2>1. next \in DOMAIN fork.overflow
    BY <1>2, <1>4, <1>6 DEF Continues
  <2>2. PICK k \in 0..n : \E j \in (k + 1)..n :
           next = u[k] /\ Compact(fork.overflow[next]) = SubSeq(laid, k + 1, j) /\ Continues(fork, j)
    BY <2>1 DEF Given, IsLaid
  <2>3. PICK j \in (k + 1)..n :
           next = u[k] /\ Compact(fork.overflow[next]) = SubSeq(laid, k + 1, j) /\ Continues(fork, j)
    BY <2>2
  <2>. HIDE DEF laid, n, u, covered, next
  <2>4. k = i
    <3>1. u[k] = u[i] /\ u[i] \in Nat
      BY <1>4, <2>3
    <3>2. ~(k < i) /\ ~(i < k)
      BY <1>3, <3>1
    <3>3. k \in Nat /\ i \in Nat
      BY <1>3
    <3>. QED BY <3>2, <3>3
  <2>5. overflow[next] = SubSeq(laid, i + 1, j) /\ next \in DOMAIN overflow
    BY <1>1, <2>1, <2>3, <2>4
  <2>6. longer = SubSeq(laid, 1, j) /\ overflow[next] # <<>>
    <3>1. i \in 0..Len(laid) /\ j \in (i + 1)..Len(laid)
      BY <2>4 DEF n
    <3>. QED BY <1>2, <1>3, <2>5, <3>1, FirstAndNext
  <2>7. j \in 0..n /\ i < j
    BY <1>3, <2>4
  <2>8. Count(longer) = u[j] /\ u[i] < u[j] /\ u[j] \in Nat
    BY <1>3, <2>6, <2>7
  <2>9. ~Stuck(covered, Count(longer))
    BY <1>4, <2>8 DEF Stuck
  <2>10. out' = longer /\ UNCHANGED <<phase, result>>
    BY <1>6, <2>5, <2>6, <2>9 DEF AppendRecord, covered, next
  <2>11. Tracked(longer)
    BY <2>3, <2>6, <2>7 DEF Tracked, laid, n
  <2>. HIDE DEF longer
  <2>. QED BY <1>1, <2>10, <2>11
<1>. QED BY <1>5, <1>6

LEMMA TracksStep ==
    ASSUME Given, ResolveInv, Tracks, ResolveNext
    PROVE  Tracks'
<1>1. UNCHANGED <<fork, cnid>>
  BY DEF ResolveNext, Inline, Collect, AppendRecord
<1>. SUFFICES ASSUME fork.sound, cnid = fork.cnid
              PROVE  /\ (phase \in {"collect", "append"} => Tracked(out))'
                     /\ (phase = "append" => overflow = [b \in DOMAIN fork.overflow |-> Compact(fork.overflow[b])])'
                     /\ (result \in {"none", "ok", "failed"})'
                     /\ (result = "ok" => Exact(out))'
  BY <1>1 DEF Tracks
<1>2. \A e : Tracked(e) => Tracked(e)'
  BY <1>1, TrackedStays
<1>3. \A e : Exact(e) => Exact(e)'
  BY <1>1, ExactStays
<1>4. /\ phase' \in {"collect", "append"} => Tracked(out')
      /\ phase' = "append" => overflow' = [b \in DOMAIN fork.overflow |-> Compact(fork.overflow[b])]
      /\ result' \in {"none", "ok", "failed"}
      /\ result' = "ok" => Exact(out')
  <2>1. CASE Inline
    BY <2>1, InlineTracks
  <2>2. CASE Collect
    <3>1. phase = "collect" /\ result = "none" /\ Tracked(out)
      BY <2>2 DEF Collect, ResolveInv, Tracks
    <3>. QED BY <2>2, <3>1 DEF Collect, Give
  <2>3. CASE AppendRecord
    <3>1. phase = "append" /\ UNCHANGED overflow
      BY <2>3 DEF AppendRecord
    <3>. QED BY <2>3, <3>1, AppendTracks DEF Tracks
  <2>. QED BY <2>1, <2>2, <2>3 DEF ResolveNext
<1>5. (phase = "append" => overflow = [b \in DOMAIN fork.overflow |-> Compact(fork.overflow[b])])'
  BY <1>1, <1>4
<1>6. (phase \in {"collect", "append"} => Tracked(out))' /\ (result = "ok" => Exact(out))'
  <2>1. (phase \in {"collect", "append"} => Tracked(out))'
    BY <1>1, <1>4, TrackedStays DEF Tracked, Continues
  <2>2. (result = "ok" => Exact(out))'
    BY <1>1, <1>4, ExactStays DEF Exact, WrittenTo
  <2>. QED BY <2>1, <2>2
<1>. QED BY <1>4, <1>5, <1>6

---------------------------------------------------------------------------
(* The bytes of a sound fork. *)

\* A product, kept folded.
Times(a, b) == a * b

\* What multiplying by the block size keeps.
LEMMA TimesFacts ==
    ASSUME NEW b \in Nat
    PROVE  /\ \A x \in Nat : Times(x, b) \in Nat
           /\ \A x \in Nat, y \in Nat : Times(x + y, b) = Times(x, b) + Times(y, b)
           /\ \A x \in Nat, y \in Nat : x <= y => Times(x, b) <= Times(y, b)
<1>1. \A x \in Nat : x * b \in Nat
  OBVIOUS
<1>2. \A x \in Nat, y \in Nat : (x + y) * b = x * b + y * b
  OBVIOUS
<1>3. ASSUME NEW x \in Nat, NEW y \in Nat, x <= y PROVE x * b <= y * b
  <2>1. y - x \in Nat /\ y = x + (y - x)
    BY <1>3
  <2>2. y * b = x * b + (y - x) * b /\ (y - x) * b \in Nat /\ x * b \in Nat
    BY <1>1, <1>2, <2>1
  <2>. QED BY <2>2
<1>. QED BY <1>1, <1>2, <1>3 DEF Times

\* The open file is that of a sound fork in a sound volume, opened where it is.
SoundFile ==
    /\ Given /\ OpenInv /\ FileInv
    /\ fork.sound /\ image.sound /\ config.base = image.start /\ fork.kind = "live" /\ file.kind = "fork"
    /\ file.told = Addressable(file.extents) /\ file.size = fork.size
    /\ Exact(file.extents)

\* Every offset of such a file fits, and no byte of it lies behind its extents.
LEMMA SoundPlace ==
    ASSUME SoundFile
    PROVE  /\ vol.base = image.zero /\ vol.blockSize = image.blockSize
           /\ vol.base \in Nat /\ vol.blockSize \in Nat \ {0} /\ MaxInt \in Nat
           /\ file.extents \in Lists /\ file.size \in Nat
           /\ file.size <= Spans(file.extents) /\ Spans(file.extents) <= MaxInt
           /\ \A i \in 1..Len(file.extents) :
                 /\ BlockOffset(file.extents[i].start) = vol.base + file.extents[i].start * vol.blockSize
                 /\ Span(file.extents[i]) <= MaxInt - BlockOffset(file.extents[i].start)
<1>. DEFINE b    == vol.blockSize
            exts == file.extents
            laid == fork.laid
<1>1. vol # NotOpen /\ exts \in Lists /\ file.size \in Nat /\ OpenInv
  BY DEF SoundFile, FileInv
<1>2. vol.base = image.zero /\ b = image.blockSize
  BY <1>1 DEF SoundFile, OpenInv, OpenedAt, VolumePlaced
<1>3. vol.base \in Nat /\ b \in Nat \ {0} /\ MaxInt \in Nat
  BY <1>1, Geometry
<1>4. /\ \A k \in DOMAIN laid : vol.base + Times(laid[k].start + laid[k].count, b) <= MaxInt
      /\ Times(Covered(laid), b) <= MaxInt /\ fork.size <= Times(fork.total, b)
  BY <1>2 DEF SoundFile, Given, OnVolume, Times
<1>5. /\ laid \in Lists /\ DOMAIN laid = 1..Len(laid) /\ fork.total <= Covered(laid)
      /\ Covered(laid) \in Nat /\ fork.total \in Nat
  <2>1. Given /\ fork.sound
    BY DEF SoundFile
  <2>. QED BY <2>1, LaidFacts, ExtentTypes, CoveredIsNat, GivenFork
<1>6. Covered(exts) = fork.total /\ Spans(exts) = Times(fork.total, b)
  BY DEF SoundFile, Exact, Spans, Times
<1>7. file.size <= Spans(exts) /\ Spans(exts) <= MaxInt
  <2>1. b \in Nat
    BY <1>3
  <2>. HIDE DEF b
  <2>2. Times(fork.total, b) <= Times(Covered(laid), b)
    BY <1>5, <2>1, TimesFacts
  <2>3. Times(fork.total, b) \in Nat /\ Times(Covered(laid), b) \in Nat
    BY <1>5, <2>1, TimesFacts
  <2>. QED BY <1>3, <1>4, <1>6, <2>2, <2>3 DEF SoundFile
<1>8. ASSUME NEW i \in 1..Len(exts)
      PROVE  /\ BlockOffset(exts[i].start) = vol.base + exts[i].start * b
             /\ Span(exts[i]) <= MaxInt - BlockOffset(exts[i].start)
  <2>. DEFINE s == exts[i].start
              c == exts[i].count
              l == laid[i].count
              z == vol.base
  <2>1. i \in 1..Len(laid) /\ s = laid[i].start /\ c <= l
    BY DEF SoundFile, Exact
  <2>2. s \in Nat /\ c \in Nat /\ l \in Nat
    BY <1>1, <1>5, <2>1, ExtentTypes
  <2>3. z + Times(s + l, b) <= MaxInt
    BY <1>4, <1>5, <2>1
  <2>4. BlockOffset(s) = IF Times(s, b) > MaxInt - z THEN -1 ELSE z + Times(s, b)
    BY DEF BlockOffset, Times
  <2>5. Span(exts[i]) = Times(c, b)
    BY DEF Span, Times
  <2>6. b \in Nat /\ z \in Nat /\ MaxInt \in Nat
    BY <1>3
  <2>. HIDE DEF s, c, l, z, b
  <2>7. /\ Times(s + l, b) = Times(s, b) + Times(l, b) /\ Times(c, b) <= Times(l, b)
        /\ Times(s, b) \in Nat /\ Times(l, b) \in Nat /\ Times(c, b) \in Nat
    BY <2>1, <2>2, <2>6, TimesFacts
  <2>8. BlockOffset(s) = z + Times(s, b) /\ Times(c, b) <= MaxInt - BlockOffset(s)
    BY <2>3, <2>4, <2>6, <2>7
  <2>. QED BY <2>5, <2>8 DEF s, z, b, Times
<1>. QED BY <1>1, <1>2, <1>3, <1>7, <1>8 DEF b, exts

\* So its ranges are reported, and its content is what they report.
LEMMA SoundTold ==
    ASSUME SoundFile
    PROVE  /\ file.told /\ content \in Seq(Int) /\ Len(content) = file.size
           /\ \A i \in 1..Len(file.extents) :
              \A j \in 1..DataLength(file.size - Ends(file.extents, i-1), Span(file.extents[i])) :
                  content[Ends(file.extents, i-1) + j] =
                      vol.base + file.extents[i].start * vol.blockSize + j - 1
<1>1. file.extents \in Lists /\ vol.base \in Nat /\ vol.blockSize \in Nat
  BY SoundPlace
<1>2. DOMAIN file.extents = 1..Len(file.extents) /\ \A i \in 1..Len(file.extents) : file.extents[i].start \in Nat
  BY <1>1, ExtentTypes
<1>3. ASSUME NEW i \in 1..Len(file.extents)
      PROVE  BlockOffset(file.extents[i].start) # -1
  <2>. DEFINE p == file.extents[i].start * vol.blockSize
  <2>1. BlockOffset(file.extents[i].start) = vol.base + p
    BY SoundPlace
  <2>2. p \in Nat
    BY <1>1, <1>2
  <2>. HIDE DEF p
  <2>. QED BY <1>1, <2>1, <2>2
<1>4. file.told
  BY <1>2, <1>3, SoundPlace DEF SoundFile, Addressable
<1>5. Data
  BY <1>4 DEF SoundFile, FileInv
<1>6. Len(content) = file.size
  BY <1>5, SoundPlace DEF Data, Reach
<1>7. \A i \in 1..Len(file.extents) :
      BlockOffset(file.extents[i].start) = vol.base + file.extents[i].start * vol.blockSize
  BY SoundPlace
<1>. QED BY <1>4, <1>5, <1>6, <1>7 DEF Data

\* Where a byte lies among blocks.
LEMMA Divided ==
    ASSUME NEW x \in Nat, NEW b \in Nat \ {0}
    PROVE  /\ x \div b \in Nat /\ x % b \in Nat /\ x % b < b
           /\ x = Times(x \div b, b) + (x % b)
           /\ \A n \in Nat : x < Times(n, b) => x \div b < n
<1>. DEFINE q == x \div b
            r == x % b
<1>1. q \in Nat /\ r \in Nat /\ r < b /\ x = q * b + r
  OBVIOUS
<1>. HIDE DEF q, r
<1>2. ASSUME NEW n \in Nat, x < n * b PROVE q < n
  <2>. SUFFICES ASSUME n <= q PROVE FALSE
    BY <1>1
  <2>1. n * b <= q * b
    BY <1>1, TimesFacts DEF Times
  <2>2. n * b \in Nat /\ q * b \in Nat
    BY <1>1
  <2>. HIDE DEF Times
  <2>. QED BY <1>1, <1>2, <2>1, <2>2
<1>3. x = Times(q, b) + r /\ \A n \in Nat : x < Times(n, b) => q < n
  BY <1>1, <1>2 DEF Times
<1>. HIDE DEF Times
<1>. QED BY ONLY <1>1, <1>3, Zenon DEF q, r

\* Each byte of the content is where the block that holds it was written.
LEMMA ContentWritten ==
    ASSUME SoundFile
    PROVE  content = Written
<1>. DEFINE b      == vol.blockSize
            exts   == file.extents
            size   == file.size
            z      == vol.base
            blocks == WrittenTo(fork)
            u      == UpTo(exts)
<1>1. /\ z = image.zero /\ b = image.blockSize /\ z \in Nat /\ b \in Nat \ {0}
      /\ exts \in Lists /\ size \in Nat /\ size = fork.size
  BY SoundPlace DEF SoundFile
<1>2. blocks = BlocksOf(exts) /\ Covered(exts) \in Nat /\ size <= Times(Covered(exts), b)
  BY <1>1, SoundPlace, CoveredIsNat DEF SoundFile, Exact, Spans, Times
<1>3. /\ content \in Seq(Int) /\ Len(content) = size
      /\ \A i \in 1..Len(exts) : \A j \in 1..DataLength(size - Ends(exts, i-1), Span(exts[i])) :
            content[Ends(exts, i-1) + j] = z + Times(exts[i].start, b) + j - 1
  BY SoundTold DEF Times
<1>4. /\ \A i \in 1..Len(exts) : /\ u[i-1] \in Nat /\ exts[i].count \in Nat /\ exts[i].start \in Nat
                                 /\ Ends(exts, i-1) = Times(u[i-1], b) /\ Span(exts[i]) = Times(exts[i].count, b)
      /\ \A i \in 1..Len(exts) : \A j \in 1..exts[i].count : BlocksOf(exts)[u[i-1] + j] = exts[i].start + j - 1
  <2>1. \A i \in 1..Len(exts) : i - 1 \in 0..Len(exts)
    BY <1>1, ExtentTypes
  <2>2. \A i \in 1..Len(exts) : u[i-1] \in Nat /\ exts[i].count \in Nat /\ exts[i].start \in Nat
    BY <1>1, <2>1, UpToUnfolds, ExtentTypes
  <2>3. \A i \in 1..Len(exts) : Ends(exts, i-1) = Times(u[i-1], b) /\ Span(exts[i]) = Times(exts[i].count, b)
    BY DEF Ends, Span, Times
  <2>. QED BY <1>1, <2>2, <2>3, BlocksAt
<1>5. \A m \in 1..Covered(exts) : \E i \in 1..Len(exts) : \E j \in 1..exts[i].count : m = u[i-1] + j
  BY <1>1, InSomeExtent
<1>. HIDE DEF b, exts, size, z, blocks, u
<1>6. ASSUME NEW x \in 1..size
      PROVE  content[x] = z + Times(blocks[(x - 1) \div b + 1], b) + ((x - 1) % b)
  <2>. DEFINE q == (x - 1) \div b
              r == (x - 1) % b
  <2>1. x - 1 \in Nat /\ x - 1 < Times(Covered(exts), b)
    <3>1. Times(Covered(exts), b) \in Nat
      BY <1>1, <1>2, TimesFacts
    <3>. QED BY <1>1, <1>2, <3>1
  <2>2. q \in Nat /\ r \in Nat /\ r < b /\ x - 1 = Times(q, b) + r /\ q < Covered(exts)
    <3>. DEFINE w == x - 1
                n == Covered(exts)
    <3>1. w \in Nat /\ b \in Nat \ {0} /\ n \in Nat /\ w < Times(n, b)
      BY <1>1, <1>2, <2>1
    <3>2. q = w \div b /\ r = w % b
      OBVIOUS
    <3>. HIDE DEF w, n, q, r
    <3>3. /\ w \div b \in Nat /\ w % b \in Nat /\ w % b < b
          /\ w = Times(w \div b, b) + (w % b) /\ w \div b < n
      BY ONLY <3>1, Divided, Zenon
    <3>. QED BY ONLY <3>2, <3>3, Zenon DEF w, n
  <2>. HIDE DEF q, r
  <2>3. PICK i \in 1..Len(exts) : \E j \in 1..exts[i].count : q + 1 = u[i-1] + j
    <3>1. q + 1 \in 1..Covered(exts)
      BY <1>2, <2>2
    <3>. QED BY <1>5, <3>1
  <2>4. PICK j \in 1..exts[i].count : q + 1 = u[i-1] + j
    BY <2>3
  <2>. DEFINE v == u[i-1]
              c == exts[i].count
              s == exts[i].start
              k == j - 1
              y == Times(k, b) + r + 1
  <2>5. /\ v \in Nat /\ c \in Nat /\ s \in Nat /\ Ends(exts, i-1) = Times(v, b) /\ Span(exts[i]) = Times(c, b)
        /\ j \in 1..c /\ q + 1 = v + j /\ blocks[q + 1] = s + j - 1
    BY <1>2, <1>4, <2>4
  <2>6. \A m \in 1..DataLength(size - Ends(exts, i-1), Span(exts[i])) :
            content[Ends(exts, i-1) + m] = z + Times(s, b) + m - 1
    BY <1>3
  <2>. HIDE DEF v, c, s
  <2>7. k \in Nat /\ k + 1 <= c /\ q = v + k /\ blocks[q + 1] = s + k
    BY <2>2, <2>5
  <2>. HIDE DEF k
  <2>8. /\ Times(v, b) \in Nat /\ Times(c, b) \in Nat /\ Times(k, b) \in Nat /\ Times(s, b) \in Nat
        /\ Times(q, b) = Times(v, b) + Times(k, b) /\ Times(s + k, b) = Times(s, b) + Times(k, b)
        /\ Times(k + 1, b) = Times(k, b) + Times(1, b) /\ Times(k + 1, b) <= Times(c, b) /\ Times(1, b) = b
    <3>1. k + 1 \in Nat /\ 1 \in Nat /\ b \in Nat
      BY <1>1, <2>7
    <3>2. /\ Times(v, b) \in Nat /\ Times(c, b) \in Nat /\ Times(k, b) \in Nat /\ Times(s, b) \in Nat
          /\ Times(v + k, b) = Times(v, b) + Times(k, b) /\ Times(s + k, b) = Times(s, b) + Times(k, b)
          /\ Times(k + 1, b) = Times(k, b) + Times(1, b) /\ Times(k + 1, b) <= Times(c, b)
      <4>. HIDE DEF y
      <4>1. v \in Nat /\ c \in Nat /\ s \in Nat /\ k \in Nat /\ k + 1 \in Nat /\ 1 \in Nat /\ b \in Nat
            /\ k + 1 <= c
        BY ONLY <2>5, <2>7, <3>1
      <4>2. /\ Times(v, b) \in Nat /\ Times(c, b) \in Nat /\ Times(k, b) \in Nat /\ Times(s, b) \in Nat
        BY ONLY <4>1, TimesFacts
      <4>3. Times(v + k, b) = Times(v, b) + Times(k, b)
        BY ONLY <4>1, TimesFacts
      <4>4. Times(s + k, b) = Times(s, b) + Times(k, b)
        BY ONLY <4>1, TimesFacts
      <4>5. Times(k + 1, b) = Times(k, b) + Times(1, b) /\ Times(k + 1, b) <= Times(c, b)
        BY ONLY <4>1, TimesFacts
      <4>. QED BY ONLY <4>2, <4>3, <4>4, <4>5
    <3>3. Times(1, b) = b
      BY <3>1 DEF Times
    <3>. QED BY <2>7, <3>2, <3>3
  <2>9. x = Times(v, b) + y /\ y \in Nat /\ 1 <= y /\ y <= Times(c, b) /\ y <= size - Times(v, b)
    <3>. DEFINE tv == Times(v, b)
                tk == Times(k, b)
                tc == Times(c, b)
                tq == Times(q, b)
    <3>1. /\ tv \in Nat /\ tk \in Nat /\ tc \in Nat /\ tq = tv + tk /\ tk + b <= tc
          /\ x - 1 = tq + r /\ r \in Nat /\ r < b /\ b \in Nat /\ size \in Nat /\ x \in Nat /\ x <= size
          /\ y = tk + r + 1
      BY <1>1, <2>2, <2>8
    <3>. HIDE DEF tv, tk, tc, tq, y
    <3>2. x = tv + y /\ y \in Nat /\ 1 <= y /\ y <= tc /\ y <= size - tv
      BY ONLY <3>1
    <3>. QED BY <3>2 DEF tv, tc
  <2>10. y \in 1..DataLength(size - Ends(exts, i-1), Span(exts[i]))
    <3>. DEFINE e == Times(v, b)
                t == Times(c, b)
                d == DataLength(size - e, t)
    <3>1. e \in Nat /\ t \in Nat /\ y \in Nat /\ 1 <= y /\ y <= t /\ y <= size - e
      BY <2>8, <2>9
    <3>. HIDE DEF e, t, d, y
    <3>2. d \in Nat /\ Reach(size, e + t) = Reach(size, e) + d
      <4>1. size \in Nat
        BY ONLY <1>1
      <4>2. DataLength(size - e, t) \in Nat /\ Reach(size, e + t) = Reach(size, e) + DataLength(size - e, t)
        BY ONLY <3>1, <4>1, DataLengths
      <4>. QED BY ONLY <4>2 DEF d
    <3>3. y <= d
      <4>1. size \in Nat /\ e + t \in Nat
        BY ONLY <1>1, <3>1
      <4>. QED BY ONLY <3>1, <3>2, <4>1 DEF Reach
    <3>4. y \in 1..d
      BY <3>1, <3>2, <3>3
    <3>. QED BY <2>5, <3>4 DEF d, e, t
  <2>11. content[Times(v, b) + y] = z + Times(s, b) + y - 1
    BY <2>5, <2>6, <2>10
  <2>12. content[x] = z + Times(s + k, b) + r
    <3>. DEFINE ts == Times(s, b)
                tk == Times(k, b)
                t  == Times(s + k, b)
    <3>1. /\ ts \in Nat /\ tk \in Nat /\ t = ts + tk /\ z \in Nat /\ r \in Nat
          /\ y = tk + r + 1 /\ content[x] = z + ts + y - 1
      <4>1. content[x] = z + Times(s, b) + y - 1
        BY ONLY <2>9, <2>11, Zenon
      <4>. QED BY <1>1, <2>2, <2>8, <4>1
    <3>. HIDE DEF ts, tk, t, y
    <3>2. content[x] = z + t + r
      BY ONLY <3>1
    <3>. QED BY <3>2 DEF t
  <2>13. content[x] = z + Times(blocks[q + 1], b) + r
    BY ONLY <2>7, <2>12, Zenon
  <2>. QED BY ONLY <2>13, Zenon DEF q, r
<1>7. content = [x \in 1..size |-> content[x]]
  BY <1>3
<1>8. Written = [x \in 1..size |-> z + Times(blocks[(x - 1) \div b + 1], b) + ((x - 1) % b)]
  BY <1>1 DEF Written, Times, blocks
<1>. QED BY <1>6, <1>7, <1>8

\* What adds up to as much as the slack of each range is the slack of all.
LEMMA SlackIs ==
    ASSUME NEW ranges, NEW n \in Nat, Len(ranges) = n, \A i \in 1..n : ranges[i].slack \in Nat,
           NEW sums \in [0..n -> Nat], sums[0] = 0,
           \A i \in 1..n : sums[i] = sums[i-1] + ranges[i].slack
    PROVE  Slack(ranges) = sums[n]
<1>. DEFINE F(f) == [i \in 0..n |-> IF i = 0 THEN 0 ELSE f[i-1] + ranges[i].slack]
            s == CHOOSE g : g = F(g)
<1>1. sums = F(sums)
  <2>1. \A i \in 0..n : sums[i] = IF i = 0 THEN 0 ELSE sums[i-1] + ranges[i].slack
    OBVIOUS
  <2>2. sums = [i \in 0..n |-> sums[i]]
    OBVIOUS
  <2>. QED BY <2>1, <2>2
<1>2. s = F(s)
  <2>. HIDE DEF F
  <2>. QED BY <1>1
<1>3. Slack(ranges) = s[n]
  BY DEF Slack
<1>. HIDE DEF s
<1>4. s[0] = sums[0] /\ \A i \in 1..n : s[i-1] = sums[i-1] => s[i] = sums[i]
  <2>1. \A i \in 0..n : s[i] = IF i = 0 THEN 0 ELSE s[i-1] + ranges[i].slack
    BY <1>2
  <2>. QED BY <2>1
<1>. HIDE DEF F
<1>5. \A i \in 0..n : s[i] = sums[i]
  <2>1. UnfoldAlike(s, sums, n)
    BY ONLY <1>4 DEF UnfoldAlike
  <2>2. Alike(s, sums, n)
    BY ONLY <2>1, n \in Nat, RecursionUnique
  <2>. QED BY ONLY <2>2 DEF Alike
<1>. QED BY <1>3, <1>5

\* What a range does not report as data is slack.
LEMMA SlackOfRanges ==
    ASSUME vol.blockSize \in Nat, NEW exts \in Lists, NEW size \in Nat, size <= Spans(exts)
    PROVE  LET ranges == Ranges(exts, size)
           IN  Slack(ranges) = Spans(exts) - size /\ \A i \in DOMAIN ranges : ranges[i].slack >= 0
<1>. DEFINE ranges == Ranges(exts, size)
            n == Len(exts)
            sums == [i \in 0..n |-> Ends(exts, i) - Reach(size, Ends(exts, i))]
<1>1. /\ n \in Nat /\ DOMAIN exts = 1..n
      /\ \A i \in 0..n : Ends(exts, i) \in Nat
      /\ \A i \in 1..n : Span(exts[i]) \in Nat /\ Ends(exts, i) = Ends(exts, i - 1) + Span(exts[i])
      /\ Ends(exts, 0) = 0 /\ Ends(exts, n) = Spans(exts)
  BY SpanFacts, ExtentTypes
<1>2. Len(ranges) = n /\ DOMAIN ranges = 1..n
  BY <1>1 DEF Ranges
<1>. HIDE DEF n
<1>3. ASSUME NEW i \in 1..n
      PROVE  /\ ranges[i].slack \in Nat
             /\ Ends(exts, i) - Reach(size, Ends(exts, i)) =
                    (Ends(exts, i-1) - Reach(size, Ends(exts, i-1))) + ranges[i].slack
  <2>. DEFINE e == Ends(exts, i-1)
              s == Span(exts[i])
              d == DataLength(size - e, s)
  <2>1. e \in Nat /\ s \in Nat /\ Ends(exts, i) = e + s
    <3>1. i - 1 \in 0..n
      BY <1>1
    <3>. QED BY <1>1, <3>1
  <2>2. ranges[i].slack = s - d
    BY <1>1 DEF Ranges, Before, Ends
  <2>. HIDE DEF e, s, d
  <2>3. d \in Nat /\ d <= s /\ Reach(size, e + s) = Reach(size, e) + d
    BY <2>1, DataLengths DEF d
  <2>4. Reach(size, e) \in Nat
    BY <2>1 DEF Reach
  <2>5. s - d \in Nat /\ (e + s) - Reach(size, e + s) = (e - Reach(size, e)) + (s - d)
    BY <2>1, <2>3, <2>4
  <2>. QED BY <2>1, <2>2, <2>5 DEF e
<1>. HIDE DEF ranges
<1>4. sums \in [0..n -> Nat] /\ sums[0] = 0
  <2>1. ASSUME NEW i \in 0..n PROVE Ends(exts, i) - Reach(size, Ends(exts, i)) \in Nat
    <3>. DEFINE e == Ends(exts, i)
    <3>1. e \in Nat
      BY <1>1
    <3>. HIDE DEF e
    <3>2. e - Reach(size, e) \in Nat
      BY <3>1 DEF Reach
    <3>. QED BY <3>2 DEF e
  <2>2. Ends(exts, 0) - Reach(size, Ends(exts, 0)) = 0 /\ 0 \in 0..n
    BY <1>1 DEF Reach
  <2>. QED BY <2>1, <2>2
<1>5. \A i \in 1..n : sums[i] = sums[i-1] + ranges[i].slack
  <2>1. \A i \in 1..n : i \in 0..n /\ i - 1 \in 0..n
    BY <1>1
  <2>2. \A i \in 0..n : sums[i] = Ends(exts, i) - Reach(size, Ends(exts, i))
    OBVIOUS
  <2>. HIDE DEF sums
  <2>. QED BY <1>3, <2>1, <2>2
<1>6. sums[n] = Spans(exts) - size
  <2>1. n \in 0..n
    BY <1>1
  <2>2. sums[n] = Ends(exts, n) - Reach(size, Ends(exts, n))
    BY <2>1
  <2>3. Reach(size, Spans(exts)) = size
    BY DEF Reach
  <2>. QED BY <1>1, <2>2, <2>3
<1>. HIDE DEF sums
<1>7. Slack(ranges) = sums[n]
  BY ONLY <1>1, <1>2, <1>3, <1>4, <1>5, SlackIs
<1>8. \A i \in 1..n : ranges[i].slack >= 0
  BY <1>3
<1>. QED BY <1>2, <1>6, <1>7, <1>8 DEF ranges

---------------------------------------------------------------------------
(* The whole. *)

\* What the open file has from the fork that it is.
FileTracks ==
    /\ file # Closed => file.told = Addressable(file.extents)
    /\ file.kind = "fork" /\ fork.kind = "live" =>
           result = "ok" /\ cnid = fork.cnid /\ file.extents = out /\ file.size = fork.size
    /\ file # Closed /\ fork.kind = "deleted" => file.kind = "fork" /\ file.size <= Spans(file.extents)

\* One of the volumes, and one of its forks.
Chosen == \E v \in Volumes : image = v.image /\ config = v.config /\ fork \in v.forks

\* The inductive invariant.
Inv == Chosen /\ OpenInv /\ ResolveInv /\ Tracks /\ ReadInv /\ FileTracks

LEMMA ChosenIsGiven == Chosen => Given
BY OpenForkAssumption DEF Chosen, Given

LEMMA ChosenStays == Chosen /\ UNCHANGED <<image, config, fork>> => Chosen'
BY DEF Chosen

\* It holds at first,
LEMMA InvInit == Init => Inv
<1>. SUFFICES ASSUME Init PROVE Inv
  OBVIOUS
<1>1. Chosen
  BY DEF Init, Chosen
<1>2. OpenInit /\ ResolveInit /\ ReadInit
  BY DEF Init
<1>3. FileTracks
  BY <1>2 DEF ReadInit, Closed, FileTracks
<1>. QED BY <1>1, <1>2, <1>3, ChosenIsGiven, OpenInvInit, ResolveInvInit, TracksInit, ReadInvInit DEF Inv

LEMMA FileTracksStay ==
    ASSUME FileTracks, UNCHANGED <<vol, file, fork, cnid, result, out>>
    PROVE  FileTracks'
<1>1. \A e : Addressable(e)' = Addressable(e) /\ Spans(e)' = Spans(e)
  BY DEF Addressable, Spans, Span, BlockOffset
<1>. QED BY <1>1 DEF FileTracks

LEMMA OpenVolumeStep ==
    ASSUME Inv, OpenVolume
    PROVE  Inv' /\ UNCHANGED readVars
<1>1. /\ OpenNext /\ UNCHANGED resolveVars /\ UNCHANGED readVars
      /\ Chosen /\ Given /\ OpenInv /\ ResolveInv /\ Tracks /\ ReadInv /\ FileTracks
  BY ChosenIsGiven DEF OpenVolume, Inv
<1>2. UNCHANGED <<image, config>> /\ opening # "done"
  BY <1>1 DEF OpenNext, ReadStart, FollowWrapper, OpenClassic, OpenPlus
<1>3. vol = NotOpen /\ file = Closed
  BY <1>1, <1>2 DEF OpenInv, ReadInv, FileInv
<1>4. Chosen'
  BY <1>1, <1>2, ChosenStays DEF resolveVars
<1>5. OpenInv' /\ ResolveInv' /\ Tracks'
  BY <1>1, OpenInvStep, ResolveInvStays, TracksStay
<1>6. UNCHANGED <<file, foff, call, idx, logical, buf, ret, content>>
  BY <1>1 DEF readVars
<1>7. ReadInv' /\ FileTracks'
  <2>1. ReadInv'
    BY <1>1, <1>3, <1>6 DEF ReadInv, Closed
  <2>. QED BY <1>3, <1>6, <2>1 DEF FileTracks, Closed
<1>. QED BY <1>1, <1>4, <1>5, <1>7 DEF Inv

LEMMA ResolveStep ==
    ASSUME Inv, Resolve
    PROVE  Inv' /\ UNCHANGED readVars
<1>1. /\ ResolveNext /\ UNCHANGED openVars /\ UNCHANGED readVars /\ file = Closed
      /\ Chosen /\ Given /\ OpenInv /\ ResolveInv /\ Tracks /\ ReadInv /\ FileTracks
  BY ChosenIsGiven DEF Resolve, Inv
<1>2. UNCHANGED <<image, config, vol>> /\ UNCHANGED fork
  BY <1>1 DEF openVars, ResolveNext, Inline, Collect, AppendRecord
<1>3. Chosen' /\ OpenInv' /\ ResolveInv' /\ Tracks' /\ ReadInv'
  BY <1>1, <1>2, ChosenStays, OpenInvStays, ResolveInvStep, TracksStep, ReadInvStays
<1>4. FileTracks'
  BY <1>1 DEF readVars, FileTracks, Closed
<1>. QED BY <1>1, <1>3, <1>4 DEF Inv

\* The four ways to open a file of the volume.
LEMMA OpenedFork ==
    ASSUME Inv, UNCHANGED <<openVars, resolveVars>>, OpenFile \/ OpenPacked \/ OpenTree \/ OpenDeleted
    PROVE  Inv' /\ Refines
<1>1. /\ vol # NotOpen /\ file = Closed /\ UNCHANGED <<openVars, resolveVars>>
      /\ Chosen /\ Given /\ OpenInv /\ ResolveInv /\ Tracks /\ ReadInv
  BY ChosenIsGiven DEF Inv, OpenFile, OpenPacked, OpenTree, OpenDeleted
<1>2. UNCHANGED <<image, config, vol, fork, cnid, result, out>>
  BY <1>1 DEF openVars, resolveVars
<1>3. Chosen' /\ OpenInv' /\ ResolveInv' /\ Tracks'
  BY <1>1, <1>2, ChosenStays, OpenInvStays, ResolveInvStays, TracksStay
<1>4. vol.blockSize \in Nat /\ vol.blockSize # 0
  BY <1>1, Geometry
<1>5. ASSUME NEW kind \in {"fork", "inline", "tree"}, NEW exts \in Lists, NEW size \in Nat,
             kind = "tree" => size = Spans(exts), kind = "inline" => exts = <<>>,
             OpenAs(kind, exts, size),
             kind = "fork" /\ fork.kind = "live" =>
                 result = "ok" /\ cnid = fork.cnid /\ exts = out /\ size = fork.size,
             fork.kind = "deleted" => kind = "fork" /\ size <= Spans(exts)
      PROVE  Inv' /\ Refines
  <2>1. ReadInv' /\ Abstract!Open
    BY <1>1, <1>2, <1>5, OpenAsStep
  <2>2. FileTracks'
    <3>1. /\ file'.kind = kind /\ file'.extents = exts /\ file'.size = size
          /\ file'.told = Addressable(exts)
      BY <1>5 DEF OpenAs
    <3>2. \A e : Addressable(e)' = Addressable(e) /\ Spans(e)' = Spans(e)
      BY <1>2 DEF Addressable, Spans, Span, BlockOffset
    <3>. QED BY <1>2, <1>5, <3>1, <3>2 DEF FileTracks
  <2>. QED BY <1>3, <2>1, <2>2 DEF Inv, Refines
<1>6. CASE OpenFile
  <2>1. fork.kind = "live" /\ result = "ok" /\ cnid = fork.cnid /\ OpenAs("fork", out, fork.size)
    BY <1>6 DEF OpenFile, OpenSize
  <2>2. fork.size \in Nat /\ out \in Lists
    BY <1>1, <2>1, Sizes DEF Given, ResolveInv, Filled
  <2>. QED BY <1>5, <2>1, <2>2
<1>7. CASE OpenPacked
  <2>1. fork.kind = "packed" /\ OpenAs("inline", <<>>, fork.size)
    BY <1>7 DEF OpenPacked
  <2>2. fork.size \in Nat /\ <<>> \in Lists
    BY <1>1, <2>1, Sizes, EmptyIsFilled DEF Given, Filled
  <2>. QED BY <1>5, <2>1, <2>2
<1>8. ASSUME NEW exts \in Lists PROVE Spans(exts) \in Nat
  BY <1>4, SpanFacts
<1>9. CASE OpenTree
  <2>. DEFINE exts == IF fork.kind = "overflow" THEN Compact(fork.inline) ELSE out
  <2>1. OpenAs("tree", exts, Spans(exts)) /\ fork.kind # "deleted"
    BY <1>9 DEF OpenTree
  <2>2. exts \in Lists
    BY <1>1, GivenFork, RecordShape DEF ResolveInv, Filled
  <2>. HIDE DEF exts
  <2>. QED BY <1>5, <1>8, <2>1, <2>2
<1>10. CASE OpenDeleted
  <2>. DEFINE exts == Compact(fork.inline)
              size == DeletedSize(fork.size, Spans(exts))
  <2>1. fork.kind = "deleted" /\ OpenAs("fork", exts, size)
    BY <1>10 DEF OpenDeleted
  <2>2. exts \in Lists
    BY <1>1, GivenFork, RecordShape DEF Filled
  <2>3. Spans(exts) \in Nat /\ fork.size \in Int
    BY <1>1, <1>8, <2>2 DEF Given
  <2>4. size \in Nat /\ size <= Spans(exts)
    <3>. HIDE DEF exts
    <3>. QED BY <2>3 DEF DeletedSize
  <2>. HIDE DEF exts, size
  <2>. QED BY <1>5, <2>1, <2>2, <2>4
<1>. QED BY <1>6, <1>7, <1>9, <1>10

LEMMA UseFileStep ==
    ASSUME Inv, UseFile
    PROVE  Inv' /\ Refines
<1>1. /\ ReadNext /\ UNCHANGED <<openVars, resolveVars>>
      /\ Chosen /\ Given /\ OpenInv /\ ResolveInv /\ Tracks /\ ReadInv /\ FileTracks
  BY ChosenIsGiven DEF UseFile, Inv
<1>2. UNCHANGED <<image, config, vol, fork, cnid, result, out>>
  BY <1>1 DEF openVars, resolveVars
<1>3. Chosen' /\ OpenInv' /\ ResolveInv' /\ Tracks'
  BY <1>1, <1>2, ChosenStays, OpenInvStays, ResolveInvStays, TracksStay
<1>4. UNCHANGED file
  BY <1>1 DEF ReadNext, Read, ReadAt, ReadAll, Start, ReadNode, ReadExtent, SkipExtent, EndRead
<1>5. ReadInv' /\ Refines
  <2>1. ASSUME NEW len \in 0..MaxLen, Read(len) PROVE ReadInv' /\ Refines
    <3>. DEFINE c == [kind |-> "Read", len |-> len, off |-> foff]
    <3>1. c.kind = "Read" /\ c.len \in Nat /\ c.off = foff /\ c.off \in Int /\ Start(c)
      BY <1>1, <2>1 DEF Read, ReadInv
    <3>. HIDE DEF c
    <3>. QED BY <1>1, <1>2, <3>1, StartStep
  <2>2. ASSUME NEW len \in 0..MaxLen, NEW off \in -1..MaxOffset, ReadAt(len, off) PROVE ReadInv' /\ Refines
    <3>. DEFINE c == [kind |-> "ReadAt", len |-> len, off |-> off]
    <3>1. c.kind = "ReadAt" /\ c.len \in Nat /\ c.off \in Int /\ Start(c)
      BY <2>2 DEF ReadAt
    <3>. HIDE DEF c
    <3>. QED BY <1>1, <1>2, <3>1, StartStep
  <2>3. CASE ReadAll
    BY <1>1, <1>2, <2>3, ReadAllStep
  <2>4. CASE ReadExtent
    BY <1>1, <1>2, <2>4, ReadExtentStep
  <2>5. CASE SkipExtent
    BY <1>1, <1>2, <2>5, SkipExtentStep
  <2>6. CASE EndRead
    BY <1>1, <1>2, <2>6, EndReadStep
  <2>7. ASSUME NEW num \in 0..(MaxOffset \div NodeSize), ReadNode(num) PROVE ReadInv' /\ Refines
    BY <1>1, <1>2, <2>7, ReadNodeStep
  <2>. QED BY <1>1, <2>1, <2>2, <2>3, <2>4, <2>5, <2>6, <2>7 DEF ReadNext
<1>6. FileTracks'
  BY <1>1, <1>2, <1>4, FileTracksStay
<1>. QED BY <1>3, <1>5, <1>6 DEF Inv

\* and every step keeps it, and is a step of ByteFile or leaves the file alone.
LEMMA InvStep == Inv /\ [Next]_vars => Inv' /\ (Refines \/ UNCHANGED readVars)
<1>. SUFFICES ASSUME Inv, [Next]_vars PROVE Inv' /\ (Refines \/ UNCHANGED readVars)
  OBVIOUS
<1>1. CASE OpenVolume
  BY <1>1, OpenVolumeStep
<1>2. CASE Resolve
  BY <1>2, ResolveStep
<1>3. CASE OpenFile \/ OpenPacked \/ OpenTree \/ OpenDeleted
  <2>1. UNCHANGED <<openVars, resolveVars>>
    BY <1>3 DEF OpenFile, OpenPacked, OpenTree, OpenDeleted
  <2>. QED BY <1>3, <2>1, OpenedFork
<1>4. CASE UseFile
  BY <1>4, UseFileStep
<1>5. CASE UNCHANGED vars
  <2>1. UNCHANGED openVars /\ UNCHANGED resolveVars /\ UNCHANGED readVars
    BY <1>5 DEF vars
  <2>2. UNCHANGED <<image, config, vol, fork, cnid, result, out, file>>
    BY <2>1 DEF openVars, resolveVars, readVars
  <2>. QED BY <2>1, <2>2, ChosenStays, OpenInvStays, ResolveInvStays, TracksStay, ReadInvStays, FileTracksStay DEF Inv
<1>. QED BY <1>1, <1>2, <1>3, <1>4, <1>5 DEF Next

\* ReadTypeOK, from what the calls know.
LEMMA ReadTypes ==
    ASSUME Inv
    PROVE  ReadTypeOK
<1>1. OpenInv /\ ReadInv
  BY DEF Inv
<1>2. file.size \in Nat /\ file.extents \in Lists /\ Len(file.extents) \in Nat
  BY <1>1, EmptyIsFilled, ExtentTypes DEF ReadInv, FileInv, Closed, Filled
<1>3. foff \in 0..Max({0, file.size})
  <2>1. Max({0, file.size}) = file.size
    BY <1>2, MaxOfTwo
  <2>. QED BY <1>1, <1>2, <2>1 DEF ReadInv
<1>4. idx \in 1..(Len(file.extents) + 1)
  BY <1>1, <1>2 DEF ReadInv, Progress
<1>5. file # Closed => logical = Before(file.extents, idx) * vol.blockSize
  <2>. SUFFICES ASSUME file # Closed PROVE logical = Before(file.extents, idx) * vol.blockSize
    OBVIOUS
  <2>1. logical = Ends(file.extents, idx - 1)
    <3>1. CASE call # Idle
      BY <1>1, <3>1 DEF ReadInv, Progress
    <3>2. CASE call = Idle
      <4>1. Ends(file.extents, 0) = 0
        BY <1>1, <1>2, Geometry, SpanFacts DEF ReadInv, FileInv
      <4>. QED BY <1>1, <3>2, <4>1 DEF ReadInv
    <3>. QED BY <3>1, <3>2
  <2>. QED BY <2>1 DEF Ends, Before
<1>. QED BY <1>1, <1>3, <1>4, <1>5 DEF ReadTypeOK, ReadInv, Progress, Asked

\* SoundForkExact, from what is known of the lists.
LEMMA SoundLists ==
    ASSUME Inv
    PROVE  SoundForkExact
<1>1. phase = "done" => result # "none"
  BY DEF Inv, ResolveInv
<1>. QED BY <1>1 DEF Inv, Tracks, Exact, SoundForkExact

\* WrittenBytesReported, from what is known of the volume, the list and the file.
LEMMA BytesReported ==
    ASSUME Inv
    PROVE  WrittenBytesReported
<1>1. Given /\ OpenInv /\ ReadInv /\ Tracks /\ FileTracks
  BY ChosenIsGiven DEF Inv
<1>2. ASSUME fork.sound, image.sound, config.base = image.start, file.kind = "fork", fork.kind = "live"
      PROVE  /\ content = Written
             /\ Slack(Reported) = Spans(file.extents) - fork.size
             /\ \A i \in DOMAIN Reported : Reported[i].slack >= 0
  <2>1. file # Closed
    BY <1>2 DEF Closed
  <2>2. /\ file.told = Addressable(file.extents) /\ result = "ok" /\ cnid = fork.cnid
        /\ file.extents = out /\ file.size = fork.size
    BY <1>1, <1>2, <2>1 DEF FileTracks
  <2>3. Exact(file.extents)
    BY <1>1, <1>2, <2>2 DEF Tracks
  <2>4. SoundFile
    BY <1>1, <1>2, <2>1, <2>2, <2>3 DEF SoundFile, ReadInv
  <2>5. content = Written
    BY <2>4, ContentWritten
  <2>6. /\ Slack(Reported) = Spans(file.extents) - file.size
        /\ \A i \in DOMAIN Reported : Reported[i].slack >= 0
    BY <2>4, SoundPlace, SlackOfRanges DEF Reported
  <2>. QED BY <2>2, <2>5, <2>6
<1>3. ASSUME fork.kind = "deleted", file.told PROVE Len(content) = file.size
  <2>1. CASE file = Closed
    BY <1>1, <2>1 DEF ReadInv, Closed
  <2>2. CASE file # Closed
    <3>1. file.kind = "fork" /\ file.size <= Spans(file.extents)
      BY <1>1, <1>3, <2>2 DEF FileTracks
    <3>2. Data
      BY <1>1, <1>3, <2>2, <3>1 DEF ReadInv, FileInv
    <3>. QED BY <3>1, <3>2 DEF Data, Reach
  <2>. QED BY <2>1, <2>2
<1>. QED BY <1>2, <1>3 DEF WrittenBytesReported

\* The types of the volume, the list and the calls, in every state.
THEOREM ForkTypes == Spec => []TypeOK
<1>1. Inv => TypeOK
  <2>1. Inv => ResolveTypeOK /\ ReadTypeOK
    BY ChosenIsGiven, ResolveTypes, ReadTypes DEF Inv
  <2>. QED BY <2>1 DEF Inv, OpenInv, OpenedAt, FileTracks, TypeOK
<1>. QED BY <1>1, InvInit, InvStep, PTL DEF Spec

\* Whatever the records hold and however counts wrap, a list that is returned
\* covers TotalBlocks exactly (extents.go:120-159).
THEOREM ListsCoverTheFork == Spec => []CoversTotal
<1>1. Inv => CoversTotal
  BY DEF Inv, ResolveInv
<1>. QED BY <1>1, InvInit, InvStep, PTL DEF Spec

\* A sound fork, however fragmented and wherever its records split, comes back as
\* the blocks it was written to, in order (extents.go:120-159).
THEOREM SoundForksAreExact == Spec => []SoundForkExact
<1>. QED BY SoundLists, InvInit, InvStep, PTL DEF Spec

\* From the image to the ranges: what is reported as data is the bytes that were
\* written, in order, and the rest of the extents is slack; a recovered file is no
\* longer than its extents (hfs.go:237-295, extents.go:120-159, ranges.go:89-148).
THEOREM WhatWasWrittenIsReported == Spec => []WrittenBytesReported
<1>. QED BY BytesReported, InvInit, InvStep, PTL DEF Spec

\* Block 0, the name and the bitmap of an open volume come out where the volume was
\* put, wrapped or not, at whatever offset (hfs.go:248-295, volume.go:114-147).
THEOREM VolumesArePlaced == Spec => []VolumePlaced
<1>1. Inv => VolumePlaced
  BY DEF Inv, OpenInv
<1>. QED BY <1>1, InvInit, InvStep, PTL DEF Spec

\* A failed open calls only bad evidence corrupt, and names the place
\* (hfs.go:297-319, volume.go:332-353).
THEOREM ErrorsTell == Spec => []OpenErrorsTell
<1>1. Inv => OpenErrorsTell
  BY DEF Inv, OpenInv
<1>. QED BY <1>1, InvInit, InvStep, PTL DEF Spec

\* Read, ReadAt, ReadAll and the reading of nodes implement a file of the bytes that
\* the ranges report, whatever fails and in whatever order calls come (file.go:46-164).
THEOREM ForksReadAsFiles == Spec => ReadsAFile
<1>1. Init => Abstract!Init
  BY DEF Init, ReadInit, Nothing, Abstract!Init
<1>2. Inv /\ [Next]_vars => [Abstract!Next]_<<content, file.told, foff, ret>>
  <2>. SUFFICES ASSUME Inv, [Next]_vars PROVE [Abstract!Next]_<<content, file.told, foff, ret>>
    OBVIOUS
  <2>1. Refines \/ UNCHANGED readVars
    BY InvStep
  <2>. QED BY <2>1 DEF Refines, readVars, Abstract!Next
<1>. QED BY <1>1, <1>2, InvInit, InvStep, PTL DEF Spec, ReadsAFile, Abstract!Spec
=============================================================================
