--------------------------- MODULE PathWalkProofs ---------------------------
(***************************************************************************)
(* Path walks and reports, for every volume, every bound of the memo, every*)
(* callback and every pattern of failing reads: a path reported is one the  *)
(* volume supports; where threads and records tell the same it is the one  *)
(* of PathForCNID; with a memo that evicts nothing, what is inside a folder*)
(* is reported below it; a report lists exactly the files asked for and    *)
(* announces every orphan; and a climb passes no node twice.               *)
(*                                                                         *)
(* Paths, climbs and sweeps are recursive functions of sequences.  What    *)
(* they compute is unfolded with RecursionExists, and inductions over them *)
(* take a least element (Least).                                           *)
(***************************************************************************)
EXTENDS Report, FiniteSetTheorems, SequenceTheorems, WellFoundedInduction, TLAPS

LEMMA Least ==
    ASSUME NEW T \in SUBSET Nat, T # {}
    PROVE  \E x \in T : \A y \in T : x <= y
<1>1. PICK x \in T : \A y \in T : ~ (<<y, x>> \in OpToRel(<,Nat))
  BY NatLessThanWellFounded, WFMin
<1>2. ASSUME NEW y \in T, y < x PROVE FALSE
  <2>1. <<y, x>> \in OpToRel(<,Nat)
    BY <1>2 DEF OpToRel
  <2>. QED BY <1>1, <2>1
<1>. QED BY <1>2

\* What a recursive definition with these steps defines.
Unfolds(f, n, base, step) == f[0] = base /\ \A i \in 1..n : f[i] = step[i][f[i-1]]

\* There is such a function.
LEMMA RecursionExists ==
    ASSUME NEW n \in Nat, NEW S, NEW base \in S, NEW step \in [1..n -> [S -> S]]
    PROVE  \E f \in [0..n -> S] : Unfolds(f, n, base, step)
<1>. DEFINE Good(k) == \E f \in [0..k -> S] : Unfolds(f, k, base, step)
            T == {k \in 0..n : ~Good(k)}
<1>. SUFFICES ASSUME T # {} PROVE FALSE
  <2>. HIDE DEF Good
  <2>1. n \in 0..n /\ n \notin T => Good(n)
    OBVIOUS
  <2>. QED BY <2>1 DEF Good
<1>1. PICK k \in T : \A y \in T : k <= y
  <2>. HIDE DEF Good
  <2>1. T \in SUBSET Nat
    OBVIOUS
  <2>. QED BY <2>1, Least
<1>2. k # 0
  <2>1. [i \in 0..0 |-> base] \in [0..0 -> S] /\ Unfolds([i \in 0..0 |-> base], 0, base, step)
    BY DEF Unfolds
  <2>2. Good(0)
    BY <2>1
  <2>. HIDE DEF Good
  <2>. QED BY <1>1, <2>2
<1>3. k \in 1..n /\ Good(k - 1)
  <2>. HIDE DEF Good
  <2>1. k \in 0..n /\ k - 1 \in 0..n
    BY <1>1, <1>2
  <2>2. k - 1 \notin T
    BY <1>1, <2>1
  <2>. QED BY <1>2, <2>1, <2>2
<1>4. PICK f \in [0..(k-1) -> S] : Unfolds(f, k - 1, base, step)
  BY <1>3
<1>. DEFINE x == step[k][f[k-1]]
            g == [i \in 0..k |-> IF i = k THEN x ELSE f[i]]
<1>5. f[k-1] \in S /\ x \in S
  <2>1. f[k-1] \in S
    BY <1>3
  <2>. QED BY <1>3, <2>1
<1>6. g \in [0..k -> S]
  BY <1>3, <1>5
<1>7. Unfolds(g, k, base, step)
  <2>1. g[0] = base
    BY <1>3, <1>4 DEF Unfolds
  <2>2. ASSUME NEW i \in 1..k PROVE g[i] = step[i][g[i-1]]
    <3>1. CASE i = k
      <4>1. g[i-1] = f[k-1]
        BY <1>3, <3>1
      <4>. QED BY <1>3, <3>1, <4>1
    <3>2. CASE i # k
      <4>1. i \in 1..k-1 /\ g[i] = f[i] /\ g[i-1] = f[i-1]
        BY <1>3, <3>2
      <4>. QED BY <1>4, <4>1 DEF Unfolds
    <3>. QED BY <3>1, <3>2
  <2>. QED BY <2>1, <2>2 DEF Unfolds
<1>8. Good(k)
  BY <1>6, <1>7
<1>. HIDE DEF Good
<1>. QED BY <1>1, <1>8

\* f and g unfold alike, up to n; they are alike, up to n.
UnfoldAlike(f, g, n) == f[0] = g[0] /\ \A i \in 1..n : f[i-1] = g[i-1] => f[i] = g[i]
Alike(f, g, n)       == \A i \in 0..n : f[i] = g[i]

\* Two definitions that unfold alike up to some point agree up to it.
LEMMA RecursionUnique ==
    ASSUME NEW n \in Nat, NEW f, NEW g, UnfoldAlike(f, g, n)
    PROVE  Alike(f, g, n)
<1>. DEFINE T == {i \in 0..n : f[i] # g[i]}
<1>. SUFFICES ASSUME T # {} PROVE FALSE
  BY DEF Alike
<1>1. PICK k \in T : \A y \in T : k <= y
  <2>1. T \in SUBSET Nat
    OBVIOUS
  <2>. QED BY <2>1, Least
<1>2. k \in 1..n /\ k - 1 \in 0..n /\ k - 1 \notin T
  BY <1>1 DEF UnfoldAlike
<1>. QED BY <1>1, <1>2 DEF UnfoldAlike

---------------------------------------------------------------------------
(* The ends of a path. *)

\* The nodes one name further down than those of a set.
Below(at, name) == {c \in Cnids : \E l \in Says(c) : l.parent \in at /\ l.name = name}

LEMMA EndsUnfold ==
    ASSUME NEW p \in Seq(Names)
    PROVE  \E u : /\ u[0] = {Root} /\ \A i \in 1..Len(p) : u[i] = Below(u[i-1], p[i])
                  /\ Ends(p) = u[Len(p)]
<1>. DEFINE n == Len(p)
            F(f) == [i \in 0..n |-> IF i = 0 THEN {Root}
                       ELSE {c \in Cnids : \E l \in Says(c) : l.parent \in f[i-1] /\ l.name = p[i]}]
            step == [i \in 1..n |-> [at \in SUBSET Cnids |-> Below(at, p[i])]]
<1>1. n \in Nat
  OBVIOUS
<1>. HIDE DEF n
<1>2. step \in [1..n -> [SUBSET Cnids -> SUBSET Cnids]] /\ {Root} \in SUBSET Cnids
  BY PathWalkAssumption DEF Below
<1>3. PICK f \in [0..n -> SUBSET Cnids] : Unfolds(f, n, {Root}, step)
  <2>. HIDE DEF step
  <2>. QED BY <1>1, <1>2, RecursionExists
<1>4. f[0] = {Root} /\ \A i \in 1..n : f[i] = Below(f[i-1], p[i])
  <2>1. ASSUME NEW i \in 1..n PROVE step[i][f[i-1]] = Below(f[i-1], p[i])
    <3>1. f[i-1] \in SUBSET Cnids
      BY <1>1
    <3>. QED BY <3>1
  <2>. QED BY <1>3, <2>1 DEF Unfolds
<1>5. f = F(f)
  <2>1. \A i \in 0..n : f[i] = IF i = 0 THEN {Root}
                               ELSE {c \in Cnids : \E l \in Says(c) : l.parent \in f[i-1] /\ l.name = p[i]}
    <3>1. \A i \in 0..n : i = 0 \/ i \in 1..n
      BY <1>1
    <3>. QED BY <1>4, <3>1 DEF Below
  <2>2. f = [i \in 0..n |-> f[i]]
    BY <1>3
  <2>. QED BY <2>1, <2>2
<1>. DEFINE u == CHOOSE g : g = F(g)
<1>6. u = F(u)
  <2>. HIDE DEF F
  <2>. QED BY <1>5
<1>7. Ends(p) = u[n]
  BY DEF Ends, n
<1>. HIDE DEF u
<1>8. \A i \in 0..n : u[i] = IF i = 0 THEN {Root} ELSE Below(u[i-1], p[i])
  <2>1. \A i \in 0..n : F(u)[i] = IF i = 0 THEN {Root} ELSE Below(u[i-1], p[i])
    BY DEF Below
  <2>. HIDE DEF F
  <2>. QED BY <1>6, <2>1
<1>9. u[0] = {Root} /\ \A i \in 1..n : u[i] = Below(u[i-1], p[i])
  <2>1. 0 \in 0..n /\ \A i \in 1..n : i \in 0..n /\ i # 0
    BY <1>1
  <2>. QED BY <1>8, <2>1
<1>. QED BY <1>7, <1>9 DEF n

LEMMA EndsOfEmpty == Ends(<<>>) = {Root}
<1>1. <<>> \in Seq(Names) /\ Len(<<>>) = 0
  OBVIOUS
<1>. QED BY <1>1, EndsUnfold

LEMMA EndsOfAppend ==
    ASSUME NEW p \in Seq(Names), NEW name \in Names
    PROVE  Ends(Append(p, name)) = Below(Ends(p), name)
<1>. DEFINE q == Append(p, name)
            n == Len(p)
<1>1. /\ q \in Seq(Names) /\ n \in Nat /\ Len(q) = n + 1 /\ q[n + 1] = name
      /\ \A i \in 1..n : q[i] = p[i]
  OBVIOUS
<1>. HIDE DEF q, n
<1>2. PICK u : /\ u[0] = {Root} /\ \A i \in 1..n : u[i] = Below(u[i-1], p[i])
               /\ Ends(p) = u[n]
  BY EndsUnfold DEF n
<1>3. PICK w : /\ w[0] = {Root} /\ \A i \in 1..(n + 1) : w[i] = Below(w[i-1], q[i])
               /\ Ends(q) = w[n + 1]
  <2>. QED BY <1>1, EndsUnfold
<1>4. \A i \in 1..n : u[i-1] = w[i-1] => u[i] = w[i]
  <2>1. \A i \in 1..n : i \in 1..(n + 1)
    BY <1>1
  <2>. QED BY <1>1, <1>2, <1>3, <2>1
<1>5. \A i \in 0..n : u[i] = w[i]
  <2>1. u[0] = w[0] /\ n \in Nat
    BY <1>1, <1>2, <1>3
  <2>2. UnfoldAlike(u, w, n)
    BY ONLY <2>1, <1>4 DEF UnfoldAlike
  <2>3. Alike(u, w, n)
    BY ONLY <2>2, <2>1, RecursionUnique
  <2>. QED BY ONLY <2>3 DEF Alike
<1>6. n + 1 \in 1..(n + 1) /\ n \in 0..n /\ (n + 1) - 1 = n
  BY <1>1
<1>. QED BY <1>1, <1>2, <1>3, <1>5, <1>6 DEF q

---------------------------------------------------------------------------
(* The path of a node passed. *)

LEMMA PathAtTop ==
    ASSUME names \in Seq(Names), NEW base \in Seq(Names)
    PROVE  PathAt(base, Len(names) + 1) = base
<1>. DEFINE s == SubSeq(names, Len(names) + 1, Len(names))
<1>1. s = <<>>
  <2>1. Len(names) \in Int /\ Len(names) + 1 \in Int /\ Len(names) < Len(names) + 1
    OBVIOUS
  <2>. QED BY <2>1, SubSeqEmpty
<1>2. Reverse(<<>>) = <<>>
  BY DEF Reverse
<1>3. base \o <<>> = base
  OBVIOUS
<1>. QED BY <1>1, <1>2, <1>3 DEF PathAt

LEMMA PathAtUnfolds ==
    ASSUME names \in Seq(Names), NEW base \in Seq(Names), NEW i \in 1..Len(names)
    PROVE  /\ PathAt(base, i) \in Seq(Names) /\ names[i] \in Names
           /\ PathAt(base, i) = Append(PathAt(base, i + 1), names[i])
<1>. DEFINE n == Len(names)
            s == SubSeq(names, i, n)
            t == SubSeq(names, i + 1, n)
<1>1. n \in Nat /\ i \in 1..n /\ \A k \in 1..n : names[k] \in Names
  OBVIOUS
<1>2. s \in Seq(Names) /\ Len(s) = n - i + 1 /\ \A k \in 1..(n - i + 1) : s[k] = names[i + k - 1]
  <2>1. \A k \in i..n : names[k] \in Names
    BY <1>1
  <2>. HIDE DEF n
  <2>. QED BY <1>1, <2>1, SubSeqProperties
<1>3. t \in Seq(Names) /\ Len(t) = n - i /\ \A k \in 1..(n - i) : t[k] = names[i + k]
  <2>. DEFINE m == i + 1
  <2>1. m \in Int /\ n \in Int /\ \A k \in m..n : names[k] \in Names
    BY <1>1
  <2>. HIDE DEF n, m
  <2>2. /\ SubSeq(names, m, n) \in Seq(Names)
        /\ Len(SubSeq(names, m, n)) = IF m <= n THEN n - m + 1 ELSE 0
        /\ \A k \in 1..(n - m + 1) : SubSeq(names, m, n)[k] = names[m + k - 1]
    BY <2>1, SubSeqProperties
  <2>3. n - m + 1 = n - i /\ \A k \in 1..(n - i) : m + k - 1 = i + k
    BY <1>1 DEF m
  <2>4. m > n => n - i = 0
    BY <1>1 DEF m
  <2>5. m <= n \/ m > n
    BY <2>1
  <2>6. t = SubSeq(names, m, n)
    BY DEF m
  <2>. HIDE DEF t
  <2>. QED BY <2>1, <2>2, <2>3, <2>4, <2>5, <2>6
<1>. HIDE DEF s, t, n
<1>4. /\ Reverse(s) \in Seq(Names) /\ Len(Reverse(s)) = n - i + 1
      /\ \A k \in 1..(n - i + 1) : Reverse(s)[k] = s[(n - i + 1) - k + 1]
  <2>1. \A k \in 1..(n - i + 1) : (n - i + 1) - k + 1 \in 1..(n - i + 1)
    BY <1>1
  <2>2. Reverse(s) = [k \in 1..(n - i + 1) |-> s[(n - i + 1) - k + 1]]
    BY <1>2 DEF Reverse
  <2>3. \A k \in 1..(n - i + 1) : s[k] \in Names
    BY <1>2
  <2>4. n - i + 1 \in Nat
    BY <1>1
  <2>5. \A k \in 1..(n - i + 1) : s[(n - i + 1) - k + 1] \in Names
    BY <2>1, <2>3
  <2>6. [k \in 1..(n - i + 1) |-> s[(n - i + 1) - k + 1]] \in Seq(Names)
        /\ Len([k \in 1..(n - i + 1) |-> s[(n - i + 1) - k + 1]]) = n - i + 1
    BY <2>4, <2>5
  <2>. QED BY <2>2, <2>6
<1>5. /\ Reverse(t) \in Seq(Names) /\ Len(Reverse(t)) = n - i
      /\ \A k \in 1..(n - i) : Reverse(t)[k] = t[(n - i) - k + 1]
  <2>1. \A k \in 1..(n - i) : (n - i) - k + 1 \in 1..(n - i)
    BY <1>1
  <2>2. Reverse(t) = [k \in 1..(n - i) |-> t[(n - i) - k + 1]]
    BY <1>3 DEF Reverse
  <2>3. \A k \in 1..(n - i) : t[k] \in Names
    BY <1>3
  <2>4. n - i \in Nat
    BY <1>1
  <2>5. \A k \in 1..(n - i) : t[(n - i) - k + 1] \in Names
    BY <2>1, <2>3
  <2>6. [k \in 1..(n - i) |-> t[(n - i) - k + 1]] \in Seq(Names)
        /\ Len([k \in 1..(n - i) |-> t[(n - i) - k + 1]]) = n - i
    BY <2>4, <2>5
  <2>. QED BY <2>2, <2>6
<1>6. Reverse(s) = Append(Reverse(t), names[i])
  <2>. DEFINE r == Append(Reverse(t), names[i])
  <2>1. /\ r \in Seq(Names) /\ Len(r) = n - i + 1 /\ r[n - i + 1] = names[i]
        /\ \A k \in 1..(n - i) : r[k] = Reverse(t)[k]
    BY <1>1, <1>5
  <2>2. ASSUME NEW k \in 1..(n - i + 1) PROVE Reverse(s)[k] = r[k]
    <3>1. CASE k = n - i + 1
      <4>1. (n - i + 1) - k + 1 = 1 /\ 1 \in 1..(n - i + 1) /\ i + 1 - 1 = i
        BY <1>1, <3>1
      <4>2. Reverse(s)[k] = s[(n - i + 1) - k + 1]
        BY <1>4
      <4>3. s[1] = names[i + 1 - 1]
        BY <1>2, <4>1
      <4>. HIDE DEF r
      <4>. QED BY <2>1, <3>1, <4>1, <4>2, <4>3
    <3>2. CASE k # n - i + 1
      <4>1. k \in 1..(n - i)
        BY <1>1, <3>2
      <4>2. (n - i + 1) - k + 1 \in 1..(n - i + 1) /\ (n - i) - k + 1 \in 1..(n - i)
            /\ i + ((n - i + 1) - k + 1) - 1 = i + ((n - i) - k + 1)
        BY <1>1, <4>1
      <4>3. Reverse(s)[k] = s[(n - i + 1) - k + 1] /\ Reverse(t)[k] = t[(n - i) - k + 1]
        BY <1>4, <1>5, <4>1
      <4>4. s[(n - i + 1) - k + 1] = names[i + ((n - i + 1) - k + 1) - 1]
        BY <1>2, <4>2
      <4>5. t[(n - i) - k + 1] = names[i + ((n - i) - k + 1)]
        BY <1>3, <4>2
      <4>. HIDE DEF r
      <4>. QED BY <2>1, <4>1, <4>2, <4>3, <4>4, <4>5
    <3>. QED BY <3>1, <3>2
  <2>. HIDE DEF r
  <2>3. Len(Reverse(s)) = Len(r)
    BY <1>4, <2>1
  <2>4. Reverse(s) = r
    BY <1>4, <2>1, <2>2, <2>3, SeqEqual
  <2>. QED BY <2>4 DEF r
<1>7. base \o Reverse(s) = Append(base \o Reverse(t), names[i])
  <2>. DEFINE w == Reverse(t)
              x == names[i]
  <2>1. w \in Seq(Names) /\ x \in Names
    BY <1>1, <1>5
  <2>. HIDE DEF w, x
  <2>2. base \o Append(w, x) = Append(base \o w, x)
    BY <2>1
  <2>. QED BY <1>6, <2>2 DEF w, x
<1>8. base \o Reverse(s) \in Seq(Names)
  BY <1>4
<1>9. PathAt(base, i) = base \o Reverse(s) /\ PathAt(base, i + 1) = base \o Reverse(t)
  BY DEF PathAt, s, t, n
<1>. QED BY <1>1, <1>7, <1>8, <1>9

LEMMA PathAtTypes ==
    ASSUME names \in Seq(Names), NEW base \in Seq(Names), NEW i \in 1..(Len(names) + 1)
    PROVE  PathAt(base, i) \in Seq(Names)
<1>1. CASE i \in 1..Len(names)
  BY <1>1, PathAtUnfolds
<1>2. CASE i = Len(names) + 1
  BY <1>2, PathAtTop
<1>. QED BY <1>1, <1>2

---------------------------------------------------------------------------
(* The memo. *)

Paths == Seq(Names) \union {NoPath}

Memos == [map : [Cnids -> Paths \union {Absent}], order : Seq(Cnids), max : Nat \ {0}]

\* What the memo is given it holds, and of the rest it keeps or evicts.
LEMMA PutKeeps ==
    ASSUME NEW m \in Memos, NEW c \in Cnids, NEW p \in Paths
    PROVE  LET t == PutPath(m, c, p)
           IN  /\ t \in Memos /\ t.map[c] = p /\ t.max = m.max
               /\ \A k \in Cnids \ {c} : t.map[k] \in {m.map[k], Absent}
<1>. DEFINE t == PutPath(m, c, p)
<1>1. m.map \in [Cnids -> Paths \union {Absent}] /\ m.order \in Seq(Cnids) /\ m.max \in Nat \ {0}
  BY DEF Memos
<1>2. CASE Holds(m, c)
  <2>1. t = [map |-> [m.map EXCEPT ![c] = p], order |-> m.order, max |-> m.max]
    BY <1>1, <1>2 DEF PutPath, Store
  <2>. QED BY <1>1, <2>1 DEF Memos
<1>3. CASE ~Holds(m, c)
  <2>. DEFINE r == Trim(m, m.max - 1)
  <2>1. r.map \in [Cnids -> Paths \union {Absent}] /\ \A k \in Cnids : r.map[k] \in {m.map[k], Absent}
    BY <1>1 DEF Trim
  <2>2. r.order \in Seq(Cnids)
    <3>1. r.order = Newest(m.order, m.max - 1)
      BY DEF Trim
    <3>2. CASE Len(m.order) <= m.max - 1
      BY <1>1, <3>1, <3>2 DEF Newest
    <3>3. CASE Len(m.order) > m.max - 1
      <4>1. r.order = [i \in 1..(m.max - 1) |-> m.order[Len(m.order) - (m.max - 1) + i]]
        BY <1>1, <3>1, <3>3 DEF Newest
      <4>2. m.max - 1 \in Nat /\ Len(m.order) \in Nat
        BY <1>1
      <4>3. \A i \in 1..(m.max - 1) : Len(m.order) - (m.max - 1) + i \in 1..Len(m.order)
        BY <3>3, <4>2
      <4>4. \A i \in 1..(m.max - 1) : m.order[Len(m.order) - (m.max - 1) + i] \in Cnids
        BY <1>1, <4>3
      <4>. QED BY <4>1, <4>2, <4>4
    <3>. QED BY <1>1, <3>2, <3>3
  <2>3. t = [map |-> [r.map EXCEPT ![c] = p], order |-> Append(r.order, c), max |-> m.max]
    BY <1>1, <1>3 DEF PutPath, Store, Insert
  <2>. HIDE DEF r
  <2>. QED BY <1>1, <2>1, <2>2, <2>3 DEF Memos
<1>. QED BY <1>2, <1>3

---------------------------------------------------------------------------
(* What a walk knows. *)

LEMMA Appended ==
    ASSUME NEW S, NEW s \in Seq(S), NEW x \in S
    PROVE  /\ Append(s, x) \in Seq(S) /\ Len(Append(s, x)) = Len(s) + 1 /\ Append(s, x)[Len(s) + 1] = x
           /\ \A j \in 1..Len(s) : Append(s, x)[j] = s[j]
           /\ s \o << x >> = Append(s, x) /\ Len(s) \in Nat /\ \A j \in 1..Len(s) : s[j] \in S
OBVIOUS

LEMMA ReverseOf ==
    ASSUME NEW S, NEW s \in Seq(S)
    PROVE  /\ Reverse(s) \in Seq(S) /\ Len(Reverse(s)) = Len(s)
           /\ \A i \in 1..Len(s) : Len(s) - i + 1 \in 1..Len(s) /\ Reverse(s)[i] = s[Len(s) - i + 1]
<1>. DEFINE n == Len(s)
<1>1. n \in Nat /\ \A i \in 1..n : s[i] \in S
  OBVIOUS
<1>2. Reverse(s) = [i \in 1..n |-> s[(n - i) + 1]]
  BY DEF Reverse
<1>. HIDE DEF n
<1>3. \A i \in 1..n : n - i + 1 \in 1..n
  BY <1>1
<1>4. \A i \in 1..n : s[n - i + 1] \in S
  BY <1>1, <1>3
<1>5. [i \in 1..n |-> s[(n - i) + 1]] \in Seq(S) /\ Len([i \in 1..n |-> s[(n - i) + 1]]) = n
  BY <1>1, <1>4
<1>. QED BY <1>2, <1>3, <1>5 DEF n

\* Where a climb went from its i-th node.
From(i) == IF i = Len(chain) THEN cur ELSE chain[i+1]

Climbing ==
    /\ names \in Seq(Names) /\ chain \in Seq(Cnids) /\ Len(names) = Len(chain)
    /\ \A i \in 1..Len(chain) : /\ chain[i] # Root /\ names[i] # NoName
                                /\ [parent |-> From(i), name |-> names[i]] \in Says(chain[i])
    /\ phase = "climb" => vol.records[rec].parent = IF chain = <<>> THEN cur ELSE chain[1]
    /\ phase # "climb" => chain = <<>> /\ names = <<>>

WalkTypes ==
    /\ vol \in Volumes /\ memo \in Memos /\ cur \in Cnids
    /\ phase \in {"record", "climb", "keep", "done"} /\ next \in Nat \ {0}
    /\ phase \in {"climb", "keep"} => /\ next \in 1..Len(vol.order) /\ rec = vol.order[next]
                                      /\ rec \in DOMAIN vol.records \ {Root}
                                      /\ vol.records[rec].name # NoName
    /\ puts \in Seq(Cnids \X Paths) /\ path \in Paths
    /\ emitted \in Seq([cnid : Cnids, path : Paths])

\* A path of c is one the volume supports, or none.
Supported(c, p) == p # NoPath => c \in Ends(p)

PathsSupported ==
    /\ \A c \in Cnids : memo.map[c] # Absent => Supported(c, memo.map[c])
    /\ \A i \in 1..Len(puts) : Supported(puts[i][1], puts[i][2])
    /\ phase = "keep" => Supported(rec, path)
    /\ \A i \in 1..Len(emitted) : Supported(emitted[i].cnid, emitted[i].path)

LEMMA VolumeFacts ==
    ASSUME vol \in Volumes
    PROVE  /\ DOMAIN vol.records \subseteq Cnids /\ DOMAIN vol.threads \subseteq Cnids
           /\ \A c \in DOMAIN vol.records \ {Root} : vol.records[c] \in [parent : Cnids, name : Names]
           /\ \A c \in DOMAIN vol.threads : vol.threads[c] \in [parent : Cnids, name : Names]
           /\ vol.folders \subseteq DOMAIN vol.records /\ IsInjective(vol.order)
           /\ vol.order \in Seq(Cnids) /\ Len(vol.order) \in Nat
           /\ DOMAIN vol.records \subseteq ToSet(vol.order)
BY PathWalkAssumption DEF IsVolume

LEMMA Markers ==
    /\ NoPath \notin Seq(Names) /\ Absent \notin Paths /\ Root \in Cnids
    /\ <<>> \in Seq(Names) /\ <<>> \in Paths /\ NoPath \in Paths /\ <<>> # NoPath
<1>1. <<>> \in Seq(Names)
  OBVIOUS
<1>. QED BY <1>1, PathWalkAssumption DEF Paths

\* How an iteration of the climb ends it, or goes on.
AtBase(base) ==
    /\ base \in Seq(Names) /\ Resolve(base)
    /\ \/ cur = Root /\ base = <<>>
       \/ cur # Root /\ memo.map[cur] = base

PassedBy(link) ==
    /\ cur # Root /\ ~Holds(memo, cur) /\ ~Looped
    /\ \/ cur \in DOMAIN vol.threads /\ link = vol.threads[cur]
       \/ cur \notin DOMAIN vol.threads /\ chain = <<>> /\ cur \in DOMAIN vol.records /\ link = vol.records[cur]

Passes(link) ==
    /\ PassedBy(link) /\ link.name # NoName
    /\ names' = Append(names, link.name) /\ chain' = Append(chain, cur) /\ cur' = link.parent
    /\ UNCHANGED <<memo, phase, next, rec, kept, emitted, outcome, faults>>

\* Why a climb fails.
Fails ==
    /\ cur # Root /\ FailPath
    /\ \/ Holds(memo, cur) /\ memo.map[cur] = NoPath /\ UNCHANGED faults
       \/ ~Holds(memo, cur) /\ Looped /\ UNCHANGED faults
       \/ ~Holds(memo, cur) /\ ReadFails
       \/ ~Holds(memo, cur) /\ (\E link : PassedBy(link) /\ link.name = NoName) /\ UNCHANGED faults
       \/ ~Holds(memo, cur) /\ cur \notin DOMAIN vol.threads
          /\ ~(chain = <<>> /\ cur \in DOMAIN vol.records) /\ UNCHANGED faults

LEMMA ClimbCases ==
    ASSUME WalkTypes, Climb
    PROVE  /\ phase = "climb" /\ UNCHANGED <<vol, anomalies>>
           /\ \/ \E base : AtBase(base) /\ UNCHANGED faults
              \/ Fails
              \/ \E link : Passes(link)
<1>1. phase = "climb" /\ UNCHANGED <<vol, anomalies>>
  BY DEF Climb
<1>2. memo.map \in [Cnids -> Paths \union {Absent}] /\ cur \in Cnids
  BY DEF WalkTypes, Memos
<1>3. CASE cur = Root /\ Resolve(<<>>) /\ UNCHANGED faults
  BY <1>1, <1>3, Markers DEF AtBase
<1>4. CASE Remembered /\ memo.map[cur] # NoPath /\ Resolve(memo.map[cur]) /\ UNCHANGED faults
  <2>1. memo.map[cur] \in Seq(Names)
    BY <1>2, <1>4 DEF Paths, Remembered, Holds
  <2>. QED BY <1>1, <1>4, <2>1 DEF AtBase, Remembered
<1>5. CASE Remembered /\ memo.map[cur] = NoPath /\ FailPath /\ UNCHANGED faults
  BY <1>1, <1>5 DEF Fails, Remembered
<1>6. CASE cur # Root /\ ~Remembered /\ Looped /\ FailPath /\ UNCHANGED faults
  BY <1>1, <1>6 DEF Fails, Remembered
<1>7. CASE cur # Root /\ ~Remembered /\ ~Looped /\ ReadFails /\ FailPath
  BY <1>1, <1>7 DEF Fails, Remembered
<1>8. CASE cur # Root /\ ~Remembered /\ ~Looped /\ Up /\ UNCHANGED faults
  <2>1. ASSUME NEW link, PassedBy(link), Pass(link)
        PROVE  Fails \/ Passes(link)
    BY <1>8, <2>1 DEF Pass, Fails, Passes, PassedBy, kept, Remembered
  <2>2. CASE cur \in DOMAIN vol.threads /\ Pass(vol.threads[cur])
    <3>1. PassedBy(vol.threads[cur])
      BY <1>8, <2>2 DEF PassedBy, Remembered
    <3>. QED BY <1>1, <2>1, <2>2, <3>1
  <2>3. CASE cur \notin DOMAIN vol.threads /\ ByRecord /\ Pass(vol.records[cur])
    <3>1. PassedBy(vol.records[cur])
      BY <1>8, <2>3 DEF PassedBy, Remembered, ByRecord
    <3>. QED BY <1>1, <2>1, <2>3, <3>1
  <2>4. CASE cur \notin DOMAIN vol.threads /\ ~ByRecord /\ FailPath
    BY <1>1, <1>8, <2>4 DEF Fails, Remembered, ByRecord
  <2>. QED BY <1>8, <2>2, <2>3, <2>4 DEF Up
<1>. QED BY <1>3, <1>4, <1>5, <1>6, <1>7, <1>8 DEF Climb

\* What a link says: it is the volume's, and a node and a name.
LEMMA LinkSaid ==
    ASSUME WalkTypes, NEW link, PassedBy(link)
    PROVE  /\ link \in Says(cur) /\ link.parent \in Cnids /\ link.name \in Names
           /\ link = [parent |-> link.parent, name |-> link.name] /\ cur \notin ToSet(chain)
<1>1. link \in [parent : Cnids, name : Names]
  BY VolumeFacts DEF WalkTypes, PassedBy
<1>2. link \in Says(cur)
  BY DEF PassedBy, Says
<1>. QED BY <1>1, <1>2 DEF PassedBy, Looped

\* A node passed is one more in the climb.
LEMMA PassesClimbs ==
    ASSUME WalkTypes, Climbing, NEW link, Passes(link), UNCHANGED vol, phase = "climb"
    PROVE  WalkTypes' /\ Climbing'
<1>. DEFINE n == Len(chain)
<1>1. /\ link \in Says(cur) /\ link.parent \in Cnids /\ link.name \in Names
      /\ link = [parent |-> link.parent, name |-> link.name]
  BY LinkSaid DEF Passes
<1>2. WalkTypes'
  BY <1>1 DEF WalkTypes, Passes, kept
<1>3. /\ names \in Seq(Names) /\ chain \in Seq(Cnids) /\ Len(names) = n /\ n \in Nat /\ cur \in Cnids
  BY DEF Climbing, WalkTypes
<1>4. /\ names' = Append(names, link.name) /\ chain' = Append(chain, cur) /\ cur' = link.parent
      /\ cur # Root /\ phase' = "climb" /\ link.name # NoName
  BY DEF Passes, PassedBy
<1>5. /\ names' \in Seq(Names) /\ Len(names') = n + 1 /\ names'[n+1] = link.name
      /\ \A i \in 1..n : names'[i] = names[i]
  BY <1>1, <1>3, <1>4
<1>6. /\ chain' \in Seq(Cnids) /\ Len(chain') = n + 1 /\ chain'[n+1] = cur
      /\ \A i \in 1..n : chain'[i] = chain[i]
  BY <1>3, <1>4
<1>7. \A c : Says(c)' = Says(c)
  BY DEF Says
<1>8. ASSUME NEW i \in 1..(n + 1)
      PROVE  /\ chain'[i] # Root /\ names'[i] # NoName
             /\ [parent |-> From(i)', name |-> names'[i]] \in Says(chain'[i])
  <2>1. CASE i = n + 1
    <3>1. From(i)' = link.parent
      BY <1>4, <1>6, <2>1 DEF From
    <3>. QED BY <1>1, <1>4, <1>5, <1>6, <2>1, <3>1
  <2>2. CASE i # n + 1
    <3>1. i \in 1..n /\ (i + 1 \in 1..n \/ i = n)
      BY <1>3, <2>2
    <3>2. From(i)' = From(i)
      BY <1>3, <1>6, <2>2, <3>1 DEF From
    <3>. QED BY <1>5, <1>6, <3>1, <3>2 DEF Climbing
  <2>. QED BY <2>1, <2>2
<1>9. vol'.records[rec'].parent = IF chain' = <<>> THEN cur' ELSE chain'[1]
  <2>1. vol' = vol /\ rec' = rec
    BY DEF Passes
  <2>2. chain' # <<>>
    BY <1>3, <1>6
  <2>3. CASE chain = <<>>
    <3>1. n = 0 /\ chain'[1] = cur
      BY <1>6, <2>3
    <3>. QED BY <2>1, <2>2, <2>3, <3>1 DEF Climbing
  <2>4. CASE chain # <<>>
    <3>1. 1 \in 1..n
      BY <1>3, <2>4
    <3>. QED BY <1>6, <2>1, <2>2, <2>4, <3>1 DEF Climbing
  <2>. QED BY <2>3, <2>4
<1>10. Climbing'
  <2>. HIDE DEF n
  <2>. QED BY <1>4, <1>5, <1>6, <1>7, <1>8, <1>9 DEF Climbing
<1>. QED BY <1>2, <1>10

\* The nodes passed lie where the climb says, below the base it came to.
LEMMA PassedEnds ==
    ASSUME WalkTypes, Climbing, NEW base \in Seq(Names), cur \in Ends(base)
    PROVE  \A i \in 1..(Len(chain) + 1) :
              (IF i = Len(chain) + 1 THEN cur ELSE chain[i]) \in Ends(PathAt(base, i))
<1>. DEFINE n == Len(chain)
            node(i) == IF i = n + 1 THEN cur ELSE chain[i]
            T == {k \in 0..n : ~(node(n + 1 - k) \in Ends(PathAt(base, n + 1 - k)))}
<1>1. /\ names \in Seq(Names) /\ chain \in Seq(Cnids) /\ Len(names) = n /\ n \in Nat
      /\ \A i \in 1..n : chain[i] \in Cnids
  BY DEF Climbing
<1>2. T = {}
  <2>. SUFFICES ASSUME T # {} PROVE FALSE
    OBVIOUS
  <2>1. PICK k \in T : \A y \in T : k <= y
    <3>1. T \in SUBSET Nat
      BY <1>1
    <3>. QED BY <3>1, Least
  <2>2. k # 0
    <3>1. PathAt(base, n + 1) = base
      BY <1>1, PathAtTop
    <3>2. n + 1 - 0 = n + 1
      BY <1>1
    <3>. HIDE DEF n
    <3>. QED BY <2>1, <3>1, <3>2
  <2>3. k \in 1..n /\ k - 1 \in 0..n
    BY <1>1, <2>1, <2>2
  <2>. DEFINE i == n + 1 - k
  <2>4. i \in 1..n /\ n + 1 - (k - 1) = i + 1 /\ i # n + 1 /\ (i + 1 = n + 1 <=> i = n)
    BY <1>1, <2>3
  <2>5. node(i + 1) \in Ends(PathAt(base, i + 1))
    <3>1. k - 1 \notin T
      <4>1. k \in Int /\ \A y \in T : k <= y
        BY <1>1, <2>1, <2>3
      <4>. HIDE DEF T
      <4>. QED BY <4>1
    <3>. HIDE DEF node, i, n
    <3>. QED BY <2>3, <2>4, <3>1
  <2>6. node(i + 1) = From(i) /\ node(i) = chain[i]
    <3>. HIDE DEF i
    <3>. QED BY <2>4 DEF From
  <2>7. /\ PathAt(base, i) = Append(PathAt(base, i + 1), names[i]) /\ names[i] \in Names
        /\ PathAt(base, i + 1) \in Seq(Names)
    <3>1. i + 1 \in 1..(Len(names) + 1) /\ i \in 1..Len(names)
      BY <1>1, <2>4
    <3>. HIDE DEF i
    <3>. QED BY <1>1, <3>1, PathAtUnfolds, PathAtTypes
  <2>8. chain[i] \in Below(Ends(PathAt(base, i + 1)), names[i])
    <3>1. [parent |-> From(i), name |-> names[i]] \in Says(chain[i]) /\ chain[i] \in Cnids
      BY <1>1, <2>4 DEF Climbing
    <3>2. From(i) \in Ends(PathAt(base, i + 1))
      BY <2>5, <2>6
    <3>. HIDE DEF i
    <3>. QED BY <3>1, <3>2 DEF Below
  <2>9. node(i) \in Ends(PathAt(base, i))
    <3>. HIDE DEF i, node
    <3>. QED BY <2>6, <2>7, <2>8, EndsOfAppend
  <2>. HIDE DEF node
  <2>. QED BY <2>1, <2>9
<1>3. ASSUME NEW i \in 1..(n + 1) PROVE node(i) \in Ends(PathAt(base, i))
  <2>1. n + 1 - i \in 0..n /\ n + 1 - (n + 1 - i) = i
    BY <1>1
  <2>2. n + 1 - i \notin T
    BY <1>2
  <2>. HIDE DEF node, n
  <2>. QED BY <2>1, <2>2
<1>. QED BY <1>3

\* What a climb that found its base keeps and reports.
LEMMA ResolvedPuts ==
    ASSUME WalkTypes, Climbing, phase = "climb", NEW base \in Seq(Names), Resolve(base)
    PROVE  LET own == Append(PathAt(base, 1), vol.records[rec].name)
           IN  /\ own \in Seq(Names) /\ path' = own /\ PathAt(base, 1) \in Seq(Names)
               /\ puts' \in Seq(Cnids \X Paths)
               /\ \A j \in 1..Len(puts') :
                     \/ \E i \in 1..Len(chain) : puts'[j] = <<chain[i], PathAt(base, i)>>
                     \/ puts'[j] = <<rec, own>>
               /\ rec \in vol.folders => Len(puts') # 0 /\ puts'[Len(puts')] = <<rec, own>>
<1>. DEFINE own == Append(PathAt(base, 1), vol.records[rec].name)
            n == Len(chain)
            up == [i \in 1..n |-> <<chain[i], PathAt(base, i)>>]
<1>1. /\ names \in Seq(Names) /\ chain \in Seq(Cnids) /\ Len(names) = n /\ n \in Nat
      /\ \A i \in 1..n : chain[i] \in Cnids
  BY DEF Climbing
<1>2. PathAt(base, 1) \in Seq(Names)
  <2>1. 1 \in 1..(Len(names) + 1)
    BY <1>1
  <2>. QED BY <1>1, <2>1, PathAtTypes
<1>3. rec \in Cnids /\ vol.records[rec].name \in Names
  BY VolumeFacts DEF WalkTypes
<1>4. own \in Seq(Names) /\ own \in Paths
  BY <1>2, <1>3 DEF Paths
<1>5. \A i \in 1..n : up[i] = <<chain[i], PathAt(base, i)>> /\ up[i] \in Cnids \X Paths
  <2>1. \A i \in 1..n : PathAt(base, i) \in Seq(Names)
    <3>1. \A i \in 1..n : i \in 1..(Len(names) + 1)
      BY <1>1
    <3>. QED BY <1>1, <3>1, PathAtTypes
  <2>. QED BY <1>1, <2>1 DEF Paths
<1>6. up \in Seq(Cnids \X Paths) /\ Len(up) = n
  BY <1>1, <1>5
<1>7. path' = own /\ puts' = Reverse(up) \o OwnPut(own)
  <2>1. DOMAIN chain = 1..n
    BY <1>1
  <2>. QED BY <2>1 DEF Resolve, Keep
<1>. HIDE DEF up, own, n
<1>8. /\ Reverse(up) \in Seq(Cnids \X Paths) /\ Len(Reverse(up)) = n
      /\ \A j \in 1..n : \E i \in 1..n : Reverse(up)[j] = up[i]
  <2>1. /\ Reverse(up) \in Seq(Cnids \X Paths) /\ Len(Reverse(up)) = Len(up)
        /\ \A i \in 1..Len(up) : Len(up) - i + 1 \in 1..Len(up) /\ Reverse(up)[i] = up[Len(up) - i + 1]
    BY <1>6, ReverseOf
  <2>. QED BY <1>6, <2>1
<1>9. CASE rec \in vol.folders
  <2>1. OwnPut(own) = << <<rec, own>> >>
    BY <1>9 DEF OwnPut
  <2>2. /\ puts' \in Seq(Cnids \X Paths) /\ Len(puts') = n + 1 /\ puts'[n + 1] = <<rec, own>>
        /\ \A j \in 1..n : puts'[j] = Reverse(up)[j]
    <3>. DEFINE r == Reverse(up)
                last == <<rec, own>>
    <3>1. r \in Seq(Cnids \X Paths) /\ Len(r) = n /\ last \in Cnids \X Paths /\ puts' = r \o << last >>
      <4>1. r \in Seq(Cnids \X Paths) /\ Len(r) = n
        BY ONLY <1>8
      <4>2. last \in Cnids \X Paths
        BY ONLY <1>3, <1>4
      <4>3. puts' = r \o << last >>
        BY ONLY <1>7, <2>1
      <4>. QED BY ONLY <4>1, <4>2, <4>3
    <3>. HIDE DEF r, last
    <3>2. /\ r \o << last >> = Append(r, last)
          /\ Append(r, last) \in Seq(Cnids \X Paths) /\ Len(Append(r, last)) = n + 1
          /\ Append(r, last)[n + 1] = last /\ \A j \in 1..n : Append(r, last)[j] = r[j]
      BY ONLY <3>1, Appended
    <3>. QED BY <3>1, <3>2 DEF r, last
  <2>3. \A j \in 1..Len(puts') : j \in 1..n \/ j = n + 1
    BY <1>1, <2>2
  <2>4. ASSUME NEW j \in 1..Len(puts')
        PROVE  \/ \E i \in 1..n : puts'[j] = <<chain[i], PathAt(base, i)>>
               \/ puts'[j] = <<rec, own>>
    <3>1. CASE j \in 1..n
      <4>1. PICK i \in 1..n : Reverse(up)[j] = up[i]
        BY <1>8, <3>1
      <4>2. puts'[j] = up[i]
        BY <2>2, <3>1, <4>1
      <4>. QED BY <1>5, <4>2
    <3>2. CASE j = n + 1
      BY <2>2, <3>2
    <3>. QED BY <2>3, <3>1, <3>2
  <2>5. Len(puts') # 0 /\ puts'[Len(puts')] = <<rec, own>>
    BY <1>1, <2>2
  <2>. QED BY <1>2, <1>4, <1>7, <2>2, <2>4, <2>5 DEF n, own
<1>10. CASE rec \notin vol.folders
  <2>1. OwnPut(own) = <<>>
    BY <1>10 DEF OwnPut
  <2>2. puts' = Reverse(up)
    BY <1>7, <1>8, <2>1
  <2>3. ASSUME NEW j \in 1..Len(puts')
        PROVE  \E i \in 1..n : puts'[j] = <<chain[i], PathAt(base, i)>>
    BY <1>5, <1>8, <2>2
  <2>. QED BY <1>2, <1>4, <1>7, <1>8, <1>10, <2>2, <2>3 DEF n, own
<1>. QED BY <1>9, <1>10

\* What a climb that failed keeps and reports.
LEMMA FailedPuts ==
    ASSUME WalkTypes, Climbing, phase = "climb", FailPath
    PROVE  /\ path' = NoPath /\ puts' \in Seq(Cnids \X Paths)
           /\ \A j \in 1..Len(puts') :
                 /\ puts'[j][2] = NoPath
                 /\ \/ puts'[j][1] = vol.records[rec].parent
                    \/ \E i \in 1..Len(chain) : puts'[j][1] = chain[i]
<1>. DEFINE n == Len(chain)
            failed == [i \in 1..n |-> <<chain[i], NoPath>>]
            top == <<vol.records[rec].parent, NoPath>>
<1>1. chain \in Seq(Cnids) /\ n \in Nat /\ DOMAIN chain = 1..n /\ \A i \in 1..n : chain[i] \in Cnids
  BY DEF Climbing
<1>2. top \in Cnids \X Paths
  BY VolumeFacts, Markers DEF WalkTypes
<1>3. failed \in Seq(Cnids \X Paths) /\ Len(failed) = n
  BY <1>1, Markers
<1>4. path' = NoPath /\ puts' = << top >> \o failed
  BY <1>1 DEF FailPath, Keep
<1>. HIDE DEF n, top
<1>5. /\ puts' \in Seq(Cnids \X Paths) /\ Len(puts') = n + 1 /\ puts'[1] = top
      /\ \A j \in 2..(n + 1) : j - 1 \in 1..n /\ puts'[j] = failed[j - 1]
  <2>. HIDE DEF failed
  <2>. QED BY <1>1, <1>2, <1>3, <1>4
<1>6. \A j \in 1..(n + 1) : j = 1 \/ j \in 2..(n + 1)
  BY <1>1
<1>7. \A i \in 1..n : failed[i] = <<chain[i], NoPath>>
  OBVIOUS
<1>8. ASSUME NEW j \in 1..Len(puts')
      PROVE  /\ puts'[j][2] = NoPath
             /\ \/ puts'[j][1] = vol.records[rec].parent
                \/ \E i \in 1..n : puts'[j][1] = chain[i]
  <2>1. CASE j = 1
    <3>1. puts'[j] = <<vol.records[rec].parent, NoPath>>
      BY <1>5, <2>1 DEF top
    <3>. QED BY <3>1
  <2>2. CASE j # 1
    <3>1. j - 1 \in 1..n /\ puts'[j] = failed[j - 1]
      BY <1>5, <1>6, <2>2
    <3>. QED BY <1>7, <3>1
  <2>. QED BY <2>1, <2>2
<1>. HIDE DEF failed
<1>. QED BY <1>4, <1>5, <1>8 DEF n

LEMMA NoClimb ==
    ASSUME chain = <<>>, names = <<>>, phase # "climb" PROVE Climbing
BY DEF Climbing

LEMMA KeepWalks ==
    ASSUME WalkTypes, Climbing, phase = "climb", NEW e, NEW p, Keep(e, p), UNCHANGED vol,
           puts' \in Seq(Cnids \X Paths), path' \in Paths
    PROVE  WalkTypes' /\ Climbing'
<1>1. WalkTypes'
  BY Markers DEF WalkTypes, Keep
<1>2. chain' = <<>> /\ names' = <<>> /\ phase' # "climb"
  BY DEF Keep
<1>3. Climbing'
  BY <1>2 DEF Climbing
<1>. QED BY <1>1, <1>3

LEMMA CallbackEmits ==
    ASSUME emitted \in Seq([cnid : Cnids, path : Paths]), NEW c \in Cnids, NEW p \in Paths, Callback(c, p)
    PROVE  /\ emitted' \in Seq([cnid : Cnids, path : Paths]) /\ Len(emitted') = Len(emitted) + 1
           /\ emitted'[Len(emitted) + 1] = [cnid |-> c, path |-> p]
           /\ \A i \in 1..Len(emitted) : emitted'[i] = emitted[i]
           /\ Len(emitted) \in Nat
<1>. DEFINE e == [cnid |-> c, path |-> p]
            S == [cnid : Cnids, path : Paths]
<1>1. e \in S /\ emitted \in Seq(S) /\ emitted' = Append(emitted, e)
  BY DEF Callback
<1>. HIDE DEF e, S
<1>2. /\ emitted' \in Seq(S) /\ Len(emitted') = Len(emitted) + 1
      /\ emitted'[Len(emitted) + 1] = e
      /\ \A i \in 1..Len(emitted) : emitted'[i] = emitted[i] /\ Len(emitted) \in Nat
  BY ONLY <1>1, Appended
<1>. QED BY <1>1, <1>2 DEF e, S

LEMMA WalkInit == Init => WalkTypes /\ Climbing /\ PathsSupported
<1>. SUFFICES ASSUME Init PROVE WalkTypes /\ Climbing /\ PathsSupported
  OBVIOUS
<1>1. /\ vol \in Volumes /\ phase = "record" /\ next = 1 /\ emitted = <<>> /\ rec = Nothing /\ cur = Root
      /\ names = <<>> /\ chain = <<>> /\ puts = <<>> /\ path = <<>>
  BY DEF Init
<1>2. PICK max \in Bounds : memo = PutPath(Empty(Cnids, max), Root, <<>>)
  BY DEF Init
<1>. DEFINE m == Empty(Cnids, max)
<1>3. m \in Memos /\ \A c \in Cnids : m.map[c] = Absent
  BY PathWalkAssumption DEF Empty, Memos
<1>. HIDE DEF m
<1>4. memo \in Memos /\ memo.map[Root] = <<>> /\ \A c \in Cnids \ {Root} : memo.map[c] \in {m.map[c], Absent}
  BY <1>2, <1>3, Markers, PutKeeps DEF m
<1>5. WalkTypes
  <2>1. <<>> \in Seq(Cnids \X Paths) /\ <<>> \in Seq([cnid : Cnids, path : Paths])
    OBVIOUS
  <2>. QED BY <1>1, <1>4, <2>1, Markers DEF WalkTypes
<1>6. Climbing
  BY <1>1, NoClimb
<1>7. PathsSupported
  <2>1. Supported(Root, <<>>)
    BY EndsOfEmpty DEF Supported
  <2>2. ASSUME NEW c \in Cnids, memo.map[c] # Absent PROVE Supported(c, memo.map[c])
    BY <1>3, <1>4, <2>1, <2>2
  <2>3. Len(<<>>) = 0
    OBVIOUS
  <2>. QED BY <1>1, <2>2, <2>3 DEF PathsSupported
<1>. QED BY <1>5, <1>6, <1>7

\* The types, and the climb, after a step.
LEMMA WalkStep ==
    ASSUME WalkTypes, Climbing, Next
    PROVE  WalkTypes' /\ Climbing' /\ UNCHANGED vol
<1>1. CASE Record
  <2>1. UNCHANGED <<vol, names, chain>> /\ phase = "record" /\ chain = <<>> /\ names = <<>>
    BY <1>1 DEF Record, Decoded, End, climb, Climbing
  <2>2. WalkTypes' /\ (phase' = "climb" => vol'.records[rec'].parent = cur')
    <3>1. CASE \E o : End(o)
      BY <2>1, <3>1 DEF WalkTypes, End, climb, kept
    <3>2. CASE next' = next + 1 /\ UNCHANGED <<memo, phase, climb, kept, emitted, outcome>>
      BY <2>1, <3>2 DEF WalkTypes, climb, kept
    <3>3. CASE next <= Len(vol.order) /\ vol.order[next] \in DOMAIN vol.records /\ Decoded(vol.order[next])
      <4>. DEFINE c == vol.order[next]
      <4>0. c \in DOMAIN vol.records /\ c \in Cnids
        BY <3>3, VolumeFacts DEF WalkTypes
      <4>1. CASE c = Root /\ Callback(c, <<>>) /\ UNCHANGED <<memo, climb, kept>>
        <5>1. emitted' \in Seq([cnid : Cnids, path : Paths])
          BY <4>0, <4>1, CallbackEmits, Markers DEF WalkTypes
        <5>2. next' \in Nat \ {0} /\ phase' \in {"record", "done"}
          BY <2>1, <4>1 DEF WalkTypes, Callback
        <5>. QED BY <2>1, <4>1, <5>1, <5>2 DEF WalkTypes, climb, kept
      <4>2. CASE c # Root /\ vol.records[c].name # NoName
                 /\ phase' = "climb" /\ rec' = c /\ cur' = vol.records[c].parent
                 /\ UNCHANGED <<memo, next, names, chain, kept, emitted, outcome>>
        <5>1. vol.records[c].parent \in Cnids
          BY <4>0, <4>2, VolumeFacts DEF WalkTypes
        <5>2. next' = next /\ next \in Nat \ {0} /\ next <= Len(vol.order)
          BY <3>3, <4>2 DEF WalkTypes
        <5>3. next \in 1..Len(vol.order)
          <6>1. vol.order[next] \in DOMAIN vol.records
            BY <3>3
          <6>2. Len(vol.order) \in Nat
            BY VolumeFacts DEF WalkTypes
          <6>. QED BY <5>2, <6>2
        <5>. QED BY <2>1, <4>0, <4>2, <5>1, <5>2, <5>3 DEF WalkTypes, kept
      <4>. QED BY <2>1, <3>2, <3>3, <4>1, <4>2 DEF Decoded
    <3>. QED BY <1>1, <3>1, <3>2, <3>3 DEF Record
  <2>3. Climbing'
    <3>1. \A i \in 1..Len(chain') : FALSE
      BY <2>1
    <3>2. Len(names') = Len(chain') /\ chain' = <<>> /\ names' = <<>>
          /\ names' \in Seq(Names) /\ chain' \in Seq(Cnids)
      BY <2>1
    <3>. QED BY <2>2, <3>1, <3>2 DEF Climbing
  <2>. QED BY <2>1, <2>2, <2>3
<1>2. CASE Climb
  <2>1. /\ phase = "climb" /\ UNCHANGED vol
        /\ \/ \E base : AtBase(base)
           \/ Fails
           \/ \E link : Passes(link)
    BY <1>2, ClimbCases
  <2>2. ASSUME NEW base, AtBase(base) PROVE WalkTypes' /\ Climbing'
    <3>1. puts' \in Seq(Cnids \X Paths) /\ path' \in Paths
      BY <2>1, <2>2, ResolvedPuts DEF AtBase, Paths
    <3>. QED BY <2>1, <2>2, <3>1, KeepWalks DEF AtBase, Resolve
  <2>3. CASE Fails
    <3>1. puts' \in Seq(Cnids \X Paths) /\ path' \in Paths
      BY <2>1, <2>3, FailedPuts, Markers DEF Fails
    <3>. QED BY <2>1, <2>3, <3>1, KeepWalks DEF Fails, FailPath
  <2>4. ASSUME NEW link, Passes(link) PROVE WalkTypes' /\ Climbing'
    BY <2>1, <2>4, PassesClimbs
  <2>. QED BY <2>1, <2>2, <2>3, <2>4
<1>3. CASE PutNext
  <2>1. /\ phase = "keep" /\ puts # <<>> /\ puts \in Seq(Cnids \X Paths)
        /\ UNCHANGED <<vol, phase, next, rec, cur, names, chain, path, emitted>>
    BY <1>3 DEF PutNext, WalkTypes, climb
  <2>2. Head(puts) \in Cnids \X Paths /\ puts' \in Seq(Cnids \X Paths)
    BY <1>3, <2>1, HeadTailProperties DEF PutNext
  <2>3. memo' \in Memos
    <3>1. Head(puts)[1] \in Cnids /\ Head(puts)[2] \in Paths
      BY <2>2
    <3>2. memo' = PutPath(memo, Head(puts)[1], Head(puts)[2])
      BY <1>3 DEF PutNext
    <3>. QED BY <3>1, <3>2, PutKeeps DEF WalkTypes
  <2>4. WalkTypes'
    BY <2>1, <2>2, <2>3 DEF WalkTypes
  <2>5. Climbing'
    BY <2>1 DEF Climbing
  <2>. QED BY <2>1, <2>4, <2>5
<1>4. CASE Emit
  <2>1. /\ phase = "keep" /\ Callback(rec, path) /\ path' = <<>>
        /\ UNCHANGED <<vol, memo, cur, names, chain, puts>>
    BY <1>4 DEF Emit
  <2>2. rec \in Cnids /\ path \in Paths
    BY <2>1, VolumeFacts DEF WalkTypes
  <2>3. emitted' \in Seq([cnid : Cnids, path : Paths])
    BY <2>1, <2>2, CallbackEmits DEF WalkTypes
  <2>4. next' \in Nat \ {0} /\ phase' \in {"record", "done"}
    <3>1. Len(vol.order) \in Nat
      BY VolumeFacts DEF WalkTypes
    <3>. QED BY <2>1, <3>1 DEF WalkTypes, Callback
  <2>5. WalkTypes'
    BY <2>1, <2>3, <2>4, Markers DEF WalkTypes
  <2>6. Climbing'
    BY <2>1, <2>4 DEF Climbing
  <2>. QED BY <2>1, <2>5, <2>6
<1>. QED BY <1>1, <1>2, <1>3, <1>4 DEF Next

---------------------------------------------------------------------------
(* Nothing is invented. *)

LEMMA SupportedStays == ASSUME UNCHANGED vol PROVE \A c, p : Supported(c, p)' <=> Supported(c, p)
BY DEF Supported, Ends, Says

LEMMA CallbackSupported ==
    ASSUME WalkTypes, PathsSupported, UNCHANGED <<vol, memo, puts>>, NEW c \in Cnids, NEW p \in Paths,
           Callback(c, p), Supported(c, p)
    PROVE  PathsSupported'
<1>1. /\ Len(emitted') = Len(emitted) + 1 /\ Len(emitted) \in Nat
      /\ emitted'[Len(emitted) + 1] = [cnid |-> c, path |-> p]
      /\ \A i \in 1..Len(emitted) : emitted'[i] = emitted[i]
  BY CallbackEmits DEF WalkTypes
<1>2. \A a, q : Supported(a, q)' <=> Supported(a, q)
  BY SupportedStays
<1>3. phase' # "keep"
  <2>1. phase' = "record" \/ phase' = "done" \/ phase' = phase
    BY DEF Callback
  <2>. QED BY DEF Callback
<1>4. ASSUME NEW i \in 1..Len(emitted') PROVE Supported(emitted'[i].cnid, emitted'[i].path)
  <2>1. CASE i = Len(emitted) + 1
    BY <1>1, <2>1
  <2>2. CASE i \in 1..Len(emitted)
    BY <1>1, <2>2 DEF PathsSupported
  <2>. QED BY <1>1, <2>1, <2>2
<1>. QED BY <1>2, <1>3, <1>4 DEF PathsSupported

LEMMA KeepSupported ==
    ASSUME PathsSupported, UNCHANGED vol, NEW e, NEW p, Keep(e, p),
           \A i \in 1..Len(puts') : Supported(puts'[i][1], puts'[i][2]), Supported(rec, path')
    PROVE  PathsSupported'
<1>1. \A a, q : Supported(a, q)' <=> Supported(a, q)
  BY SupportedStays
<1>2. UNCHANGED <<memo, rec, emitted>>
  BY DEF Keep
<1>. QED BY <1>1, <1>2 DEF PathsSupported

LEMMA SupportedStep ==
    ASSUME WalkTypes, Climbing, PathsSupported, Next
    PROVE  PathsSupported'
<1>0. UNCHANGED vol /\ \A c, p : Supported(c, p)' <=> Supported(c, p)
  BY WalkStep, SupportedStays
<1>1. CASE Record
  <2>1. CASE phase' # "keep" /\ UNCHANGED <<memo, puts, emitted>>
    BY <1>0, <2>1 DEF PathsSupported
  <2>2. CASE UNCHANGED <<memo, puts>> /\ Callback(Root, <<>>)
    <3>1. Supported(Root, <<>>)
      BY EndsOfEmpty DEF Supported
    <3>. QED BY <1>0, <2>2, <3>1, Markers, CallbackSupported
  <2>. QED BY <1>1, <2>1, <2>2 DEF Record, Decoded, End, climb, kept
<1>2. CASE Climb
  <2>1. /\ phase = "climb"
        /\ \/ \E base : AtBase(base)
           \/ Fails
           \/ \E link : Passes(link)
    BY <1>2, ClimbCases
  <2>2. ASSUME NEW base, AtBase(base) PROVE PathsSupported'
    <3>. DEFINE own == Append(PathAt(base, 1), vol.records[rec].name)
                n == Len(chain)
    <3>1. cur \in Ends(base)
      <4>1. CASE cur = Root /\ base = <<>>
        BY <4>1, EndsOfEmpty
      <4>2. CASE cur # Root /\ memo.map[cur] = base
        <5>1. base # NoPath /\ base # Absent
          BY <2>2, Markers DEF AtBase, Paths
        <5>2. cur \in Cnids
          BY DEF WalkTypes
        <5>. QED BY <4>2, <5>1, <5>2 DEF PathsSupported, Supported
      <4>. QED BY <2>2, <4>1, <4>2 DEF AtBase
    <3>2. base \in Seq(Names) /\ Resolve(base)
      BY <2>2 DEF AtBase
    <3>3. \A i \in 1..(n + 1) : (IF i = n + 1 THEN cur ELSE chain[i]) \in Ends(PathAt(base, i))
      BY <3>1, <3>2, PassedEnds
    <3>4. /\ path' = own /\ PathAt(base, 1) \in Seq(Names)
          /\ \A j \in 1..Len(puts') :
                     \/ \E i \in 1..n : puts'[j] = <<chain[i], PathAt(base, i)>>
                     \/ puts'[j] = <<rec, own>>
      BY <2>1, <3>2, ResolvedPuts
    <3>5. n \in Nat
      BY DEF Climbing
    <3>6. \A i \in 1..n : chain[i] \in Ends(PathAt(base, i))
      BY <3>3, <3>5
    <3>7. rec \in Ends(own)
      <4>. DEFINE l == vol.records[rec]
      <4>1. l \in Says(rec) /\ l.name \in Names /\ rec \in Cnids
        BY <2>1, VolumeFacts DEF WalkTypes, Says
      <4>2. l.parent \in Ends(PathAt(base, 1))
        <5>1. l.parent = IF chain = <<>> THEN cur ELSE chain[1]
          BY <2>1 DEF Climbing
        <5>2. n = 0 <=> chain = <<>>
          BY DEF Climbing
        <5>3. 1 \in 1..(n + 1) /\ (1 = n + 1 <=> n = 0)
          BY <3>5
        <5>. QED BY <3>3, <5>1, <5>2, <5>3
      <4>. HIDE DEF l
      <4>3. rec \in Below(Ends(PathAt(base, 1)), l.name)
        BY <4>1, <4>2 DEF Below
      <4>. QED BY <3>4, <4>1, <4>3, EndsOfAppend DEF l
    <3>. HIDE DEF own, n
    <3>8. \A i \in 1..Len(puts') : Supported(puts'[i][1], puts'[i][2])
      BY <3>4, <3>6, <3>7 DEF Supported
    <3>9. Supported(rec, path')
      BY <3>4, <3>7 DEF Supported
    <3>10. \E e, p : Keep(e, p)
      BY <3>2 DEF Resolve
    <3>. QED BY <1>0, <3>8, <3>9, <3>10, KeepSupported
  <2>3. CASE Fails
    <3>1. FailPath
      BY <2>3 DEF Fails
    <3>2. path' = NoPath /\ \A j \in 1..Len(puts') : puts'[j][2] = NoPath
      BY <2>1, <3>1, FailedPuts
    <3>3. \E e, p : Keep(e, p)
      BY <3>1 DEF FailPath
    <3>. QED BY <1>0, <3>2, <3>3, KeepSupported DEF Supported
  <2>4. ASSUME NEW link, Passes(link) PROVE PathsSupported'
    <3>1. UNCHANGED <<memo, puts, emitted, phase>>
      BY <2>4 DEF Passes, kept
    <3>. QED BY <1>0, <2>1, <3>1 DEF PathsSupported
  <2>. QED BY <2>1, <2>2, <2>3, <2>4
<1>3. CASE PutNext
  <2>1. /\ phase = "keep" /\ puts # <<>> /\ puts \in Seq(Cnids \X Paths) /\ puts' = Tail(puts)
        /\ UNCHANGED <<phase, rec, path, emitted>> /\ memo \in Memos
    BY <1>3 DEF PutNext, WalkTypes, climb
  <2>2. /\ Len(puts) \in Nat /\ Len(puts) >= 1 /\ Len(puts') = Len(puts) - 1 /\ Head(puts) = puts[1]
        /\ \A i \in 1..Len(puts') : puts'[i] = puts[i + 1]
    BY <2>1
  <2>3. Head(puts) \in Cnids \X Paths
    BY <2>1, HeadTailProperties
  <2>. DEFINE c == Head(puts)[1]
              p == Head(puts)[2]
  <2>4. c \in Cnids /\ p \in Paths /\ Supported(c, p)
    BY <2>2, <2>3 DEF PathsSupported
  <2>5. memo' = PutPath(memo, c, p)
    BY <1>3 DEF PutNext
  <2>. HIDE DEF c, p
  <2>6. memo'.map[c] = p /\ \A k \in Cnids \ {c} : memo'.map[k] \in {memo.map[k], Absent}
    BY <2>1, <2>4, <2>5, PutKeeps
  <2>7. ASSUME NEW k \in Cnids, memo'.map[k] # Absent PROVE Supported(k, memo'.map[k])
    BY <2>4, <2>6, <2>7 DEF PathsSupported
  <2>8. \A i \in 1..Len(puts') : Supported(puts'[i][1], puts'[i][2])
    <3>1. \A i \in 1..Len(puts') : i + 1 \in 1..Len(puts)
      BY <2>2
    <3>. QED BY <2>2, <3>1 DEF PathsSupported
  <2>. QED BY <1>0, <2>1, <2>7, <2>8 DEF PathsSupported
<1>4. CASE Emit
  <2>1. phase = "keep" /\ Callback(rec, path) /\ UNCHANGED <<vol, memo, puts>>
    BY <1>4 DEF Emit
  <2>2. rec \in Cnids /\ path \in Paths
    BY <2>1, VolumeFacts DEF WalkTypes
  <2>. QED BY <2>1, <2>2, CallbackSupported DEF PathsSupported
<1>. QED BY <1>1, <1>2, <1>3, <1>4 DEF Next

---------------------------------------------------------------------------
(* The climb of PathForCNID. *)

Most == Cardinality(Cnids)

LEMMA MostIsNat == Most \in Nat \ {0} /\ IsFiniteSet(Cnids)
<1>1. IsFiniteSet(Cnids) /\ Root \in Cnids
  BY PathWalkAssumption
<1>2. Cardinality(Cnids) \in Nat
  BY <1>1, FS_CardinalityType
<1>3. Cardinality(Cnids) # 0
  BY <1>1, FS_EmptySet
<1>. QED BY <1>1, <1>2, <1>3 DEF Most

\* One step of a climb by threads, given the path of the node above.
Onto(c, up) == IF up = NoPath \/ vol.threads[c].name = NoName THEN NoPath
               ELSE Append(up, vol.threads[c].name)

LEMMA OntoTypes ==
    ASSUME vol \in Volumes, NEW c \in DOMAIN vol.threads, NEW up \in Paths
    PROVE  Onto(c, up) \in Paths /\ vol.threads[c].parent \in Cnids
<1>1. vol.threads[c].name \in Names /\ vol.threads[c].parent \in Cnids
  BY VolumeFacts
<1>2. CASE up = NoPath \/ vol.threads[c].name = NoName
  BY <1>1, <1>2 DEF Onto, Paths
<1>3. CASE up # NoPath /\ vol.threads[c].name # NoName
  <2>1. up \in Seq(Names)
    BY <1>3 DEF Paths
  <2>. QED BY <1>1, <1>3, <2>1 DEF Onto, Paths
<1>. QED BY <1>2, <1>3

\* What Above computes, one step at a time.
AboveIs(f) ==
    \A n \in 0..Most, c \in Cnids :
        /\ f[<<n, c>>] \in Paths
        /\ f[<<n, c>>] = IF c = Root THEN <<>>
                         ELSE IF n = 0 \/ c \notin DOMAIN vol.threads THEN NoPath
                         ELSE Onto(c, f[<<n - 1, vol.threads[c].parent>>])

LEMMA AboveUnfolds == ASSUME vol \in Volumes PROVE AboveIs(Above)
<1>. DEFINE F(f) == [x \in (0..Cardinality(Cnids)) \X Cnids |->
                       LET n == x[1]
                           c == x[2]
                       IN  CASE c = Root -> <<>>
                             [] c # Root /\ (n = 0 \/ c \notin DOMAIN vol.threads) -> NoPath
                             [] OTHER -> LET up == f[<<n - 1, vol.threads[c].parent>>]
                                         IN  IF up = NoPath \/ vol.threads[c].name = NoName THEN NoPath
                                             ELSE Append(up, vol.threads[c].name)]
            S == [Cnids -> Paths]
            first == [c \in Cnids |-> IF c = Root THEN <<>> ELSE NoPath]
            next1(g) == [c \in Cnids |-> IF c = Root THEN <<>>
                                         ELSE IF c \notin DOMAIN vol.threads THEN NoPath
                                         ELSE Onto(c, g[vol.threads[c].parent])]
            step == [n \in 1..Most |-> [g \in S |-> next1(g)]]
<1>1. first \in S
  BY Markers
<1>2. ASSUME NEW g \in S PROVE next1(g) \in S
  <2>1. ASSUME NEW c \in DOMAIN vol.threads PROVE Onto(c, g[vol.threads[c].parent]) \in Paths
    <3>1. vol.threads[c].parent \in Cnids
      BY VolumeFacts
    <3>2. g[vol.threads[c].parent] \in Paths
      BY <3>1
    <3>. HIDE DEF S, first, next1, step
    <3>. QED BY <3>2, OntoTypes
  <2>. QED BY <2>1, Markers
<1>3. step \in [1..Most -> [S -> S]]
  <2>. HIDE DEF S, next1
  <2>. QED BY <1>2
<1>4. PICK g \in [0..Most -> S] : Unfolds(g, Most, first, step)
  <2>. HIDE DEF S, step, first
  <2>. QED BY <1>1, <1>3, MostIsNat, RecursionExists
<1>5. g[0] = first /\ \A n \in 1..Most : g[n] = next1(g[n-1])
  <2>. HIDE DEF S, first, next1
  <2>1. \A n \in 1..Most : n - 1 \in 0..Most
    BY MostIsNat
  <2>2. \A n \in 1..Most : g[n-1] \in S
    BY <1>4, <2>1
  <2>. QED BY <1>4, <2>2 DEF Unfolds
<1>. DEFINE f == [x \in (0..Most) \X Cnids |-> g[x[1]][x[2]]]
<1>6. \A n \in 0..Most, c \in Cnids : f[<<n, c>>] = g[n][c] /\ g[n][c] \in Paths
  <2>1. \A n \in 0..Most : g[n] \in [Cnids -> Paths]
    BY <1>4
  <2>. QED BY <2>1
<1>7. AboveIs(f)
  <2>1. ASSUME NEW n \in 0..Most, NEW c \in Cnids
        PROVE  f[<<n, c>>] = IF c = Root THEN <<>>
                             ELSE IF n = 0 \/ c \notin DOMAIN vol.threads THEN NoPath
                             ELSE Onto(c, f[<<n - 1, vol.threads[c].parent>>])
    <3>1. CASE n = 0
      <4>. HIDE DEF f
      <4>. QED BY <1>5, <1>6, <3>1
    <3>2. CASE n # 0
      <4>1. n \in 1..Most /\ n - 1 \in 0..Most
        BY <3>2, MostIsNat
      <4>2. f[<<n, c>>] = next1(g[n-1])[c]
        <5>. HIDE DEF f, next1
        <5>. QED BY <1>5, <1>6, <4>1
      <4>3. c \in DOMAIN vol.threads => f[<<n - 1, vol.threads[c].parent>>] = g[n-1][vol.threads[c].parent]
        <5>. HIDE DEF f
        <5>. QED BY <1>6, <4>1, VolumeFacts
      <4>. HIDE DEF f
      <4>. QED BY <3>2, <4>2, <4>3
    <3>. QED BY <3>1, <3>2
  <2>. HIDE DEF f
  <2>. QED BY <1>6, <2>1 DEF AboveIs
<1>8. ASSUME NEW h, AboveIs(h), h = [x \in (0..Most) \X Cnids |-> h[x]] PROVE h = F(h)
  <2>1. ASSUME NEW x \in (0..Most) \X Cnids PROVE h[x] = F(h)[x]
    <3>1. x = <<x[1], x[2]>> /\ x[1] \in 0..Most /\ x[2] \in Cnids
      OBVIOUS
    <3>2. h[x] = IF x[2] = Root THEN <<>>
                 ELSE IF x[1] = 0 \/ x[2] \notin DOMAIN vol.threads THEN NoPath
                 ELSE Onto(x[2], h[<<x[1] - 1, vol.threads[x[2]].parent>>])
      <4>. DEFINE n == x[1]
                  c == x[2]
      <4>1. n \in 0..Most /\ c \in Cnids /\ x = <<n, c>>
        BY ONLY <3>1
      <4>. HIDE DEF n, c
      <4>2. h[<<n, c>>] = IF c = Root THEN <<>>
                          ELSE IF n = 0 \/ c \notin DOMAIN vol.threads THEN NoPath
                          ELSE Onto(c, h[<<n - 1, vol.threads[c].parent>>])
        BY ONLY <1>8, <4>1 DEF AboveIs
      <4>3. h[x] = h[<<n, c>>]
        BY ONLY <4>1
      <4>. QED BY ONLY <4>2, <4>3 DEF n, c
    <3>. QED BY <3>2 DEF Onto, Most
  <2>2. F(h) = [x \in (0..Most) \X Cnids |-> F(h)[x]]
    BY DEF Most
  <2>. HIDE DEF F
  <2>. QED BY <1>8, <2>1, <2>2
<1>9. f = F(f)
  <2>1. f = [x \in (0..Most) \X Cnids |-> f[x]]
    OBVIOUS
  <2>. HIDE DEF f, F
  <2>. QED BY <1>7, <1>8, <2>1
<1>10. Above = F(Above)
  <2>1. Above = CHOOSE h : h = F(h)
    BY DEF Above
  <2>. HIDE DEF F, f
  <2>. QED BY <1>9, <2>1
<1>. HIDE DEF f, S, first, next1, step
<1>11. ASSUME NEW n \in 0..Most, NEW c \in Cnids
       PROVE  Above[<<n, c>>] = IF c = Root THEN <<>>
                                ELSE IF n = 0 \/ c \notin DOMAIN vol.threads THEN NoPath
                                ELSE Onto(c, Above[<<n - 1, vol.threads[c].parent>>])
  <2>1. <<n, c>> \in (0..Cardinality(Cnids)) \X Cnids
    BY DEF Most
  <2>2. F(Above)[<<n, c>>] = IF c = Root THEN <<>>
                             ELSE IF n = 0 \/ c \notin DOMAIN vol.threads THEN NoPath
                             ELSE Onto(c, Above[<<n - 1, vol.threads[c].parent>>])
    BY <2>1 DEF Onto
  <2>. HIDE DEF F
  <2>. QED BY <1>10, <2>2
<1>12. ASSUME NEW n \in 0..Most, \A c \in Cnids : n > 0 => Above[<<n - 1, c>>] \in Paths
       PROVE  \A c \in Cnids : Above[<<n, c>>] \in Paths
  <2>. SUFFICES ASSUME NEW c \in Cnids PROVE Above[<<n, c>>] \in Paths
    OBVIOUS
  <2>1. CASE c = Root \/ n = 0 \/ c \notin DOMAIN vol.threads
    BY <1>11, <2>1, Markers
  <2>2. CASE c # Root /\ n # 0 /\ c \in DOMAIN vol.threads
    <3>1. n > 0
      BY <2>2, MostIsNat
    <3>2. vol.threads[c].parent \in Cnids
      BY <2>2, VolumeFacts
    <3>3. Above[<<n - 1, vol.threads[c].parent>>] \in Paths
      BY <1>12, <3>1, <3>2
    <3>. QED BY <1>11, <2>2, <3>3, OntoTypes
  <2>. QED BY <2>1, <2>2
<1>13. \A n \in 0..Most : \A c \in Cnids : Above[<<n, c>>] \in Paths
  <2>. DEFINE Off == {n \in 0..Most : ~ \A c \in Cnids : Above[<<n, c>>] \in Paths}
  <2>. SUFFICES ASSUME Off # {} PROVE FALSE
    OBVIOUS
  <2>1. PICK n \in Off : \A y \in Off : n <= y
    <3>1. Off \in SUBSET Nat
      BY MostIsNat
    <3>. QED BY <3>1, Least
  <2>2. n > 0 => n - 1 \notin Off /\ n - 1 \in 0..Most
    BY <2>1, MostIsNat
  <2>. QED BY <1>12, <2>1, <2>2
<1>. QED BY <1>11, <1>13 DEF AboveIs

\* More steps find the same path, if fewer find one.
LEMMA AboveGrows ==
    ASSUME vol \in Volumes
    PROVE  \A n \in 1..Most : \A c \in Cnids :
               Above[<<n - 1, c>>] # NoPath => Above[<<n, c>>] = Above[<<n - 1, c>>]
<1>. DEFINE Off == {n \in 1..Most : ~ \A c \in Cnids :
                       Above[<<n - 1, c>>] # NoPath => Above[<<n, c>>] = Above[<<n - 1, c>>]}
<1>0. AboveIs(Above)
  BY AboveUnfolds
<1>. SUFFICES ASSUME Off # {} PROVE FALSE
  OBVIOUS
<1>1. PICK n \in Off : \A y \in Off : n <= y
  <2>1. Off \in SUBSET Nat
    BY MostIsNat
  <2>. QED BY <2>1, Least
<1>2. PICK c \in Cnids : Above[<<n - 1, c>>] # NoPath /\ Above[<<n, c>>] # Above[<<n - 1, c>>]
  BY <1>1
<1>3. n \in 0..Most /\ n - 1 \in 0..Most /\ n # 0
  BY <1>1, MostIsNat
<1>4. c # Root
  BY <1>0, <1>2, <1>3 DEF AboveIs
<1>5. n - 1 # 0 /\ c \in DOMAIN vol.threads
  BY <1>0, <1>2, <1>3, <1>4 DEF AboveIs
<1>. DEFINE d == vol.threads[c].parent
<1>6. d \in Cnids
  BY <1>5, VolumeFacts
<1>7. Above[<<n, c>>] = Onto(c, Above[<<n - 1, d>>])
      /\ Above[<<n - 1, c>>] = Onto(c, Above[<<(n - 1) - 1, d>>])
  BY <1>0, <1>3, <1>4, <1>5 DEF AboveIs
<1>8. Above[<<(n - 1) - 1, d>>] # NoPath
  BY <1>2, <1>7 DEF Onto
<1>9. n - 1 \notin Off /\ n - 1 \in 1..Most
  BY <1>1, <1>3, <1>5, MostIsNat
<1>10. Above[<<n - 1, d>>] = Above[<<(n - 1) - 1, d>>]
  BY <1>6, <1>8, <1>9
<1>. QED BY <1>2, <1>7, <1>10

LEMMA AboveStays ==
    ASSUME vol \in Volumes, NEW n \in 0..Most, NEW c \in Cnids, Above[<<n, c>>] # NoPath
    PROVE  \A m \in n..Most : Above[<<m, c>>] = Above[<<n, c>>]
<1>. DEFINE Off == {m \in n..Most : Above[<<m, c>>] # Above[<<n, c>>]}
<1>. SUFFICES ASSUME Off # {} PROVE FALSE
  OBVIOUS
<1>1. PICK m \in Off : \A y \in Off : m <= y
  <2>1. Off \in SUBSET Nat
    BY MostIsNat
  <2>. QED BY <2>1, Least
<1>2. m # n
  BY <1>1
<1>3. m \in 1..Most /\ m - 1 \in n..Most /\ m - 1 \notin Off
  BY <1>1, <1>2, MostIsNat
<1>4. Above[<<m - 1, c>>] = Above[<<n, c>>]
  BY <1>3
<1>. QED BY <1>1, <1>3, <1>4, AboveGrows

\* A node whose path takes n steps and no fewer.
Deep(n, c) == Above[<<n, c>>] # NoPath /\ (n > 0 => Above[<<n - 1, c>>] = NoPath)

LEMMA DeepOnce ==
    ASSUME vol \in Volumes, NEW c \in Cnids, NEW n \in 0..Most, NEW m \in 0..Most, Deep(n, c), Deep(m, c)
    PROVE  n = m
<1>1. ASSUME NEW i \in 0..Most, NEW j \in 0..Most, Deep(i, c), Deep(j, c), i < j PROVE FALSE
  <2>1. j - 1 \in i..Most /\ j > 0
    BY <1>1, MostIsNat
  <2>2. Above[<<j - 1, c>>] = Above[<<i, c>>]
    BY <1>1, <2>1, AboveStays DEF Deep
  <2>. QED BY <1>1, <2>1, <2>2 DEF Deep
<1>. QED BY <1>1, MostIsNat

\* Above a deep node there is one that is one step less deep.
LEMMA LessDeep ==
    ASSUME vol \in Volumes, NEW n \in 1..Most, NEW c \in Cnids, Deep(n, c)
    PROVE  \E d \in Cnids : Deep(n - 1, d)
<1>0. AboveIs(Above) /\ n \in 0..Most /\ n - 1 \in 0..Most /\ n # 0 /\ n > 0
  BY AboveUnfolds, MostIsNat
<1>1. Above[<<n, c>>] # NoPath /\ Above[<<n - 1, c>>] = NoPath
  BY <1>0 DEF Deep
<1>2. c # Root
  BY <1>0, <1>1, Markers DEF AboveIs
<1>3. c \in DOMAIN vol.threads
  BY <1>0, <1>1, <1>2 DEF AboveIs
<1>. DEFINE d == vol.threads[c].parent
<1>4. d \in Cnids
  BY <1>3, VolumeFacts
<1>5. Above[<<n, c>>] = Onto(c, Above[<<n - 1, d>>])
  BY <1>0, <1>2, <1>3 DEF AboveIs
<1>6. Above[<<n - 1, d>>] # NoPath /\ vol.threads[c].name # NoName
  BY <1>1, <1>5 DEF Onto
<1>7. n - 1 > 0 => Above[<<(n - 1) - 1, d>>] = NoPath
  <2>. SUFFICES ASSUME n - 1 > 0, Above[<<(n - 1) - 1, d>>] # NoPath PROVE FALSE
    OBVIOUS
  <2>1. Above[<<n - 1, c>>] = Onto(c, Above[<<(n - 1) - 1, d>>])
    BY <1>0, <1>2, <1>3 DEF AboveIs
  <2>2. n - 1 \in 1..Most
    BY <1>0
  <2>3. Above[<<n - 1, d>>] = Above[<<(n - 1) - 1, d>>]
    BY <1>4, <2>2, AboveGrows
  <2>. QED BY <1>1, <1>5, <2>1, <2>3
<1>8. Deep(n - 1, d)
  BY <1>6, <1>7 DEF Deep
<1>. QED BY <1>4, <1>8

\* No path takes as many steps as there are nodes: the nodes on its way are of
\* different depths.
LEMMA NeverSoDeep == ASSUME vol \in Volumes, NEW c \in Cnids PROVE ~Deep(Most, c)
<1>. SUFFICES ASSUME Deep(Most, c) PROVE FALSE
  OBVIOUS
<1>. DEFINE Off == {k \in 0..Most : ~ \E d \in Cnids : Deep(Most - k, d)}
            depth(x) == CHOOSE n \in 0..Most : Deep(n, x)
            f == [x \in Cnids |-> IF \E n \in 0..Most : Deep(n, x) THEN depth(x) ELSE 0]
<1>1. Off = {}
  <2>. SUFFICES ASSUME Off # {} PROVE FALSE
    OBVIOUS
  <2>1. PICK k \in Off : \A y \in Off : k <= y
    <3>1. Off \in SUBSET Nat
      BY MostIsNat
    <3>. QED BY <3>1, Least
  <2>2. Most - 0 = Most
    BY MostIsNat
  <2>3. k # 0
    BY <2>1, <2>2
  <2>4. k - 1 \in 0..Most /\ k - 1 \notin Off /\ Most - (k - 1) \in 1..Most /\ Most - (k - 1) - 1 = Most - k
    BY <2>1, <2>3, MostIsNat
  <2>5. PICK d \in Cnids : Deep(Most - (k - 1), d)
    BY <2>4
  <2>6. \E e \in Cnids : Deep(Most - k, e)
    <3>1. \E e \in Cnids : Deep(Most - (k - 1) - 1, e)
      BY <2>4, <2>5, LessDeep
    <3>. QED BY <2>4, <3>1
  <2>. QED BY <2>1, <2>6
<1>2. \A n \in 0..Most : \E d \in Cnids : Deep(n, d)
  <2>. SUFFICES ASSUME NEW n \in 0..Most PROVE \E d \in Cnids : Deep(n, d)
    OBVIOUS
  <2>1. Most - n \in 0..Most /\ Most - (Most - n) = n
    BY MostIsNat
  <2>2. \E d \in Cnids : Deep(Most - (Most - n), d)
    BY <1>1, <2>1
  <2>. QED BY <2>1, <2>2
<1>3. f \in [Cnids -> 0..Most]
  <2>1. \A x \in Cnids : (\E n \in 0..Most : Deep(n, x)) => depth(x) \in 0..Most
    OBVIOUS
  <2>2. 0 \in 0..Most
    BY MostIsNat
  <2>. HIDE DEF depth
  <2>. QED BY <2>1, <2>2
<1>4. \A n \in 0..Most : \E d \in Cnids : f[d] = n
  <2>. SUFFICES ASSUME NEW n \in 0..Most PROVE \E d \in Cnids : f[d] = n
    OBVIOUS
  <2>1. PICK d \in Cnids : Deep(n, d)
    BY <1>2
  <2>2. depth(d) \in 0..Most /\ Deep(depth(d), d)
    BY <2>1
  <2>3. depth(d) = n
    <3>. HIDE DEF depth
    <3>. QED BY <2>1, <2>2, DeepOnce
  <2>. HIDE DEF depth
  <2>. QED BY <2>1, <2>3
<1>. HIDE DEF f
<1>5. f \in Surjection(Cnids, 0..Most)
  BY <1>3, <1>4 DEF Surjection
<1>6. Cardinality(0..Most) <= Cardinality(Cnids)
  BY <1>5, MostIsNat, FS_Surjection DEF ExistsSurjection
<1>7. Cardinality(0..Most) = Most + 1
  BY MostIsNat, FS_Interval
<1>. QED BY <1>6, <1>7, MostIsNat DEF Most

\* ByThreads climbs one thread, and goes on from its parent.
LEMMA ByThreadsClimbs ==
    ASSUME vol \in Volumes, NEW c \in Cnids
    PROVE  /\ ByThreads(c) \in Paths
           /\ c = Root => ByThreads(c) = <<>>
           /\ c # Root /\ c \notin DOMAIN vol.threads => ByThreads(c) = NoPath
           /\ c # Root /\ c \in DOMAIN vol.threads =>
                 ByThreads(c) = Onto(c, ByThreads(vol.threads[c].parent))
<1>0. AboveIs(Above) /\ Most \in 0..Most /\ Most # 0 /\ Most - 1 \in 0..Most /\ Most \in 1..Most /\ Most > 0
  BY AboveUnfolds, MostIsNat
<1>1. \A x : ByThreads(x) = Above[<<Most, x>>]
  BY DEF ByThreads, Most
<1>2. ASSUME c # Root, c \in DOMAIN vol.threads
      PROVE  ByThreads(c) = Onto(c, ByThreads(vol.threads[c].parent))
  <2>. DEFINE d == vol.threads[c].parent
  <2>1. d \in Cnids
    BY <1>2, VolumeFacts
  <2>2. Above[<<Most, c>>] = Onto(c, Above[<<Most - 1, d>>])
    BY <1>0, <1>2 DEF AboveIs
  <2>3. Above[<<Most - 1, d>>] = Above[<<Most, d>>]
    <3>1. CASE Above[<<Most - 1, d>>] # NoPath
      BY <1>0, <2>1, <3>1, AboveGrows
    <3>2. CASE Above[<<Most - 1, d>>] = NoPath
      BY <1>0, <2>1, <3>2, NeverSoDeep DEF Deep
    <3>. QED BY <3>1, <3>2
  <2>. QED BY <1>1, <2>2, <2>3
<1>. QED BY <1>0, <1>1, <1>2 DEF AboveIs

---------------------------------------------------------------------------
(* Two ways to a path agree. *)

LEMMA PathAtLonger ==
    ASSUME names \in Seq(Names), NEW base \in Seq(Names), NEW i \in 1..Len(names)
    PROVE  PathAt(base, i) # base
<1>. DEFINE s == SubSeq(names, i, Len(names))
<1>1. s \in Seq(Names) /\ Len(s) \in Nat /\ Len(s) >= 1
  OBVIOUS
<1>. HIDE DEF s
<1>2. Reverse(s) \in Seq(Names) /\ Len(Reverse(s)) = Len(s)
  BY <1>1, ReverseOf
<1>. DEFINE r == Reverse(s)
<1>3. Len(base \o r) = Len(base) + Len(r) /\ Len(base) \in Nat /\ Len(r) >= 1
  <2>1. r \in Seq(Names) /\ Len(r) \in Nat /\ Len(r) >= 1
    BY <1>1, <1>2
  <2>. HIDE DEF r
  <2>. QED BY <2>1
<1>4. PathAt(base, i) = base \o r
  BY DEF PathAt, s
<1>. HIDE DEF r
<1>. QED BY <1>3, <1>4

\* The nodes of a climb have threads, on a consistent volume.
Threaded == \A i \in 1..Len(chain) : chain[i] \in DOMAIN vol.threads

\* Where a climb is is the parent of a record: if it is there, it is a folder.
LEMMA AtAFolder ==
    ASSUME WalkTypes, Climbing, phase = "climb", Consistent, Threaded
    PROVE  /\ cur \in DOMAIN vol.records => cur = Root \/ cur \in DOMAIN vol.threads
           /\ PathUp(cur) = ByThreads(cur)
           /\ \A i \in 1..Len(chain) : /\ PathUp(chain[i]) = ByThreads(chain[i])
                                       /\ ByThreads(chain[i]) = LET up == ByThreads(From(i))
                                                                IN  IF up = NoPath THEN NoPath
                                                                    ELSE Append(up, names[i])
           /\ PathUp(rec) = LET up == ByThreads(vol.records[rec].parent)
                            IN  IF up = NoPath THEN NoPath ELSE Append(up, vol.records[rec].name)
<1>0. /\ vol \in Volumes /\ cur \in Cnids /\ rec \in DOMAIN vol.records \ {Root}
      /\ chain \in Seq(Cnids) /\ names \in Seq(Names) /\ Len(names) = Len(chain) /\ Len(chain) \in Nat
      /\ \A i \in 1..Len(chain) : chain[i] \in Cnids
  BY DEF WalkTypes, Climbing
<1>1. \A c \in DOMAIN vol.threads : c \in DOMAIN vol.records /\ (c # Root => vol.threads[c] = vol.records[c])
  BY DEF Consistent
<1>2. ASSUME NEW i \in 1..Len(chain)
      PROVE  /\ vol.threads[chain[i]].parent = From(i) /\ vol.threads[chain[i]].name = names[i]
             /\ chain[i] # Root /\ chain[i] \in DOMAIN vol.threads /\ names[i] # NoName
  <2>1. /\ chain[i] # Root /\ names[i] # NoName
        /\ [parent |-> From(i), name |-> names[i]] \in Says(chain[i])
    BY DEF Climbing
  <2>2. chain[i] \in DOMAIN vol.threads
    BY DEF Threaded
  <2>3. vol.threads[chain[i]] = [parent |-> From(i), name |-> names[i]]
    BY <1>1, <2>1, <2>2 DEF Says
  <2>. DEFINE up == From(i)
  <2>. HIDE DEF up
  <2>4. vol.threads[chain[i]].parent = up /\ vol.threads[chain[i]].name = names[i]
    BY <2>3 DEF up
  <2>. QED BY <2>1, <2>2, <2>4 DEF up
<1>3. \E d \in DOMAIN vol.records \ {Root} : vol.records[d].parent = cur
  <2>1. CASE chain = <<>>
    BY <1>0, <2>1 DEF Climbing
  <2>2. CASE chain # <<>>
    <3>1. Len(chain) \in 1..Len(chain)
      BY <1>0, <2>2
    <3>2. From(Len(chain)) = cur
      BY DEF From
    <3>. DEFINE d == chain[Len(chain)]
    <3>3. vol.threads[d].parent = cur /\ d # Root /\ d \in DOMAIN vol.threads
      BY <1>2, <3>1, <3>2
    <3>. HIDE DEF d
    <3>. QED BY <1>1, <3>3
  <2>. QED BY <2>1, <2>2
<1>4. cur \in DOMAIN vol.records => cur = Root \/ cur \in DOMAIN vol.threads
  BY <1>3 DEF Consistent
<1>5. PathUp(cur) = ByThreads(cur)
  <2>1. CASE cur \in DOMAIN vol.threads \union {Root}
    BY <2>1 DEF PathUp
  <2>2. CASE cur \notin DOMAIN vol.threads \union {Root}
    <3>1. ByThreads(cur) = NoPath
      BY <1>0, <2>2, ByThreadsClimbs
    <3>2. cur \notin DOMAIN vol.records \ (DOMAIN vol.threads \union {Root})
      BY <1>4
    <3>. QED BY <2>2, <3>1, <3>2 DEF PathUp
  <2>. QED BY <2>1, <2>2
<1>6. ASSUME NEW i \in 1..Len(chain)
      PROVE  /\ PathUp(chain[i]) = ByThreads(chain[i])
             /\ ByThreads(chain[i]) = LET up == ByThreads(From(i))
                                      IN  IF up = NoPath THEN NoPath ELSE Append(up, names[i])
  <2>1. chain[i] \in Cnids
    BY <1>0
  <2>2. ByThreads(chain[i]) = Onto(chain[i], ByThreads(vol.threads[chain[i]].parent))
    BY <1>0, <1>2, <2>1, ByThreadsClimbs
  <2>3. /\ vol.threads[chain[i]].parent = From(i) /\ vol.threads[chain[i]].name = names[i]
        /\ chain[i] \in DOMAIN vol.threads
        /\ vol.threads[chain[i]].name # NoName
    BY <1>2
  <2>4. PathUp(chain[i]) = ByThreads(chain[i])
    BY <2>3 DEF PathUp
  <2>. QED BY <2>2, <2>3, <2>4 DEF Onto
<1>7. PathUp(rec) = LET up == ByThreads(vol.records[rec].parent)
                    IN  IF up = NoPath THEN NoPath ELSE Append(up, vol.records[rec].name)
  <2>0. vol.records[rec].name # NoName /\ rec \in Cnids
    BY <1>0, VolumeFacts DEF Consistent
  <2>1. CASE rec \in DOMAIN vol.threads
    <3>1. ByThreads(rec) = Onto(rec, ByThreads(vol.threads[rec].parent))
      BY <1>0, <2>0, <2>1, ByThreadsClimbs
    <3>2. vol.threads[rec] = vol.records[rec]
      BY <1>0, <1>1, <2>1
    <3>3. PathUp(rec) = ByThreads(rec)
      BY <2>1 DEF PathUp
    <3>. QED BY <2>0, <3>1, <3>2, <3>3 DEF Onto
  <2>2. CASE rec \notin DOMAIN vol.threads
    BY <1>0, <2>0, <2>2 DEF PathUp
  <2>. QED BY <2>1, <2>2
<1>. QED BY <1>4, <1>5, <1>6, <1>7

\* The paths of the nodes passed follow from that of where the climb is.
LEMMA PassedPaths ==
    ASSUME WalkTypes, Climbing, phase = "climb", Consistent, Threaded
    PROVE  LET base == ByThreads(cur)
           IN  \A i \in 1..(Len(chain) + 1) :
                  ByThreads(IF i = Len(chain) + 1 THEN cur ELSE chain[i]) =
                      IF base = NoPath THEN NoPath ELSE PathAt(base, i)
<1>. DEFINE base == ByThreads(cur)
            n == Len(chain)
            node(i) == IF i = n + 1 THEN cur ELSE chain[i]
            Fine(i) == ByThreads(node(i)) = IF base = NoPath THEN NoPath ELSE PathAt(base, i)
            T == {k \in 0..n : ~Fine(n + 1 - k)}
<1>1. /\ names \in Seq(Names) /\ chain \in Seq(Cnids) /\ Len(names) = n /\ n \in Nat
      /\ vol \in Volumes /\ cur \in Cnids
  BY DEF Climbing, WalkTypes
<1>2. base \in Paths
  BY <1>1, ByThreadsClimbs
<1>3. base # NoPath => base \in Seq(Names)
  BY <1>2 DEF Paths
<1>. HIDE DEF base
<1>4. T = {}
  <2>. SUFFICES ASSUME T # {} PROVE FALSE
    OBVIOUS
  <2>1. PICK k \in T : \A y \in T : k <= y
    <3>1. T \in SUBSET Nat
      BY <1>1
    <3>. HIDE DEF T
    <3>. QED BY <3>1, Least
  <2>2. k # 0
    <3>1. base # NoPath => PathAt(base, n + 1) = base
      BY <1>1, <1>3, PathAtTop
    <3>2. n + 1 - 0 = n + 1 /\ node(n + 1) = cur
      BY <1>1
    <3>3. Fine(n + 1 - 0)
      <4>. HIDE DEF n
      <4>. QED BY <3>1, <3>2 DEF base
    <3>. HIDE DEF Fine, n
    <3>. QED BY <2>1, <3>3
  <2>3. k \in 1..n /\ k - 1 \in 0..n
    BY <1>1, <2>1, <2>2
  <2>. DEFINE i == n + 1 - k
  <2>4. i \in 1..n /\ n + 1 - (k - 1) = i + 1 /\ i # n + 1 /\ (i + 1 = n + 1 <=> i = n)
    BY <1>1, <2>3
  <2>5. Fine(i + 1)
    <3>1. k - 1 \notin T
      <4>1. k \in Int /\ \A y \in T : k <= y
        BY <1>1, <2>1, <2>3
      <4>. HIDE DEF T
      <4>. QED BY <4>1
    <3>. HIDE DEF Fine, i, n
    <3>. QED BY <2>3, <2>4, <3>1
  <2>6. node(i + 1) = From(i) /\ node(i) = chain[i]
    <3>. HIDE DEF i
    <3>. QED BY <2>4 DEF From
  <2>7. base # NoPath => /\ PathAt(base, i) = Append(PathAt(base, i + 1), names[i])
                         /\ PathAt(base, i + 1) \in Seq(Names)
    <3>1. i + 1 \in 1..(Len(names) + 1) /\ i \in 1..Len(names)
      BY <1>1, <2>4
    <3>. HIDE DEF i, n
    <3>. QED BY <1>1, <1>3, <3>1, PathAtUnfolds, PathAtTypes
  <2>8. ByThreads(chain[i]) = LET up == ByThreads(From(i))
                              IN  IF up = NoPath THEN NoPath ELSE Append(up, names[i])
    <3>. HIDE DEF i
    <3>. QED BY <2>4, AtAFolder
  <2>9. Fine(i)
    <3>. HIDE DEF i, node, n
    <3>1. CASE base = NoPath
      BY <2>5, <2>6, <2>8, <3>1
    <3>2. CASE base # NoPath
      <4>1. ByThreads(From(i)) = PathAt(base, i + 1)
        BY <2>5, <2>6, <3>2
      <4>2. PathAt(base, i + 1) # NoPath
        BY <2>7, <3>2, Markers
      <4>. QED BY <2>6, <2>7, <2>8, <3>2, <4>1, <4>2
    <3>. QED BY <3>1, <3>2
  <2>. HIDE DEF Fine
  <2>. QED BY <2>1, <2>9
<1>5. ASSUME NEW i \in 1..(n + 1) PROVE Fine(i)
  <2>1. n + 1 - i \in 0..n /\ n + 1 - (n + 1 - i) = i
    BY <1>1
  <2>2. n + 1 - i \notin T
    BY <1>4
  <2>. HIDE DEF Fine, n
  <2>. QED BY <2>1, <2>2
<1>. QED BY <1>5 DEF base

Agreed ==
    /\ \A c \in Cnids : memo.map[c] # Absent => memo.map[c] = PathUp(c)
    /\ \A i \in 1..Len(puts) : puts[i][2] = PathUp(puts[i][1])
    /\ phase = "keep" => path = PathUp(rec)
    /\ \A i \in 1..Len(emitted) : emitted[i].path = PathForCNID(emitted[i].cnid)

\* No read failed so far, and what the walk knows is what PathForCNID would say.
AgreeInv ==
    /\ faults \in Nat
    /\ Consistent /\ faults = 0 => Threaded /\ Agreed

LEMMA PathUpStays ==
    ASSUME UNCHANGED vol
    PROVE  /\ Consistent' <=> Consistent
           /\ \A c : PathUp(c)' = PathUp(c) /\ PathForCNID(c)' = PathForCNID(c)
<1>1. Consistent' <=> Consistent
  BY DEF Consistent
<1>2. \A c : PathUp(c)' = PathUp(c) /\ PathForCNID(c)' = PathForCNID(c)
  BY DEF PathForCNID, PathUp, ByThreads, Above
<1>. QED BY <1>1, <1>2

LEMMA PathUpOfRoot == ASSUME vol \in Volumes PROVE PathUp(Root) = <<>> /\ PathForCNID(Root) = <<>>
<1>1. PathUp(Root) = <<>>
  BY ByThreadsClimbs, Markers DEF PathUp
<1>. QED BY <1>1 DEF PathForCNID

LEMMA AgreeInit == WalkTypes /\ Init => AgreeInv
<1>. SUFFICES ASSUME WalkTypes, Init PROVE AgreeInv
  OBVIOUS
<1>1. faults = 0 /\ emitted = <<>> /\ puts = <<>> /\ chain = <<>> /\ phase = "record"
  BY DEF Init
<1>2. PICK max \in Bounds : memo = PutPath(Empty(Cnids, max), Root, <<>>)
  BY DEF Init
<1>. DEFINE m == Empty(Cnids, max)
<1>3. m \in Memos /\ \A c \in Cnids : m.map[c] = Absent
  BY PathWalkAssumption DEF Empty, Memos
<1>. HIDE DEF m
<1>4. memo.map[Root] = <<>> /\ \A c \in Cnids \ {Root} : memo.map[c] \in {m.map[c], Absent}
  BY <1>2, <1>3, Markers, PutKeeps DEF m
<1>5. ASSUME NEW c \in Cnids, memo.map[c] # Absent PROVE memo.map[c] = PathUp(c)
  BY <1>3, <1>4, <1>5, PathUpOfRoot DEF WalkTypes
<1>6. Len(<<>>) = 0
  OBVIOUS
<1>. QED BY <1>1, <1>5, <1>6 DEF AgreeInv, Agreed, Threaded

LEMMA CallbackAgreed ==
    ASSUME WalkTypes, Agreed, UNCHANGED <<vol, memo, puts>>, NEW c \in Cnids, NEW p \in Paths,
           Callback(c, p), p = PathForCNID(c)
    PROVE  Agreed'
<1>1. /\ Len(emitted') = Len(emitted) + 1 /\ Len(emitted) \in Nat
      /\ emitted'[Len(emitted) + 1] = [cnid |-> c, path |-> p]
      /\ \A i \in 1..Len(emitted) : emitted'[i] = emitted[i]
  BY CallbackEmits DEF WalkTypes
<1>2. \A a : PathUp(a)' = PathUp(a) /\ PathForCNID(a)' = PathForCNID(a)
  BY PathUpStays
<1>3. phase' # "keep"
  BY DEF Callback
<1>4. ASSUME NEW i \in 1..Len(emitted') PROVE emitted'[i].path = PathForCNID(emitted'[i].cnid)
  <2>1. CASE i = Len(emitted) + 1
    BY <1>1, <2>1
  <2>2. CASE i \in 1..Len(emitted)
    BY <1>1, <2>2 DEF Agreed
  <2>. QED BY <1>1, <2>1, <2>2
<1>. QED BY <1>2, <1>3, <1>4 DEF Agreed

LEMMA KeepAgreed ==
    ASSUME Agreed, UNCHANGED vol, NEW e, NEW p, Keep(e, p),
           \A i \in 1..Len(puts') : puts'[i][2] = PathUp(puts'[i][1]), path' = PathUp(rec)
    PROVE  Agreed' /\ Threaded'
<1>1. \A a : PathUp(a)' = PathUp(a) /\ PathForCNID(a)' = PathForCNID(a)
  BY PathUpStays
<1>2. UNCHANGED <<memo, rec, emitted>> /\ chain' = <<>>
  BY DEF Keep
<1>3. Len(<<>>) = 0
  OBVIOUS
<1>. QED BY <1>1, <1>2, <1>3 DEF Agreed, Threaded

\* A climb that comes to its base has come to the path of PathForCNID.
LEMMA BaseAgrees ==
    ASSUME WalkTypes, Climbing, phase = "climb", Consistent, Threaded, Agreed, NEW base, AtBase(base)
    PROVE  /\ \A i \in 1..Len(puts') : puts'[i][2] = PathUp(puts'[i][1])
           /\ path' = PathUp(rec)
<1>. DEFINE own == Append(PathAt(base, 1), vol.records[rec].name)
            n == Len(chain)
<1>0. base \in Seq(Names) /\ Resolve(base) /\ base # NoPath /\ base # Absent /\ cur \in Cnids /\ vol \in Volumes
  BY Markers DEF AtBase, Paths, WalkTypes
<1>1. ByThreads(cur) = base
  <2>1. CASE cur = Root /\ base = <<>>
    BY <1>0, <2>1, ByThreadsClimbs
  <2>2. CASE cur # Root /\ memo.map[cur] = base
    BY <1>0, <2>2, AtAFolder DEF Agreed
  <2>. QED BY <2>1, <2>2 DEF AtBase
<1>2. \A i \in 1..(n + 1) : ByThreads(IF i = n + 1 THEN cur ELSE chain[i]) = PathAt(base, i)
  BY <1>0, <1>1, PassedPaths
<1>3. /\ path' = own /\ PathAt(base, 1) \in Seq(Names)
      /\ \A j \in 1..Len(puts') :
                 \/ \E i \in 1..n : puts'[j] = <<chain[i], PathAt(base, i)>>
                 \/ puts'[j] = <<rec, own>>
  BY <1>0, ResolvedPuts
<1>4. n \in Nat /\ (n = 0 <=> chain = <<>>)
  BY DEF Climbing
<1>5. \A i \in 1..n : PathUp(chain[i]) = PathAt(base, i)
  <2>1. \A i \in 1..n : i \in 1..(n + 1) /\ i # n + 1
    BY <1>4
  <2>. QED BY <1>2, <2>1, AtAFolder
<1>6. PathUp(rec) = own
  <2>1. vol.records[rec].parent = IF chain = <<>> THEN cur ELSE chain[1]
    BY DEF Climbing
  <2>2. 1 \in 1..(n + 1) /\ (1 = n + 1 <=> n = 0)
    BY <1>4
  <2>3. ByThreads(vol.records[rec].parent) = PathAt(base, 1)
    BY <1>2, <1>4, <2>1, <2>2
  <2>4. PathAt(base, 1) # NoPath
    BY <1>3, Markers
  <2>. QED BY <2>3, <2>4, AtAFolder
<1>. HIDE DEF own, n
<1>. QED BY <1>3, <1>5, <1>6

\* A climb that fails, no read having failed, has nowhere to go by threads.
LEMMA FailureAgrees ==
    ASSUME WalkTypes, Climbing, phase = "climb", Consistent, Threaded, Agreed, Fails,
           faults \in Nat, faults' = 0
    PROVE  /\ \A i \in 1..Len(puts') : puts'[i][2] = PathUp(puts'[i][1])
           /\ path' = PathUp(rec)
<1>0. /\ cur \in Cnids /\ vol \in Volumes /\ FailPath /\ cur # Root /\ names \in Seq(Names)
      /\ Len(names) = Len(chain) /\ Len(chain) \in Nat
  BY DEF Fails, WalkTypes, Climbing
<1>1. ByThreads(cur) = NoPath
  <2>1. CASE Holds(memo, cur) /\ memo.map[cur] = NoPath
    <3>1. memo.map[cur] # Absent
      BY <2>1, Markers DEF Paths
    <3>. QED BY <1>0, <2>1, <3>1, AtAFolder DEF Agreed
  <2>2. CASE Looped
    <3>. SUFFICES ASSUME ByThreads(cur) # NoPath PROVE FALSE
      OBVIOUS
    <3>. DEFINE base == ByThreads(cur)
    <3>1. base \in Seq(Names)
      BY <1>0, ByThreadsClimbs DEF Paths
    <3>2. PICK j \in 1..Len(chain) : chain[j] = cur
      BY <2>2 DEF Looped, ToSet, Climbing
    <3>3. j \in 1..(Len(chain) + 1) /\ j # Len(chain) + 1 /\ j \in 1..Len(names)
      BY <1>0
    <3>4. ByThreads(chain[j]) = PathAt(base, j)
      BY <3>3, PassedPaths
    <3>5. PathAt(base, j) # base
      <4>. HIDE DEF base
      <4>. QED BY <1>0, <3>1, <3>3, PathAtLonger
    <3>. QED BY <3>2, <3>4, <3>5
  <2>3. CASE ReadFails
    BY <2>3 DEF ReadFails
  <2>4. ASSUME NEW link, PassedBy(link), link.name = NoName PROVE FALSE
    <3>1. cur \in DOMAIN vol.threads /\ link = vol.threads[cur]
      BY <1>0, <2>4, AtAFolder DEF PassedBy
    <3>. QED BY <1>0, <2>4, <3>1 DEF Consistent
  <2>5. CASE cur \notin DOMAIN vol.threads
    BY <1>0, <2>5, ByThreadsClimbs
  <2>. QED BY <2>1, <2>2, <2>3, <2>4, <2>5 DEF Fails
<1>2. \A i \in 1..Len(chain) : PathUp(chain[i]) = NoPath
  <2>1. \A i \in 1..Len(chain) : i \in 1..(Len(chain) + 1) /\ i # Len(chain) + 1
    BY <1>0
  <2>. QED BY <1>1, <2>1, PassedPaths, AtAFolder
<1>3. LET up == vol.records[rec].parent IN PathUp(up) = NoPath /\ ByThreads(up) = NoPath
  <2>1. vol.records[rec].parent = IF chain = <<>> THEN cur ELSE chain[1]
    BY DEF Climbing
  <2>2. chain # <<>> => 1 \in 1..Len(chain)
    BY <1>0 DEF Climbing
  <2>. QED BY <1>1, <1>2, <2>1, <2>2, AtAFolder
<1>4. PathUp(rec) = NoPath
  BY <1>3, AtAFolder
<1>5. /\ path' = NoPath
      /\ \A j \in 1..Len(puts') :
            /\ puts'[j][2] = NoPath
            /\ \/ puts'[j][1] = vol.records[rec].parent
               \/ \E i \in 1..Len(chain) : puts'[j][1] = chain[i]
  BY <1>0, FailedPuts
<1>. QED BY <1>2, <1>3, <1>4, <1>5

LEMMA AgreeStep ==
    ASSUME WalkTypes, Climbing, AgreeInv, Next
    PROVE  AgreeInv'
<1>0. UNCHANGED vol /\ (Consistent' <=> Consistent) /\ vol \in Volumes
      /\ \A c : PathUp(c)' = PathUp(c) /\ PathForCNID(c)' = PathForCNID(c)
  BY WalkStep, PathUpStays DEF WalkTypes
<1>1. faults' \in Nat /\ (faults' = 0 => faults = 0)
  <2>1. faults' = faults \/ faults' = faults + 1
    BY DEF Next, Record, Climb, PutNext, Emit, ReadFails
  <2>. QED BY <2>1 DEF AgreeInv
<1>. SUFFICES ASSUME Consistent, faults' = 0 PROVE Threaded' /\ Agreed'
  BY <1>0, <1>1 DEF AgreeInv
<1>2. faults \in Nat /\ faults = 0 /\ Threaded /\ Agreed
  BY <1>1 DEF AgreeInv
<1>3. Len(<<>>) = 0
  OBVIOUS
<1>4. CASE Record
  <2>0. chain' = chain
    BY <1>4 DEF Record, Decoded, End, climb
  <2>1. CASE phase' # "keep" /\ UNCHANGED <<memo, puts, emitted>>
    BY <1>0, <1>2, <2>0, <2>1 DEF Agreed, Threaded
  <2>2. CASE UNCHANGED <<memo, puts>> /\ Callback(Root, <<>>)
    <3>1. <<>> = PathForCNID(Root)
      BY <1>0, PathUpOfRoot
    <3>2. Agreed'
      BY <1>0, <1>2, <2>2, <3>1, Markers, CallbackAgreed
    <3>. QED BY <1>0, <1>2, <2>0, <3>2 DEF Threaded
  <2>. QED BY <1>4, <2>1, <2>2 DEF Record, Decoded, End, climb, kept
<1>5. CASE Climb
  <2>1. /\ phase = "climb"
        /\ \/ \E base : AtBase(base)
           \/ Fails
           \/ \E link : Passes(link)
    BY <1>5, ClimbCases
  <2>2. ASSUME NEW base, AtBase(base) PROVE Threaded' /\ Agreed'
    <3>1. /\ \A i \in 1..Len(puts') : puts'[i][2] = PathUp(puts'[i][1])
          /\ path' = PathUp(rec)
      BY <1>2, <2>1, <2>2, BaseAgrees
    <3>2. \E e, p : Keep(e, p)
      BY <2>2 DEF AtBase, Resolve
    <3>. QED BY <1>0, <1>2, <3>1, <3>2, KeepAgreed
  <2>3. CASE Fails
    <3>1. /\ \A i \in 1..Len(puts') : puts'[i][2] = PathUp(puts'[i][1])
          /\ path' = PathUp(rec)
      BY <1>2, <2>1, <2>3, FailureAgrees
    <3>2. \E e, p : Keep(e, p)
      BY <2>3 DEF Fails, FailPath
    <3>. QED BY <1>0, <1>2, <3>1, <3>2, KeepAgreed
  <2>4. ASSUME NEW link, Passes(link) PROVE Threaded' /\ Agreed'
    <3>1. UNCHANGED <<memo, puts, emitted, phase>> /\ chain' = Append(chain, cur)
      BY <2>4 DEF Passes, kept
    <3>2. cur \in DOMAIN vol.threads
      BY <1>2, <2>1, <2>4, AtAFolder DEF Passes, PassedBy
    <3>3. Len(chain') = Len(chain) + 1 /\ chain'[Len(chain) + 1] = cur /\ Len(chain) \in Nat
          /\ \A i \in 1..Len(chain) : chain'[i] = chain[i]
      BY <3>1 DEF Climbing, WalkTypes
    <3>4. Threaded'
      <4>1. \A i \in 1..(Len(chain) + 1) : i \in 1..Len(chain) \/ i = Len(chain) + 1
        BY <3>3
      <4>. QED BY <1>0, <1>2, <3>2, <3>3, <4>1 DEF Threaded
    <3>. QED BY <1>0, <1>2, <2>1, <3>1, <3>4 DEF Agreed
  <2>. QED BY <2>1, <2>2, <2>3, <2>4
<1>6. CASE PutNext
  <2>1. /\ phase = "keep" /\ puts # <<>> /\ puts \in Seq(Cnids \X Paths) /\ puts' = Tail(puts)
        /\ UNCHANGED <<phase, rec, path, emitted, chain>> /\ memo \in Memos
    BY <1>6 DEF PutNext, WalkTypes, climb
  <2>2. /\ Len(puts) \in Nat /\ Len(puts) >= 1 /\ Len(puts') = Len(puts) - 1 /\ Head(puts) = puts[1]
        /\ \A i \in 1..Len(puts') : puts'[i] = puts[i + 1]
    BY <2>1
  <2>3. Head(puts) \in Cnids \X Paths
    BY <2>1, HeadTailProperties
  <2>. DEFINE c == Head(puts)[1]
              p == Head(puts)[2]
  <2>4. c \in Cnids /\ p \in Paths /\ p = PathUp(c)
    BY <1>2, <2>2, <2>3 DEF Agreed
  <2>5. memo' = PutPath(memo, c, p)
    BY <1>6 DEF PutNext
  <2>. HIDE DEF c, p
  <2>6. memo'.map[c] = p /\ \A k \in Cnids \ {c} : memo'.map[k] \in {memo.map[k], Absent}
    BY <2>1, <2>4, <2>5, PutKeeps
  <2>7. ASSUME NEW k \in Cnids, memo'.map[k] # Absent PROVE memo'.map[k] = PathUp(k)
    BY <1>2, <2>4, <2>6, <2>7 DEF Agreed
  <2>8. \A i \in 1..Len(puts') : puts'[i][2] = PathUp(puts'[i][1])
    <3>1. \A i \in 1..Len(puts') : i + 1 \in 1..Len(puts)
      BY <2>2
    <3>. QED BY <1>2, <2>2, <3>1 DEF Agreed
  <2>. QED BY <1>0, <1>2, <2>1, <2>7, <2>8 DEF Agreed, Threaded
<1>7. CASE Emit
  <2>1. phase = "keep" /\ Callback(rec, path) /\ UNCHANGED <<vol, memo, puts, chain>>
    BY <1>7 DEF Emit
  <2>2. rec \in Cnids /\ path \in Paths /\ rec \in DOMAIN vol.records
    BY <2>1, VolumeFacts DEF WalkTypes
  <2>3. path = PathForCNID(rec)
    BY <1>2, <2>1, <2>2 DEF PathForCNID, Agreed
  <2>. QED BY <1>0, <1>2, <2>1, <2>2, <2>3, CallbackAgreed DEF Threaded
<1>. QED BY <1>4, <1>5, <1>6, <1>7 DEF Next

---------------------------------------------------------------------------
(* A memo that never evicts. *)

LEMMA PutEvictsNone ==
    ASSUME NEW m \in Memos, Sound(m), NEW c \in Cnids, NEW p \in Paths
    PROVE  LET t == PutPath(m, c, p)
           IN  Sound(t) /\ t.max = m.max /\ (m.max >= Most => t.map = [m.map EXCEPT ![c] = p])
<1>. DEFINE t == PutPath(m, c, p)
            n == Len(m.order)
<1>1. /\ m.map \in [Cnids -> Paths \union {Absent}] /\ m.order \in Seq(Cnids) /\ m.max \in Nat \ {0}
      /\ n \in Nat /\ p # Absent /\ \A i \in 1..n : m.order[i] \in Cnids
  BY Markers DEF Memos
<1>2. CASE Holds(m, c)
  <2>1. t = [map |-> [m.map EXCEPT ![c] = p], order |-> m.order, max |-> m.max]
    BY <1>1, <1>2 DEF PutPath, Store
  <2>. HIDE DEF t
  <2>2. \A k \in Cnids : Holds(t, k) <=> Holds(m, k)
    BY <1>1, <1>2, <2>1 DEF Holds
  <2>. QED BY <1>1, <2>1, <2>2 DEF Sound, t
<1>3. CASE ~Holds(m, c)
  <2>. DEFINE k0 == m.max - 1
              r == Trim(m, k0)
              gone == Evicted(m.order, k0)
  <2>1. t = [map |-> [r.map EXCEPT ![c] = p], order |-> Append(r.order, c), max |-> m.max]
    BY <1>1, <1>3 DEF PutPath, Store, Insert
  <2>2. r.map = [k \in Cnids |-> IF k \in gone THEN Absent ELSE m.map[k]] /\ r.order = Newest(m.order, k0)
    BY <1>1 DEF Trim
  <2>3. k0 \in Nat /\ k0 + 1 = m.max
    BY <1>1
  <2>4. n <= m.max /\ \A i, j \in 1..n : m.order[i] = m.order[j] => i = j
    BY DEF Sound
  <2>5. \A k \in Cnids : Holds(m, k) <=> \E i \in 1..n : m.order[i] = k
    BY <1>1 DEF Sound
  <2>. HIDE DEF k0, gone, r, t
  <2>6. /\ r.order \in Seq(Cnids) /\ Len(r.order) <= k0 /\ Len(r.order) \in Nat
        /\ \A i, j \in 1..Len(r.order) : r.order[i] = r.order[j] => i = j
        /\ \A k \in Cnids : (k \notin gone /\ Holds(m, k)) <=> \E i \in 1..Len(r.order) : r.order[i] = k
    <3>1. CASE n <= k0
      <4>1. r.order = m.order
        BY <2>2, <3>1 DEF Newest
      <4>2. gone = {}
        <5>1. 1..(n - k0) = {}
          BY <1>1, <2>3, <3>1
        <5>. QED BY <5>1 DEF gone, Evicted
      <4>. QED BY <1>1, <2>4, <2>5, <3>1, <4>1, <4>2
    <3>2. CASE n > k0
      <4>0. n = k0 + 1 /\ n - k0 = 1
        BY <1>1, <2>3, <2>4, <3>2
      <4>1. r.order = [i \in 1..k0 |-> m.order[1 + i]]
        BY <1>1, <2>2, <2>3, <3>2, <4>0 DEF Newest
      <4>2. \A i \in 1..k0 : 1 + i \in 1..n
        BY <2>3, <4>0
      <4>3. r.order \in Seq(Cnids) /\ Len(r.order) = k0
        BY <1>1, <2>3, <4>1, <4>2
      <4>4. \A i \in 1..k0 : r.order[i] = m.order[1 + i]
        BY <4>1
      <4>5. gone = {m.order[1]} /\ 1 \in 1..n
        <5>1. 1..1 = {1}
          OBVIOUS
        <5>. QED BY <2>3, <4>0, <5>1 DEF gone, Evicted
      <4>6. \A i, j \in 1..k0 : r.order[i] = r.order[j] => i = j
        <5>. SUFFICES ASSUME NEW i \in 1..k0, NEW j \in 1..k0, r.order[i] = r.order[j] PROVE i = j
          OBVIOUS
        <5>1. 1 + i = 1 + j
          BY <2>4, <4>2, <4>4
        <5>. QED BY <5>1
      <4>7. ASSUME NEW k \in Cnids
            PROVE  (k \notin gone /\ Holds(m, k)) <=> \E i \in 1..k0 : r.order[i] = k
        <5>1. ASSUME k \notin gone, Holds(m, k) PROVE \E i \in 1..k0 : r.order[i] = k
          <6>1. PICK i \in 1..n : m.order[i] = k
            BY <2>5, <5>1
          <6>2. i # 1
            BY <4>5, <5>1, <6>1
          <6>3. i - 1 \in 1..k0 /\ 1 + (i - 1) = i
            BY <1>1, <2>3, <4>0, <6>2
          <6>. QED BY <4>4, <6>1, <6>3
        <5>2. ASSUME NEW i \in 1..k0, r.order[i] = k PROVE k \notin gone /\ Holds(m, k)
          <6>1. m.order[1 + i] = k /\ 1 + i \in 1..n /\ 1 + i # 1
            BY <4>2, <4>4, <5>2
          <6>2. m.order[1] # k
            BY <2>4, <4>5, <6>1
          <6>. QED BY <2>5, <4>5, <6>1, <6>2
        <5>. QED BY <5>1, <5>2
      <4>. QED BY <2>3, <4>3, <4>6, <4>7
    <3>. QED BY <1>1, <2>3, <3>1, <3>2
  <2>7. /\ t.order = Append(r.order, c) /\ t.max = m.max /\ t.map = [r.map EXCEPT ![c] = p]
        /\ Len(t.order) = Len(r.order) + 1 /\ t.order[Len(r.order) + 1] = c
        /\ \A i \in 1..Len(r.order) : t.order[i] = r.order[i] /\ r.order[i] \in Cnids
    BY <2>1, <2>6
  <2>8. \A i \in 1..Len(r.order) : r.order[i] # c
    BY <1>3, <2>6
  <2>9. Sound(t)
    <3>1. \A i, j \in 1..Len(t.order) : t.order[i] = t.order[j] => i = j
      <4>1. \A i \in 1..(Len(r.order) + 1) : i \in 1..Len(r.order) \/ i = Len(r.order) + 1
        BY <2>6
      <4>. QED BY <2>6, <2>7, <2>8, <4>1
    <3>2. Len(t.order) <= t.max
      BY <1>1, <2>3, <2>6, <2>7
    <3>3. DOMAIN t.map = Cnids
      BY <2>2, <2>7
    <3>4. ASSUME NEW k \in Cnids PROVE Holds(t, k) <=> \E i \in 1..Len(t.order) : t.order[i] = k
      <4>1. CASE k = c
        <5>1. t.map[k] = p
          BY <2>2, <2>7, <4>1
        <5>2. Len(r.order) + 1 \in 1..Len(t.order)
          BY <2>6, <2>7
        <5>. QED BY <1>1, <2>7, <4>1, <5>1, <5>2 DEF Holds
      <4>2. CASE k # c
        <5>1. Holds(t, k) <=> k \notin gone /\ Holds(m, k)
          BY <2>2, <2>7, <4>2 DEF Holds
        <5>2. (\E i \in 1..Len(t.order) : t.order[i] = k) <=> \E i \in 1..Len(r.order) : r.order[i] = k
          <6>1. \A i \in 1..(Len(r.order) + 1) : i \in 1..Len(r.order) \/ i = Len(r.order) + 1
            BY <2>6
          <6>2. \A i \in 1..Len(r.order) : i \in 1..(Len(r.order) + 1)
            BY <2>6
          <6>. QED BY <2>7, <4>2, <6>1, <6>2
        <5>. QED BY <2>6, <5>1, <5>2
      <4>. QED BY <4>1, <4>2
    <3>. QED BY <3>1, <3>2, <3>3, <3>4 DEF Sound
  <2>10. ASSUME m.max >= Most PROVE t.map = [m.map EXCEPT ![c] = p]
    <3>. DEFINE f == [i \in 1..n |-> m.order[i]]
    <3>1. \A i \in 1..n : m.order[i] \in Cnids \ {c}
      BY <1>1, <1>3, <2>5
    <3>2. f \in Injection(1..n, Cnids \ {c})
      BY <2>4, <3>1 DEF Injection, IsInjective
    <3>3. Cardinality(1..n) = n
      BY <1>1, FS_Interval
    <3>4. IsFiniteSet(Cnids \ {c}) /\ Cardinality(Cnids \ {c}) = Most - 1
      BY MostIsNat, FS_RemoveElement DEF Most
    <3>. HIDE DEF f
    <3>5. n <= Most - 1
      BY <3>2, <3>3, <3>4, FS_Injection
    <3>6. 1..(n - k0) = {}
      BY <1>1, <2>3, <2>10, <3>5, MostIsNat
    <3>7. gone = {}
      BY <3>6 DEF gone, Evicted
    <3>. QED BY <1>1, <2>2, <2>7, <3>7
  <2>. QED BY <2>7, <2>9, <2>10 DEF t
<1>. QED BY <1>2, <1>3

---------------------------------------------------------------------------
(* What is inside a folder is reported below it. *)

\* A folder reported with a path.
Shown(i) == emitted[i].cnid \in vol.folders /\ emitted[i].path # NoPath

SweepInv ==
    /\ Sound(memo)
    /\ \A i \in 1..Len(emitted) :
          /\ \E k \in 1..Len(vol.order) : k < next /\ emitted[i].cnid = vol.order[k]
          /\ emitted[i].cnid = Root => emitted[i].path = <<>>
    /\ phase = "climb" => \A i \in 1..Len(chain) : memo.map[chain[i]] = Absent

\* The memo knows the folders reported and is not about to be told otherwise.
Told ==
    \A i \in 1..Len(emitted) :
        Shown(i) /\ emitted[i].cnid # Root =>
            /\ memo.map[emitted[i].cnid] = emitted[i].path
            /\ \A j \in 1..Len(puts) : puts[j][1] # emitted[i].cnid

\* The record about to be reported is below its parent, and will be in the memo.
Placing ==
    phase = "keep" =>
        /\ \A i \in 1..Len(emitted) :
              Shown(i) /\ emitted[i].cnid = vol.records[rec].parent
              => path = Append(emitted[i].path, vol.records[rec].name)
        /\ rec \in vol.folders /\ path # NoPath =>
              \/ puts = <<>> /\ memo.map[rec] = path
              \/ Len(puts) # 0 /\ puts[Len(puts)] = <<rec, path>>

FollowInv == SweepInv /\ (memo.max >= Most => ChildrenFollow /\ Told /\ Placing)

LEMMA FollowInit == WalkTypes /\ Init => FollowInv
<1>. SUFFICES ASSUME WalkTypes, Init PROVE FollowInv
  OBVIOUS
<1>1. emitted = <<>> /\ puts = <<>> /\ chain = <<>> /\ phase = "record"
  BY DEF Init
<1>2. PICK max \in Bounds : memo = PutPath(Empty(Cnids, max), Root, <<>>)
  BY DEF Init
<1>. DEFINE m == Empty(Cnids, max)
<1>3. m \in Memos /\ Sound(m)
  BY PathWalkAssumption DEF Empty, Memos, Sound, Holds
<1>. HIDE DEF m
<1>4. Sound(memo)
  BY <1>2, <1>3, Markers, PutEvictsNone DEF m
<1>5. Len(<<>>) = 0 /\ DOMAIN <<>> = {}
  OBVIOUS
<1>. QED BY <1>1, <1>4, <1>5 DEF FollowInv, SweepInv, Told, Placing, ChildrenFollow

LEMMA EmittedTypes ==
    ASSUME WalkTypes, NEW i \in 1..Len(emitted)
    PROVE  emitted[i].cnid \in Cnids /\ emitted[i].path \in Paths
<1>. DEFINE S == [cnid : Cnids, path : Paths]
<1>1. emitted \in Seq(S)
  BY DEF WalkTypes
<1>. HIDE DEF S
<1>2. emitted[i] \in S
  BY ONLY <1>1, i \in 1..Len(emitted)
<1>. QED BY <1>2 DEF S

\* The record at hand has not been reported.
LEMMA NotYet ==
    ASSUME WalkTypes, SweepInv, next \in 1..Len(vol.order), NEW i \in 1..Len(emitted)
    PROVE  emitted[i].cnid # vol.order[next]
<1>1. PICK k \in 1..Len(vol.order) : k < next /\ emitted[i].cnid = vol.order[k]
  BY DEF SweepInv
<1>2. IsInjective(vol.order) /\ DOMAIN vol.order = 1..Len(vol.order) /\ next \in Nat
  BY VolumeFacts DEF WalkTypes
<1>3. k # next
  BY <1>1, <1>2
<1>. QED BY <1>1, <1>2, <1>3 DEF IsInjective

\* One record more is reported.
LEMMA OneMoreShown ==
    ASSUME WalkTypes, Climbing, FollowInv, UNCHANGED <<vol, memo, puts, chain>>, NEW c \in Cnids, NEW p \in Paths,
           Callback(c, p), next \in 1..Len(vol.order), c = vol.order[next],
           c = Root => p = <<>>,
           memo.max >= Most /\ c # Root =>
               /\ puts = <<>>
               /\ \A i \in 1..Len(emitted) :
                     Shown(i) /\ emitted[i].cnid = vol.records[c].parent
                     => p = Append(emitted[i].path, vol.records[c].name)
               /\ c \in vol.folders /\ p # NoPath => memo.map[c] = p
    PROVE  FollowInv'
<1>. DEFINE n == Len(emitted)
<1>1. /\ Len(emitted') = n + 1 /\ n \in Nat
      /\ emitted'[n + 1] = [cnid |-> c, path |-> p]
      /\ \A i \in 1..n : emitted'[i] = emitted[i]
      /\ emitted' \in Seq([cnid : Cnids, path : Paths])
  BY CallbackEmits DEF WalkTypes
<1>2. /\ DOMAIN emitted' = 1..(n + 1) /\ \A i \in 1..(n + 1) : i \in 1..n \/ i = n + 1
      /\ DOMAIN emitted = 1..n /\ next \in Nat
  BY <1>1 DEF WalkTypes
<1>3. next' = next + 1 /\ phase' \in {"record", "done"}
  BY DEF Callback
<1>. HIDE DEF n
<1>4. SweepInv'
  <2>1. ASSUME NEW i \in 1..(n + 1)
        PROVE  /\ \E k \in 1..Len(vol.order) : k < next' /\ emitted'[i].cnid = vol.order[k]
               /\ emitted'[i].cnid = Root => emitted'[i].path = <<>>
    <3>1. CASE i \in 1..n
      <4>1. PICK k \in 1..Len(vol.order) : k < next /\ emitted[i].cnid = vol.order[k]
        BY <3>1 DEF FollowInv, SweepInv, n
      <4>2. k < next'
        BY <1>2, <1>3, <4>1
      <4>3. emitted[i].cnid = Root => emitted[i].path = <<>>
        BY <3>1 DEF FollowInv, SweepInv, n
      <4>. QED BY <1>1, <3>1, <4>1, <4>2, <4>3
    <3>2. CASE i = n + 1
      <4>1. next < next'
        BY <1>2, <1>3
      <4>. QED BY <1>1, <3>2, <4>1
    <3>. QED BY <1>2, <3>1, <3>2
  <2>2. Sound(memo')
    BY DEF FollowInv, SweepInv
  <2>. QED BY <1>1, <1>3, <2>1, <2>2 DEF SweepInv
<1>5. ASSUME memo.max >= Most PROVE ChildrenFollow' /\ Told' /\ Placing'
  <2>0. ChildrenFollow /\ Told
    BY <1>5 DEF FollowInv
  <2>1. Told'
    <3>1. ASSUME NEW i \in 1..(n + 1), emitted'[i].cnid \in vol.folders, emitted'[i].path # NoPath,
                 emitted'[i].cnid # Root
          PROVE  /\ memo.map[emitted'[i].cnid] = emitted'[i].path
                 /\ \A j \in 1..Len(puts) : puts[j][1] # emitted'[i].cnid
      <4>1. CASE i \in 1..n
        BY <1>1, <2>0, <3>1, <4>1 DEF Told, Shown, n
      <4>2. CASE i = n + 1
        <5>1. c # Root /\ c \in vol.folders /\ p # NoPath
          BY <1>1, <3>1, <4>2
        <5>2. Len(<<>>) = 0
          OBVIOUS
        <5>. QED BY <1>1, <1>5, <4>2, <5>1, <5>2
      <4>. QED BY <1>2, <4>1, <4>2
    <3>. QED BY <1>1, <3>1 DEF Told, Shown
  <2>2. Placing'
    BY <1>3 DEF Placing
  <2>3. ASSUME NEW i \in 1..(n + 1), NEW j \in 1..(n + 1), i < j,
               emitted'[i].cnid \in vol.folders, emitted'[i].path # NoPath, emitted'[j].cnid # Root,
               vol.records[emitted'[j].cnid].parent = emitted'[i].cnid
        PROVE  emitted'[j].path = Append(emitted'[i].path, vol.records[emitted'[j].cnid].name)
    <3>0. i \in 1..n
      BY <1>1, <2>3
    <3>1. CASE j \in 1..n
      <4>1. i \in DOMAIN emitted /\ j \in DOMAIN emitted /\ emitted'[i] = emitted[i] /\ emitted'[j] = emitted[j]
        BY <1>1, <1>2, <3>0, <3>1
      <4>. QED BY <2>0, <2>3, <4>1 DEF ChildrenFollow
    <3>2. CASE j = n + 1
      <4>1. c # Root /\ Shown(i) /\ emitted[i].cnid = vol.records[c].parent
        BY <1>1, <2>3, <3>0, <3>2 DEF Shown
      <4>. QED BY <1>1, <1>5, <3>0, <3>2, <4>1 DEF n
    <3>. QED BY <1>2, <3>1, <3>2
  <2>4. ChildrenFollow'
    BY <1>2, <2>3 DEF ChildrenFollow
  <2>. QED BY <2>1, <2>2, <2>4
<1>. QED BY <1>4, <1>5 DEF FollowInv

\* The climb ends, with what the memo is to be told.
LEMMA ClimbToldOf ==
    ASSUME WalkTypes, Climbing, FollowInv, phase = "climb", UNCHANGED vol, NEW e, NEW p, Keep(e, p),
           memo.max >= Most =>
               /\ \A i \in 1..Len(emitted) : Shown(i) =>
                     /\ emitted[i].cnid # Root => \A j \in 1..Len(puts') : puts'[j][1] # emitted[i].cnid
                     /\ emitted[i].cnid = vol.records[rec].parent
                        => path' = Append(emitted[i].path, vol.records[rec].name)
               /\ rec \in vol.folders /\ path' # NoPath => Len(puts') # 0 /\ puts'[Len(puts')] = <<rec, path'>>
    PROVE  FollowInv'
<1>1. UNCHANGED <<memo, next, rec, emitted>> /\ phase' = "keep"
  BY DEF Keep
<1>2. SweepInv'
  BY <1>1 DEF SweepInv, FollowInv
<1>3. ASSUME memo.max >= Most PROVE ChildrenFollow' /\ Told' /\ Placing'
  <2>1. ChildrenFollow /\ Told
    BY <1>3 DEF FollowInv
  <2>2. ChildrenFollow'
    BY <1>1, <2>1 DEF ChildrenFollow
  <2>3. Told'
    BY <1>1, <1>3, <2>1 DEF Told, Shown
  <2>4. Placing'
    BY <1>1, <1>3 DEF Placing, Shown
  <2>. QED BY <2>2, <2>3, <2>4
<1>. QED BY <1>1, <1>2, <1>3 DEF FollowInv

LEMMA FollowStep ==
    ASSUME WalkTypes, Climbing, FollowInv, Next
    PROVE  FollowInv'
<1>0. UNCHANGED vol /\ vol \in Volumes /\ memo \in Memos
  BY WalkStep DEF WalkTypes
<1>1. CASE Record
  <2>0. phase = "record" /\ chain = <<>> /\ chain' = chain /\ Len(<<>>) = 0
    BY <1>1 DEF Record, Decoded, End, climb, Climbing
  <2>1. CASE phase' # "keep" /\ next' >= next /\ UNCHANGED <<memo, puts, emitted>>
    <3>1. SweepInv'
      <4>1. ASSUME NEW i \in 1..Len(emitted)
            PROVE  /\ \E k \in 1..Len(vol.order) : k < next' /\ emitted[i].cnid = vol.order[k]
                   /\ emitted[i].cnid = Root => emitted[i].path = <<>>
        <5>1. PICK k \in 1..Len(vol.order) : k < next /\ emitted[i].cnid = vol.order[k]
          BY DEF FollowInv, SweepInv
        <5>2. k < next'
          <6>1. k \in Int /\ next \in Int /\ next' \in Int
            BY WalkStep DEF WalkTypes
          <6>. QED BY <2>1, <5>1, <6>1
        <5>. QED BY <5>1, <5>2 DEF FollowInv, SweepInv
      <4>. QED BY <1>0, <2>0, <2>1, <4>1 DEF SweepInv, FollowInv
    <3>2. memo.max >= Most => ChildrenFollow' /\ Told' /\ Placing'
      BY <1>0, <2>1 DEF FollowInv, ChildrenFollow, Told, Placing, Shown
    <3>. QED BY <2>1, <3>1, <3>2 DEF FollowInv
  <2>2. CASE /\ UNCHANGED <<memo, puts, chain>> /\ Callback(Root, <<>>)
             /\ next <= Len(vol.order) /\ vol.order[next] = Root
    <3>1. next \in 1..Len(vol.order)
      BY <1>0, <2>2, VolumeFacts DEF WalkTypes
    <3>. QED BY <1>0, <2>2, <3>1, Markers, OneMoreShown
  <2>3. next + 1 >= next /\ next >= next
    BY DEF WalkTypes
  <2>. QED BY <1>1, <2>0, <2>1, <2>2, <2>3 DEF Record, Decoded, End, climb, kept
<1>2. CASE Climb
  <2>1. /\ phase = "climb"
        /\ \/ \E base : AtBase(base)
           \/ Fails
           \/ \E link : Passes(link)
    BY <1>2, ClimbCases
  <2>. DEFINE up == vol.records[rec].parent
              n == Len(chain)
  <2>2. /\ up = IF chain = <<>> THEN cur ELSE chain[1]
        /\ n \in Nat /\ (n = 0 <=> chain = <<>>) /\ (chain # <<>> => 1 \in 1..n)
        /\ \A i \in 1..n : chain[i] # Root /\ memo.map[chain[i]] = Absent
        /\ names \in Seq(Names) /\ Len(names) = n
    <3>1. up = IF chain = <<>> THEN cur ELSE chain[1]
      BY <2>1 DEF Climbing
    <3>2. chain \in Seq(Cnids) /\ names \in Seq(Names) /\ Len(names) = n
          /\ \A i \in 1..n : chain[i] # Root
      BY DEF Climbing
    <3>3. \A i \in 1..n : memo.map[chain[i]] = Absent
      BY <2>1 DEF FollowInv, SweepInv
    <3>4. n \in Nat /\ (n = 0 <=> chain = <<>>)
      BY <3>2
    <3>. HIDE DEF n, up
    <3>. QED BY <3>1, <3>2, <3>3, <3>4
  <2>3. ASSUME memo.max >= Most, NEW i \in 1..Len(emitted), Shown(i)
        PROVE  /\ emitted[i].path # Absent /\ emitted[i].path # NoPath /\ emitted[i].cnid # rec
               /\ emitted[i].cnid = Root => emitted[i].path = <<>>
               /\ emitted[i].cnid # Root => memo.map[emitted[i].cnid] = emitted[i].path
               /\ \A k \in 1..n : emitted[i].cnid # chain[k]
    <3>1. emitted[i].path \in Paths /\ emitted[i].path # NoPath
      BY <2>3, EmittedTypes DEF Shown
    <3>2. emitted[i].cnid # rec
      BY <2>1, NotYet DEF FollowInv, WalkTypes
    <3>3. emitted[i].cnid # Root => memo.map[emitted[i].cnid] = emitted[i].path
      BY <2>3 DEF FollowInv, Told
    <3>4. emitted[i].cnid = Root => emitted[i].path = <<>>
      BY DEF FollowInv, SweepInv
    <3>5. emitted[i].path # Absent
      BY <3>1, Markers
    <3>. HIDE DEF n
    <3>. QED BY <2>2, <3>1, <3>2, <3>3, <3>4, <3>5
  <2>. HIDE DEF up, n
  <2>4. ASSUME NEW base, AtBase(base) PROVE FollowInv'
    <3>0. base \in Seq(Names) /\ Resolve(base) /\ \E e, p : Keep(e, p)
      BY <2>4 DEF AtBase, Resolve
    <3>. DEFINE own == Append(PathAt(base, 1), vol.records[rec].name)
    <3>1. /\ path' = own
          /\ \A j \in 1..Len(puts') :
                     \/ \E i \in 1..n : puts'[j] = <<chain[i], PathAt(base, i)>>
                     \/ puts'[j] = <<rec, own>>
          /\ rec \in vol.folders => Len(puts') # 0 /\ puts'[Len(puts')] = <<rec, own>>
      BY <2>1, <3>0, ResolvedPuts DEF n
    <3>2. ASSUME memo.max >= Most, NEW i \in 1..Len(emitted), Shown(i)
          PROVE  /\ \A j \in 1..Len(puts') : puts'[j][1] # emitted[i].cnid
                 /\ emitted[i].cnid = up => path' = Append(emitted[i].path, vol.records[rec].name)
      <4>1. \A j \in 1..Len(puts') : puts'[j][1] = rec \/ \E k \in 1..n : puts'[j][1] = chain[k]
        BY <3>1
      <4>2. \A j \in 1..Len(puts') : puts'[j][1] # emitted[i].cnid
        BY <2>3, <3>2, <4>1
      <4>3. ASSUME emitted[i].cnid = up PROVE PathAt(base, 1) = emitted[i].path
        <5>1. chain = <<>> /\ cur = emitted[i].cnid
          BY <2>2, <2>3, <3>2, <4>3
        <5>2. base = emitted[i].path
          BY <2>3, <2>4, <3>2, <5>1 DEF AtBase
        <5>3. PathAt(base, Len(names) + 1) = base
          BY <2>2, <3>0, PathAtTop
        <5>4. Len(names) + 1 = 1
          BY <2>2, <5>1
        <5>. QED BY <5>2, <5>3, <5>4
      <4>. QED BY <3>1, <4>2, <4>3
    <3>. HIDE DEF own
    <3>. QED BY <1>0, <2>1, <3>0, <3>1, <3>2, ClimbToldOf DEF up
  <2>5. CASE Fails
    <3>0. cur # Root /\ FailPath /\ \E e, p : Keep(e, p)
      BY <2>5 DEF Fails, FailPath
    <3>1. /\ path' = NoPath
          /\ \A j \in 1..Len(puts') :
                \/ puts'[j][1] = up
                \/ \E i \in 1..n : puts'[j][1] = chain[i]
      BY <2>1, <3>0, FailedPuts DEF up, n
    <3>2. ASSUME memo.max >= Most, NEW i \in 1..Len(emitted), Shown(i), emitted[i].cnid # Root
          PROVE  emitted[i].cnid # up
      <4>1. CASE chain # <<>>
        BY <2>2, <2>3, <3>2, <4>1
      <4>2. CASE chain = <<>>
        <5>1. ASSUME emitted[i].cnid = cur PROVE FALSE
          <6>1. Holds(memo, cur) /\ memo.map[cur] # NoPath
            BY <2>3, <3>2, <5>1 DEF Holds
          <6>. QED BY <2>5, <6>1 DEF Fails
        <5>. QED BY <2>2, <4>2, <5>1
      <4>. QED BY <4>1, <4>2
    <3>3. up # Root
      BY <2>2, <3>0
    <3>4. ASSUME memo.max >= Most, NEW i \in 1..Len(emitted), Shown(i)
          PROVE  /\ emitted[i].cnid # up
                 /\ emitted[i].cnid # Root => \A j \in 1..Len(puts') : puts'[j][1] # emitted[i].cnid
      BY <2>3, <3>1, <3>2, <3>3, <3>4
    <3>. QED BY <1>0, <2>1, <3>0, <3>1, <3>4, ClimbToldOf DEF up
  <2>6. ASSUME NEW link, Passes(link) PROVE FollowInv'
    <3>1. UNCHANGED <<memo, puts, path, emitted, phase, next, rec>> /\ chain' = Append(chain, cur)
      BY <2>6 DEF Passes, kept
    <3>2. memo.map[cur] = Absent
      BY <2>6 DEF Passes, PassedBy, Holds
    <3>3. Len(chain') = n + 1 /\ chain'[n + 1] = cur /\ \A i \in 1..n : chain'[i] = chain[i]
      BY <3>1 DEF n, Climbing, WalkTypes
    <3>4. \A i \in 1..(n + 1) : i \in 1..n \/ i = n + 1
      BY <2>2
    <3>5. SweepInv'
      BY <1>0, <2>2, <3>1, <3>2, <3>3, <3>4 DEF SweepInv, FollowInv
    <3>6. memo.max >= Most => ChildrenFollow' /\ Told' /\ Placing'
      BY <1>0, <3>1 DEF FollowInv, ChildrenFollow, Told, Placing, Shown
    <3>. QED BY <3>1, <3>5, <3>6 DEF FollowInv
  <2>. QED BY <2>1, <2>4, <2>5, <2>6
<1>3. CASE PutNext
  <2>1. /\ phase = "keep" /\ puts # <<>> /\ puts \in Seq(Cnids \X Paths) /\ puts' = Tail(puts)
        /\ UNCHANGED <<phase, next, rec, path, emitted, chain>>
    BY <1>3 DEF PutNext, WalkTypes, climb
  <2>2. /\ Len(puts) \in Nat /\ Len(puts) >= 1 /\ Len(puts') = Len(puts) - 1 /\ Head(puts) = puts[1]
        /\ \A i \in 1..Len(puts') : puts'[i] = puts[i + 1]
    BY <2>1
  <2>3. Head(puts) \in Cnids \X Paths
    BY <2>1, HeadTailProperties
  <2>. DEFINE c == Head(puts)[1]
              p == Head(puts)[2]
  <2>4. c \in Cnids /\ p \in Paths /\ puts[1] = <<c, p>>
    BY <2>2, <2>3
  <2>5. memo' = PutPath(memo, c, p)
    BY <1>3 DEF PutNext
  <2>. HIDE DEF c, p
  <2>6. Sound(memo') /\ memo'.max = memo.max /\ (memo.max >= Most => memo'.map = [memo.map EXCEPT ![c] = p])
    BY <1>0, <2>4, <2>5, PutEvictsNone DEF FollowInv, SweepInv
  <2>7. memo.map \in [Cnids -> Paths \union {Absent}]
    BY <1>0 DEF Memos
  <2>8. SweepInv'
    BY <1>0, <2>1, <2>6 DEF SweepInv, FollowInv
  <2>9. ASSUME memo.max >= Most PROVE ChildrenFollow' /\ Told' /\ Placing'
    <3>0. ChildrenFollow /\ Told /\ Placing /\ memo'.map = [memo.map EXCEPT ![c] = p]
      BY <2>6, <2>9 DEF FollowInv
    <3>1. ChildrenFollow'
      BY <1>0, <2>1, <3>0 DEF ChildrenFollow
    <3>2. Told'
      <4>1. ASSUME NEW i \in 1..Len(emitted), Shown(i), emitted[i].cnid # Root
            PROVE  /\ memo'.map[emitted[i].cnid] = emitted[i].path
                   /\ \A j \in 1..Len(puts') : puts'[j][1] # emitted[i].cnid
        <5>1. \A j \in 1..Len(puts) : puts[j][1] # emitted[i].cnid
          BY <3>0, <4>1 DEF Told
        <5>2. c # emitted[i].cnid
          <6>1. 1 \in 1..Len(puts) /\ puts[1][1] = c
            BY <2>2, <2>4
          <6>. QED BY <5>1, <6>1
        <5>3. emitted[i].cnid \in Cnids
          BY EmittedTypes
        <5>4. memo'.map[emitted[i].cnid] = memo.map[emitted[i].cnid]
          BY <2>7, <3>0, <5>2, <5>3
        <5>5. \A j \in 1..Len(puts') : j + 1 \in 1..Len(puts)
          BY <2>2
        <5>. QED BY <2>2, <3>0, <4>1, <5>1, <5>4, <5>5 DEF Told
      <4>. QED BY <1>0, <2>1, <4>1 DEF Told, Shown
    <3>3. Placing'
      <4>1. \A i \in 1..Len(emitted) :
              Shown(i) /\ emitted[i].cnid = vol.records[rec].parent
              => path = Append(emitted[i].path, vol.records[rec].name)
        BY <2>1, <3>0 DEF Placing
      <4>2. ASSUME rec \in vol.folders, path # NoPath
            PROVE  \/ puts' = <<>> /\ memo'.map[rec] = path
                   \/ Len(puts') # 0 /\ puts'[Len(puts')] = <<rec, path>>
        <5>1. puts[Len(puts)] = <<rec, path>>
          BY <2>1, <3>0, <4>2 DEF Placing
        <5>2. CASE Len(puts) = 1
          <6>1. puts' = <<>>
            BY <2>1, <2>2, <5>2
          <6>2. c = rec /\ p = path
            BY <2>4, <5>1, <5>2
          <6>. QED BY <2>4, <2>7, <3>0, <6>1, <6>2
        <5>3. CASE Len(puts) # 1
          <6>1. Len(puts') # 0 /\ Len(puts') \in 1..Len(puts') /\ Len(puts') + 1 = Len(puts)
            BY <2>2, <5>3
          <6>. QED BY <2>2, <5>1, <6>1
        <5>. QED BY <5>2, <5>3
      <4>. QED BY <1>0, <2>1, <4>1, <4>2 DEF Placing, Shown
    <3>. QED BY <3>1, <3>2, <3>3
  <2>. QED BY <2>6, <2>8, <2>9 DEF FollowInv
<1>4. CASE Emit
  <2>1. phase = "keep" /\ puts = <<>> /\ Callback(rec, path) /\ UNCHANGED <<vol, memo, puts, chain>>
    BY <1>4 DEF Emit
  <2>2. rec \in Cnids /\ path \in Paths /\ next \in 1..Len(vol.order) /\ rec = vol.order[next] /\ rec # Root
    BY <2>1, VolumeFacts DEF WalkTypes
  <2>3. memo.max >= Most =>
               /\ \A i \in 1..Len(emitted) :
                     Shown(i) /\ emitted[i].cnid = vol.records[rec].parent
                     => path = Append(emitted[i].path, vol.records[rec].name)
               /\ rec \in vol.folders /\ path # NoPath => memo.map[rec] = path
    <3>1. Len(<<>>) = 0
      OBVIOUS
    <3>. QED BY <2>1, <3>1 DEF FollowInv, Placing
  <2>. QED BY <2>1, <2>2, <2>3, OneMoreShown
<1>. QED BY <1>1, <1>2, <1>3, <1>4 DEF Next

---------------------------------------------------------------------------
(* Listings. *)

LEMMA SweptUnfolds ==
    ASSUME vol \in Volumes
    PROVE  /\ SweptTo[0] = <<>> /\ Len(vol.order) \in Nat
           /\ \A k \in 1..Len(vol.order) :
                 /\ SweptTo[k-1] \in Seq(Cnids) /\ SweptTo[k] \in Seq(Cnids) /\ vol.order[k] \in Cnids
                 /\ SweptTo[k] = IF Wanted(vol.order[k]) THEN Append(SweptTo[k-1], vol.order[k])
                                                         ELSE SweptTo[k-1]
<1>. DEFINE n == Len(vol.order)
            S == Seq(Cnids)
            F(f) == [k \in 0..Len(vol.order) |->
                       IF k = 0 THEN <<>>
                       ELSE IF Wanted(vol.order[k]) THEN Append(f[k-1], vol.order[k]) ELSE f[k-1]]
            one(s, k) == IF Wanted(vol.order[k]) THEN Append(s, vol.order[k]) ELSE s
            step == [k \in 1..n |-> [s \in S |-> one(s, k)]]
<1>1. n \in Nat /\ vol.order \in Seq(Cnids) /\ \A k \in 1..n : vol.order[k] \in Cnids
  BY VolumeFacts
<1>2. \A k \in 1..n : \A s \in S : one(s, k) \in S
  BY <1>1
<1>3. step \in [1..n -> [S -> S]] /\ <<>> \in S
  <2>1. <<>> \in S
    OBVIOUS
  <2>. HIDE DEF n, S, one
  <2>. QED BY <1>2, <2>1
<1>4. PICK f \in [0..n -> S] : Unfolds(f, n, <<>>, step)
  <2>. HIDE DEF S, step, n
  <2>. QED BY <1>1, <1>3, RecursionExists
<1>5. f[0] = <<>> /\ \A k \in 1..n : f[k] = one(f[k-1], k)
  <2>. HIDE DEF S, one, n
  <2>1. \A k \in 1..n : k - 1 \in 0..n
    BY <1>1
  <2>2. \A k \in 1..n : f[k-1] \in S
    BY <1>4, <2>1
  <2>. QED BY <1>4, <2>2 DEF Unfolds
<1>6. f = F(f)
  <2>1. \A k \in 0..n : f[k] = IF k = 0 THEN <<>> ELSE one(f[k-1], k)
    <3>1. \A k \in 0..n : k = 0 \/ k \in 1..n
      BY <1>1
    <3>. HIDE DEF one, n
    <3>. QED BY <1>5, <3>1
  <2>2. f = [k \in 0..n |-> f[k]]
    BY <1>4
  <2>. QED BY <2>1, <2>2
<1>7. SweptTo = F(SweptTo)
  <2>1. SweptTo = CHOOSE h : h = F(h)
    BY DEF SweptTo
  <2>. HIDE DEF F
  <2>. QED BY <1>6, <2>1
<1>8. \A k \in 0..n : SweptTo[k] = IF k = 0 THEN <<>> ELSE one(SweptTo[k-1], k)
  <2>1. \A k \in 0..n : F(SweptTo)[k] = IF k = 0 THEN <<>> ELSE one(SweptTo[k-1], k)
    OBVIOUS
  <2>. HIDE DEF F, one, n
  <2>. QED BY <1>7, <2>1
<1>9. SweptTo[0] = <<>> /\ \A k \in 1..n : SweptTo[k] = one(SweptTo[k-1], k)
  <2>1. 0 \in 0..n /\ \A k \in 1..n : k \in 0..n /\ k # 0
    BY <1>1
  <2>. HIDE DEF one, n
  <2>. QED BY <1>8, <2>1
<1>10. \A k \in 0..n : SweptTo[k] = f[k]
  <2>. HIDE DEF one, n
  <2>1. \A k \in 1..n : SweptTo[k-1] = f[k-1] => SweptTo[k] = f[k]
    BY <1>5, <1>9
  <2>2. SweptTo[0] = f[0]
    BY <1>5, <1>9
  <2>3. n \in Nat
    BY <1>1
  <2>. HIDE DEF F, S, step
  <2>7. UnfoldAlike(SweptTo, f, n)
    BY ONLY <2>2, <2>1 DEF UnfoldAlike
  <2>8. Alike(SweptTo, f, n)
    BY ONLY <2>7, <2>3, RecursionUnique
  <2>. QED BY ONLY <2>8 DEF Alike
<1>11. \A k \in 0..n : SweptTo[k] \in Seq(Cnids)
  <2>. HIDE DEF n
  <2>. QED BY <1>4, <1>10
<1>12. \A k \in 1..n : k - 1 \in 0..n /\ k \in 0..n
  BY <1>1
<1>. QED BY <1>1, <1>9, <1>11, <1>12

\* What is swept only grows.
LEMMA SweptGrows ==
    ASSUME vol \in Volumes, NEW k \in 0..Len(vol.order)
    PROVE  \A m \in k..Len(vol.order) :
              /\ Len(SweptTo[k]) <= Len(SweptTo[m]) /\ Len(SweptTo[k]) \in Nat /\ Len(SweptTo[m]) \in Nat
              /\ \A i \in 1..Len(SweptTo[k]) : SweptTo[m][i] = SweptTo[k][i]
<1>. DEFINE n == Len(vol.order)
            Fine(m) == /\ Len(SweptTo[k]) <= Len(SweptTo[m])
                       /\ \A i \in 1..Len(SweptTo[k]) : SweptTo[m][i] = SweptTo[k][i]
            Off == {m \in k..n : ~Fine(m)}
<1>1. n \in Nat /\ k \in Nat /\ k <= n
  BY SweptUnfolds
<1>2. \A m \in 0..n : SweptTo[m] \in Seq(Cnids) /\ Len(SweptTo[m]) \in Nat
  <2>1. \A m \in 0..n : m = 0 \/ m \in 1..n
    BY <1>1
  <2>2. <<>> \in Seq(Cnids)
    OBVIOUS
  <2>3. \A m \in 0..n : SweptTo[m] \in Seq(Cnids)
    BY <2>1, <2>2, SweptUnfolds
  <2>. QED BY <2>3
<1>3. Off = {}
  <2>. SUFFICES ASSUME Off # {} PROVE FALSE
    OBVIOUS
  <2>1. PICK m \in Off : \A y \in Off : m <= y
    <3>1. Off \in SUBSET Nat
      BY <1>1
    <3>. HIDE DEF Off
    <3>. QED BY <3>1, Least
  <2>2. m # k
    <3>1. Fine(k)
      BY <1>1, <1>2
    <3>. HIDE DEF Fine
    <3>. QED BY <2>1, <3>1
  <2>3. m \in 1..n /\ m - 1 \in k..n /\ m - 1 \in 0..n /\ m \in 0..n /\ m - 1 < m
    BY <1>1, <2>1, <2>2
  <2>4. Fine(m - 1)
    <3>1. m - 1 \notin Off
      <4>1. m \in Int
        BY <2>3
      <4>. HIDE DEF Off
      <4>. QED BY <2>1, <4>1
    <3>. HIDE DEF Fine
    <3>. QED BY <2>3, <3>1
  <2>5. Fine(m)
    <3>. DEFINE s == SweptTo[m - 1]
                t == SweptTo[m]
                x == vol.order[m]
    <3>1. s \in Seq(Cnids) /\ x \in Cnids /\ (t = s \/ t = Append(s, x))
      BY <2>3, SweptUnfolds
    <3>2. Len(s) \in Nat /\ Len(s) <= Len(t) /\ Len(t) \in Nat /\ \A i \in 1..Len(s) : t[i] = s[i]
      <4>. HIDE DEF s, t, x
      <4>. QED BY <3>1
    <3>3. Len(SweptTo[k]) <= Len(s) /\ Len(SweptTo[k]) \in Nat
          /\ \A i \in 1..Len(SweptTo[k]) : s[i] = SweptTo[k][i]
      BY <1>1, <1>2, <2>4
    <3>. HIDE DEF s
    <3>4. \A i \in 1..Len(SweptTo[k]) : i \in 1..Len(s)
      BY <3>2, <3>3
    <3>. QED BY <3>2, <3>3, <3>4
  <2>. HIDE DEF Fine
  <2>. QED BY <2>1, <2>5
<1>4. \A m \in k..n : Fine(m)
  <2>. HIDE DEF Fine
  <2>. QED BY <1>3
<1>. QED BY <1>1, <1>2, <1>4

CnidsOf(files) == [i \in DOMAIN files |-> files[i].cnid]

Shows == [cnid : Cnids, path : Paths]

LEMMA CnidsOfSeq ==
    ASSUME NEW s \in Seq(Shows)
    PROVE  /\ CnidsOf(s) \in Seq(Cnids) /\ Len(CnidsOf(s)) = Len(s)
           /\ \A e \in Shows : CnidsOf(Append(s, e)) = Append(CnidsOf(s), e.cnid)
<1>0. DOMAIN s = 1..Len(s) /\ Len(s) \in Nat /\ \A i \in 1..Len(s) : s[i] \in Shows
  BY ONLY s \in Seq(Shows)
<1>1. DOMAIN s = 1..Len(s) /\ Len(s) \in Nat /\ \A i \in 1..Len(s) : s[i].cnid \in Cnids
  BY <1>0 DEF Shows
<1>2. CnidsOf(s) \in Seq(Cnids) /\ Len(CnidsOf(s)) = Len(s)
  BY <1>1 DEF CnidsOf
<1>3. ASSUME NEW e \in Shows PROVE CnidsOf(Append(s, e)) = Append(CnidsOf(s), e.cnid)
  <2>. DEFINE t == Append(s, e)
              u == Append(CnidsOf(s), e.cnid)
  <2>0. e.cnid \in Cnids
    BY DEF Shows
  <2>. HIDE DEF Shows
  <2>1. t \in Seq(Shows) /\ Len(t) = Len(s) + 1 /\ t[Len(s) + 1] = e /\ \A j \in 1..Len(s) : t[j] = s[j]
    BY ONLY s \in Seq(Shows), e \in Shows, Appended
  <2>2. DOMAIN t = 1..(Len(s) + 1)
    BY <2>1
  <2>3. u \in Seq(Cnids) /\ Len(u) = Len(s) + 1 /\ u[Len(s) + 1] = e.cnid
        /\ \A j \in 1..Len(s) : u[j] = CnidsOf(s)[j]
    <3>. DEFINE c == CnidsOf(s)
    <3>1. c \in Seq(Cnids) /\ Len(c) = Len(s)
      BY <1>2
    <3>. HIDE DEF c
    <3>2. Append(c, e.cnid) \in Seq(Cnids) /\ Len(Append(c, e.cnid)) = Len(c) + 1
          /\ Append(c, e.cnid)[Len(c) + 1] = e.cnid
          /\ \A j \in 1..Len(c) : Append(c, e.cnid)[j] = c[j]
      BY ONLY <3>1, <2>0, Appended
    <3>. QED BY <3>1, <3>2 DEF c
  <2>4. \A j \in 1..Len(s) : CnidsOf(s)[j] = s[j].cnid
    BY <1>1 DEF CnidsOf
  <2>5. CnidsOf(t) = [j \in 1..(Len(s) + 1) |-> t[j].cnid]
    BY <2>2 DEF CnidsOf
  <2>6. \A j \in 1..(Len(s) + 1) : j \in 1..Len(s) \/ j = Len(s) + 1
    BY <1>1
  <2>. HIDE DEF t, u
  <2>7. \A j \in 1..(Len(s) + 1) : CnidsOf(t)[j] = u[j]
    BY <2>1, <2>3, <2>4, <2>5, <2>6
  <2>8. CnidsOf(t) = u
    <3>1. u = [j \in 1..(Len(s) + 1) |-> u[j]]
      BY <1>1, <2>3
    <3>. QED BY <2>5, <2>7, <3>1
  <2>. QED BY <2>8 DEF t, u
<1>. QED BY <1>2, <1>3

ListInv ==
    /\ opts \in OptionsFor(vol) /\ next \in 1..(Len(vol.order) + 1)
    /\ listing \in Seq(Shows)
    /\ IsReport \/ stage = "walk"
    /\ IsReport /\ stage = "walk" =>
          /\ opts.files /\ (MaxFiles >= 0 => Len(listing) <= MaxFiles)
          /\ phase # "done" => truncated = FALSE /\ CnidsOf(listing) = SweptTo[next-1]
          /\ phase = "done" /\ truncated # TRUE => truncated = FALSE
          /\ phase = "done" /\ outcome = "ok" => truncated = FALSE /\ CnidsOf(listing) = Swept
          /\ phase = "done" /\ truncated = TRUE =>
                /\ MaxFiles >= 0 /\ Len(listing) = MaxFiles
                /\ \E k \in 1..Len(vol.order) : CnidsOf(listing) = SweptTo[k-1] /\ Wanted(vol.order[k])
    /\ IsReport /\ stage \in {"list", "total"} /\ opts.files => ListsExactly(listing, truncated)
    /\ ListsTheSweep

\* A walk to the end lists everything, and one cut short as much as it may.
LEMMA WholeListing ==
    ASSUME vol \in Volumes, listing \in Seq(Shows), MaxFiles \in Int, MaxFiles >= 0 => Len(listing) <= MaxFiles,
           CnidsOf(listing) = Swept, truncated = FALSE
    PROVE  ListsExactly(listing, truncated)
<1>. DEFINE bound == IF MaxFiles < 0 THEN Len(Swept) ELSE MaxFiles
            n == Len(Swept)
<1>1. Swept \in Seq(Cnids) /\ Len(Swept) = Len(listing) /\ n \in Nat
  BY CnidsOfSeq
<1>2. ~(n > bound) /\ (IF bound < n THEN bound ELSE n) = n
  BY <1>1
<1>3. SubSeq(Swept, 1, n) = Swept
  <2>. DEFINE s == Swept
  <2>1. s \in Seq(Cnids)
    BY <1>1
  <2>. HIDE DEF s
  <2>2. SubSeq(s, 1, Len(s)) = s
    BY <2>1
  <2>. QED BY <2>2 DEF s
<1>. QED BY <1>2, <1>3 DEF ListsExactly, CnidsOf

LEMMA CutListing ==
    ASSUME vol \in Volumes, listing \in Seq(Shows), MaxFiles \in Int, MaxFiles >= 0, Len(listing) = MaxFiles,
           NEW k \in 1..Len(vol.order), CnidsOf(listing) = SweptTo[k-1], Wanted(vol.order[k]), truncated = TRUE
    PROVE  ListsExactly(listing, truncated)
<1>. DEFINE s == SweptTo[k-1]
            t == SweptTo[k]
            n == Len(vol.order)
<1>1. /\ s \in Seq(Cnids) /\ Len(s) = MaxFiles /\ t \in Seq(Cnids) /\ vol.order[k] \in Cnids
      /\ t = Append(s, vol.order[k]) /\ n \in Nat /\ k \in 0..n /\ n \in k..n
      /\ k - 1 \in 0..n /\ n \in (k-1)..n /\ n \in 0..n
  <2>1. s \in Seq(Cnids) /\ t \in Seq(Cnids) /\ vol.order[k] \in Cnids /\ t = Append(s, vol.order[k]) /\ n \in Nat
    BY SweptUnfolds
  <2>2. Len(s) = MaxFiles
    BY CnidsOfSeq
  <2>. HIDE DEF s, t
  <2>3. k \in 0..n /\ n \in k..n /\ k - 1 \in 0..n /\ n \in (k-1)..n /\ n \in 0..n
    BY <2>1
  <2>. QED BY <2>1, <2>2, <2>3
<1>2. Len(t) = Len(s) + 1
  <2>. HIDE DEF s, t, n
  <2>. QED BY <1>1
<1>3. /\ Len(t) <= Len(Swept) /\ Len(Swept) \in Nat
      /\ \A i \in 1..Len(s) : Swept[i] = s[i]
  BY <1>1, SweptGrows DEF Swept
<1>4. Len(Swept) > MaxFiles /\ MaxFiles < Len(Swept) /\ ~(MaxFiles < 0)
  BY <1>1, <1>2, <1>3
<1>5. Swept \in Seq(Cnids)
  <2>1. n \in 1..n
    BY <1>1
  <2>. QED BY <2>1, SweptUnfolds DEF Swept
<1>6. SubSeq(Swept, 1, MaxFiles) = s
  <2>. DEFINE w == Swept
  <2>. HIDE DEF s, w
  <2>0. w \in Seq(Cnids) /\ Len(w) > MaxFiles /\ \A i \in 1..MaxFiles : w[i] = s[i]
    BY <1>1, <1>3, <1>4, <1>5 DEF w
  <2>1. SubSeq(w, 1, MaxFiles) \in Seq(Cnids) /\ Len(SubSeq(w, 1, MaxFiles)) = MaxFiles
        /\ \A i \in 1..MaxFiles : SubSeq(w, 1, MaxFiles)[i] = w[i]
    BY <2>0
  <2>2. SubSeq(w, 1, MaxFiles) = s
    BY <1>1, <2>0, <2>1, SeqEqual
  <2>. QED BY <2>2 DEF w
<1>. HIDE DEF s
<1>7. CnidsOf(listing) = s
  BY DEF s
<1>. QED BY <1>4, <1>6, <1>7 DEF ListsExactly, CnidsOf

LEMMA ListInit == WalkTypes /\ ReportInit => ListInv
<1>. SUFFICES ASSUME WalkTypes, ReportInit PROVE ListInv
  OBVIOUS
<1>1. /\ opts \in OptionsFor(vol) /\ next = 1 /\ listing = <<>> /\ phase = "record" /\ report = NoReport
      /\ truncated = FALSE /\ vol \in Volumes
  BY DEF ReportInit, Init, WalkTypes
<1>2. <<>> \in Seq(Shows) /\ Len(<<>>) = 0 /\ CnidsOf(<<>>) = <<>>
  BY DEF CnidsOf
<1>3. SweptTo[0] = <<>> /\ Len(vol.order) \in Nat
  BY <1>1, SweptUnfolds
<1>4. stage = IF opts = Plain \/ opts.files THEN "walk" ELSE "list"
  BY DEF ReportInit
<1>5. MaxFiles >= 0 => Len(listing) <= MaxFiles
  BY <1>1, <1>2
<1>. QED BY <1>1, <1>2, <1>3, <1>4, <1>5 DEF ListInv, ListsTheSweep, IsReport

\* What a step of the walk does to the sweep: it goes past a record that is not
\* wanted, ends, calls back, or stays where it is.
LEMMA SweepSteps ==
    ASSUME WalkTypes, Next, next \in 1..(Len(vol.order) + 1)
    PROVE  \/ /\ next' = next + 1 /\ next \in 1..Len(vol.order) /\ ~Wanted(vol.order[next])
              /\ phase # "done" /\ phase' # "done" /\ UNCHANGED emitted
           \/ phase # "done" /\ phase' = "done" /\ outcome' = "ok" /\ next = Len(vol.order) + 1 /\ UNCHANGED <<next, emitted>>
           \/ phase # "done" /\ phase' = "done" /\ outcome' = "error" /\ UNCHANGED <<next, emitted>>
           \/ phase # "done" /\ phase' # "done" /\ UNCHANGED <<next, emitted>>
           \/ /\ phase # "done" /\ next \in 1..Len(vol.order)
              /\ \E p \in Paths : Callback(vol.order[next], p)
              /\ vol.order[next] \in Cnids
              /\ Wanted(vol.order[next]) <=> ~Excluded(vol.order[next])
<1>0. Len(vol.order) \in Nat
  BY VolumeFacts DEF WalkTypes
<1>1. CASE Record
  <2>0. phase = "record"
    BY <1>1 DEF Record
  <2>1. CASE next > Len(vol.order) /\ End("ok")
    BY <1>0, <2>0, <2>1 DEF End
  <2>2. CASE End("error")
    BY <2>0, <2>2 DEF End
  <2>3. CASE next <= Len(vol.order) /\ next' = next + 1 /\ UNCHANGED <<phase, emitted>> /\ ~Wanted(vol.order[next])
    BY <1>0, <2>0, <2>3
  <2>4. CASE next <= Len(vol.order) /\ vol.order[next] \in DOMAIN vol.records /\ Decoded(vol.order[next])
    <3>. DEFINE c == vol.order[next]
    <3>1. CASE c = Root /\ Callback(c, <<>>)
      <4>1. c \in Cnids /\ <<>> \in Paths /\ next \in 1..Len(vol.order)
        BY <1>0, <2>4, <3>1, Markers
      <4>2. Wanted(c) <=> ~Excluded(c)
        BY <2>4, <3>1 DEF Wanted
      <4>. HIDE DEF c
      <4>. QED BY <2>0, <3>1, <4>1, <4>2 DEF c
    <3>2. CASE c # Root /\ vol.records[c].name = NoName /\ next' = next + 1 /\ UNCHANGED <<phase, emitted>>
      <4>1. ~Wanted(c)
        BY <3>2 DEF Wanted
      <4>. QED BY <2>3, <2>4, <3>2, <4>1
    <3>3. CASE phase' = "climb" /\ UNCHANGED <<next, emitted>>
      BY <2>0, <3>3
    <3>. QED BY <2>4, <3>1, <3>2, <3>3 DEF Decoded
  <2>5. CASE /\ next <= Len(vol.order) /\ vol.order[next] \notin DOMAIN vol.records
             /\ next' = next + 1 /\ UNCHANGED <<phase, emitted>>
    BY <2>3, <2>5 DEF Wanted
  <2>. QED BY <1>1, <2>1, <2>2, <2>4, <2>5 DEF Record
<1>2. CASE Climb \/ PutNext
  <2>1. phase # "done" /\ phase' # "done" /\ UNCHANGED <<next, emitted>>
    <3>1. CASE PutNext
      BY <3>1 DEF PutNext
    <3>2. CASE Climb
      BY <3>2, ClimbCases DEF AtBase, Resolve, Fails, FailPath, Keep, Passes, kept
    <3>. QED BY <1>2, <3>1, <3>2
  <2>. QED BY <2>1
<1>3. CASE Emit
  <2>1. phase = "keep" /\ Callback(rec, path)
    BY <1>3 DEF Emit
  <2>2. /\ rec = vol.order[next] /\ next \in 1..Len(vol.order) /\ path \in Paths
        /\ rec \in DOMAIN vol.records \ {Root} /\ vol.records[rec].name # NoName /\ rec \in Cnids
    BY <2>1, VolumeFacts DEF WalkTypes
  <2>3. Wanted(rec) <=> ~Excluded(rec)
    BY <2>2 DEF Wanted
  <2>. QED BY <2>1, <2>2, <2>3
<1>. QED BY <1>1, <1>2, <1>3 DEF Next

LEMMA Asked ==
    ASSUME WalkTypes, ListInv, IsReport
    PROVE  MaxFiles \in Int /\ opts.files \in BOOLEAN /\ Len(listing) \in Nat
<1>1. opts \in [files : BOOLEAN, max : Int, system : BOOLEAN]
  BY ReportAssumption DEF WalkTypes, ListInv, IsReport
<1>. QED BY <1>1, ReportAssumption DEF MaxFiles, ListInv

LEMMA WalkLists ==
    ASSUME WalkTypes, Climbing, ListInv, Walk
    PROVE  ListInv'
<1>0. /\ UNCHANGED <<vol, opts, stage, report>> /\ stage = "walk" /\ Next /\ vol \in Volumes
      /\ next \in 1..(Len(vol.order) + 1) /\ Len(vol.order) \in Nat /\ listing \in Seq(Shows)
  <2>1. UNCHANGED <<opts, stage, report>> /\ stage = "walk" /\ Next
    BY DEF Walk
  <2>2. UNCHANGED vol
    BY <2>1, WalkStep
  <2>3. vol \in Volumes
    BY DEF WalkTypes
  <2>4. Len(vol.order) \in Nat
    BY <2>3, VolumeFacts
  <2>. QED BY <2>1, <2>2, <2>3, <2>4 DEF ListInv
<1>1. \A c : Wanted(c)' <=> Wanted(c)
  BY <1>0 DEF Wanted, Excluded
<1>2. SweptTo' = SweptTo /\ Swept' = Swept /\ MaxFiles' = MaxFiles /\ (IsReport' <=> IsReport)
  BY <1>0 DEF SweptTo, Wanted, Excluded, Swept, MaxFiles, IsReport
<1>3. ListsTheSweep'
  <2>1. \A f, t : ListsExactly(f, t)' <=> ListsExactly(f, t)
    BY <1>2 DEF ListsExactly
  <2>. QED BY <1>0, <2>1 DEF ListsTheSweep, ListInv
<1>4. CASE /\ next' = next + 1 /\ next \in 1..Len(vol.order) /\ ~Wanted(vol.order[next])
           /\ phase # "done" /\ phase' # "done" /\ UNCHANGED emitted
  <2>1. UNCHANGED <<listing, truncated>>
    BY <1>4 DEF Walk
  <2>2. SweptTo[next] = SweptTo[next-1] /\ next' - 1 = next /\ next' \in 1..(Len(vol.order) + 1)
    BY <1>0, <1>4, SweptUnfolds
  <2>. QED BY <1>0, <1>2, <1>3, <1>4, <2>1, <2>2 DEF ListInv
<1>5. CASE phase # "done" /\ phase' = "done" /\ outcome' = "ok" /\ next = Len(vol.order) + 1 /\ UNCHANGED <<next, emitted>>
  <2>1. UNCHANGED <<listing, truncated>>
    BY <1>5 DEF Walk
  <2>2. next - 1 = Len(vol.order)
    BY <1>0, <1>5
  <2>. QED BY <1>0, <1>2, <1>3, <1>5, <2>1, <2>2 DEF ListInv, Swept
<1>6. CASE phase # "done" /\ phase' = "done" /\ outcome' = "error" /\ UNCHANGED <<next, emitted>>
  <2>1. UNCHANGED <<listing, truncated>>
    BY <1>6 DEF Walk
  <2>. QED BY <1>0, <1>2, <1>3, <1>6, <2>1 DEF ListInv
<1>7. CASE phase # "done" /\ phase' # "done" /\ UNCHANGED <<next, emitted>>
  <2>1. UNCHANGED <<listing, truncated>>
    BY <1>7 DEF Walk
  <2>. QED BY <1>0, <1>2, <1>3, <1>7, <2>1 DEF ListInv
<1>8. CASE /\ phase # "done" /\ next \in 1..Len(vol.order)
           /\ \E p \in Paths : Callback(vol.order[next], p)
           /\ vol.order[next] \in Cnids
           /\ Wanted(vol.order[next]) <=> ~Excluded(vol.order[next])
  <2>. DEFINE c == vol.order[next]
  <2>1. PICK p \in Paths : Callback(c, p)
    BY <1>8
  <2>. DEFINE e == [cnid |-> c, path |-> p]
  <2>2. /\ Len(emitted') = Len(emitted) + 1 /\ emitted'[Len(emitted) + 1] = e /\ Len(emitted) \in Nat
    BY <1>8, <2>1, CallbackEmits DEF WalkTypes
  <2>3. emitted' # emitted /\ Last(emitted') = e /\ e \in Shows /\ e.cnid = c
    BY <1>8, <2>2 DEF Last, Shows
  <2>4. /\ next' = next + 1 /\ next' \in 1..(Len(vol.order) + 1) /\ next' - 1 = next
        /\ phase' = "done" => outcome' = "stopped"
    BY <1>0, <1>8, <2>1 DEF Callback, WalkTypes
  <2>5. SweptTo[next] = IF Wanted(c) THEN Append(SweptTo[next-1], c) ELSE SweptTo[next-1]
    BY <1>0, <1>8, SweptUnfolds
  <2>6. CASE ~IsReport
    <3>1. UNCHANGED listing
      BY <2>6 DEF Walk
    <3>. QED BY <1>0, <1>2, <1>3, <2>4, <2>6, <3>1 DEF ListInv
  <2>7. CASE IsReport
    <3>0. /\ opts.files /\ (MaxFiles >= 0 => Len(listing) <= MaxFiles)
          /\ truncated = FALSE /\ CnidsOf(listing) = SweptTo[next-1]
          /\ MaxFiles \in Int /\ Len(listing) \in Nat
      BY <1>0, <1>8, <2>7, Asked DEF ListInv
    <3>1. Summarise(e)
      BY <2>3, <2>7 DEF Walk
    <3>. HIDE DEF e, c
    <3>2. CASE ctxDone /\ phase' = "done" /\ UNCHANGED <<listing, truncated>>
      BY <1>0, <1>2, <1>3, <2>4, <3>0, <3>2 DEF ListInv
    <3>3. CASE ~ctxDone /\ Excluded(e.cnid) /\ phase' # "done" /\ UNCHANGED <<listing, truncated>>
      <4>1. ~Wanted(c)
        BY <1>8, <2>3, <3>3 DEF c
      <4>. QED BY <1>0, <1>2, <1>3, <2>4, <2>5, <3>0, <3>3, <4>1 DEF ListInv
    <3>4. CASE /\ ~ctxDone /\ ~Excluded(e.cnid) /\ Full
               /\ phase' = "done" /\ truncated' = TRUE /\ UNCHANGED listing
      <4>1. Wanted(vol.order[next])
        BY <1>8, <2>3, <3>4 DEF c
      <4>2. MaxFiles >= 0 /\ Len(listing) = MaxFiles
        BY <3>0, <3>4 DEF Full
      <4>. QED BY <1>0, <1>1, <1>2, <1>3, <1>8, <2>4, <3>0, <3>4, <4>1, <4>2 DEF ListInv
    <3>5. CASE /\ ~ctxDone /\ ~Excluded(e.cnid) /\ ~Full
               /\ phase' # "done" /\ listing' = Append(listing, e) /\ UNCHANGED truncated
      <4>1. Wanted(c)
        BY <1>8, <2>3, <3>5 DEF c
      <4>2. CnidsOf(listing') = Append(CnidsOf(listing), c)
        BY <1>0, <2>3, <3>5, CnidsOfSeq
      <4>3. listing' \in Seq(Shows) /\ Len(listing') = Len(listing) + 1
        BY ONLY <1>0, <2>3, <3>5, Appended
      <4>4. MaxFiles >= 0 => Len(listing') <= MaxFiles
        BY <3>0, <3>5, <4>3 DEF Full
      <4>5. CnidsOf(listing)' = SweptTo[next' - 1]
        BY <2>4, <2>5, <3>0, <4>1, <4>2 DEF CnidsOf
      <4>. QED BY <1>0, <1>2, <1>3, <2>4, <3>0, <3>5, <4>3, <4>4, <4>5 DEF ListInv
    <3>. QED BY <3>1, <3>2, <3>3, <3>4, <3>5 DEF Summarise
  <2>. QED BY <2>6, <2>7
<1>. QED BY <1>0, <1>4, <1>5, <1>6, <1>7, <1>8, SweepSteps

LEMMA ListStep == ASSUME WalkTypes, Climbing, ListInv, ReportNext PROVE ListInv'
<1>1. CASE Walk
  BY <1>1, WalkLists
<1>2. CASE Walked \/ ReadAnomalies \/ ReadTotal \/ Cancel \/ OtherNotes
  <2>0. UNCHANGED <<vol, opts, next, phase, outcome, listing, truncated>>
    BY <1>2 DEF Walked, ReadAnomalies, ReadTotal, Cancel, OtherNotes, vars
  <2>1. /\ SweptTo' = SweptTo /\ Swept' = Swept /\ MaxFiles' = MaxFiles /\ (IsReport' <=> IsReport)
        /\ \A c : Wanted(c)' <=> Wanted(c)
    BY <2>0 DEF SweptTo, Wanted, Excluded, Swept, MaxFiles, IsReport
  <2>2. \A f, t : ListsExactly(f, t)' <=> ListsExactly(f, t)
    BY <2>1 DEF ListsExactly
  <2>3. CASE Cancel \/ OtherNotes
    <3>1. UNCHANGED <<stage, report>>
      BY <2>3 DEF Cancel, OtherNotes
    <3>. QED BY <2>0, <2>1, <2>2, <3>1 DEF ListInv, ListsTheSweep
  <2>4. CASE Walked
    <3>0. /\ stage = "walk" /\ IsReport /\ phase = "done" /\ UNCHANGED report
          /\ stage' = (IF outcome = "ok" \/ truncated THEN "list" ELSE "done")
      BY <2>4 DEF Walked
    <3>1. ASSUME stage' = "list" PROVE ListsExactly(listing, truncated)
      <4>0. /\ vol \in Volumes /\ listing \in Seq(Shows) /\ MaxFiles \in Int
            /\ MaxFiles >= 0 => Len(listing) <= MaxFiles
        BY <3>0, Asked DEF WalkTypes, ListInv
      <4>1. CASE outcome = "ok"
        BY <3>0, <4>0, <4>1, WholeListing DEF ListInv
      <4>2. CASE outcome # "ok"
        <5>1. truncated = TRUE
          BY <3>0, <3>1, <4>2 DEF ListInv
        <5>2. PICK k \in 1..Len(vol.order) : CnidsOf(listing) = SweptTo[k-1] /\ Wanted(vol.order[k])
          BY <3>0, <5>1 DEF ListInv
        <5>. QED BY <3>0, <4>0, <5>1, <5>2, CutListing DEF ListInv
      <4>. QED BY <4>1, <4>2
    <3>. QED BY <2>0, <2>1, <2>2, <3>0, <3>1 DEF ListInv, ListsTheSweep
  <2>5. CASE ReadAnomalies
    <3>1. stage = "list" /\ stage' = "total" /\ UNCHANGED report
      BY <2>5 DEF ReadAnomalies
    <3>. QED BY <2>0, <2>1, <2>2, <3>1 DEF ListInv, ListsTheSweep
  <2>6. CASE ReadTotal
    <3>1. stage = "total" /\ stage' = "done" /\ report'.files = listing /\ report'.truncated = truncated
      BY <2>6 DEF ReadTotal
    <3>. QED BY <2>0, <2>1, <2>2, <3>1 DEF ListInv, ListsTheSweep
  <2>. QED BY <1>2, <2>3, <2>4, <2>5, <2>6
<1>. QED BY <1>1, <1>2 DEF ReportNext

---------------------------------------------------------------------------
(* The theorems about what is reported. *)

\* What holds of a walk: each part is kept by the steps of the walk given the
\* first two, and the other steps of a report leave the walk alone.
WalkInv == WalkTypes /\ Climbing /\ PathsSupported /\ AgreeInv /\ FollowInv

LEMMA WalkInvInit == ReportInit => WalkInv /\ ListInv
<1>. SUFFICES ASSUME ReportInit PROVE WalkInv /\ ListInv
  OBVIOUS
<1>1. Init
  BY DEF ReportInit
<1>2. WalkTypes /\ Climbing /\ PathsSupported
  BY <1>1, WalkInit
<1>. QED BY <1>1, <1>2, AgreeInit, FollowInit, ListInit DEF WalkInv

LEMMA WalkInvStays ==
    ASSUME WalkInv,
           UNCHANGED <<vol, memo, phase, next, rec, cur, names, chain, puts, path, emitted, outcome, faults>>
    PROVE  WalkInv'
<1>1. WalkTypes' /\ Climbing'
  BY DEF WalkInv, WalkTypes, Climbing, From, Says
<1>2. PathsSupported'
  BY SupportedStays DEF WalkInv, PathsSupported
<1>3. AgreeInv'
  BY PathUpStays DEF WalkInv, AgreeInv, Threaded, Agreed
<1>4. FollowInv'
  BY DEF WalkInv, FollowInv, SweepInv, Sound, Holds, Told, Placing, Shown, ChildrenFollow
<1>. QED BY <1>1, <1>2, <1>3, <1>4 DEF WalkInv

LEMMA WalkInvStep == ASSUME WalkInv, ReportNext PROVE WalkInv'
<1>1. CASE Walk
  <2>1. Next
    BY <1>1 DEF Walk
  <2>. QED BY <2>1, WalkStep, SupportedStep, AgreeStep, FollowStep DEF WalkInv
<1>2. CASE ~Walk
  <2>. QED BY <1>2, WalkInvStays
           DEF ReportNext, Walked, ReadAnomalies, ReadTotal, Cancel, OtherNotes, vars, climb, kept
<1>. QED BY <1>1, <1>2

LEMMA WalkInvariant == ReportSpec => []WalkInv
<1>1. WalkInv /\ [ReportNext]_<<vars, reportVars>> => WalkInv'
  <2>1. ASSUME WalkInv, UNCHANGED <<vars, reportVars>> PROVE WalkInv'
    BY <2>1, WalkInvStays DEF vars, climb, kept
  <2>. QED BY <2>1, WalkInvStep
<1>. QED BY <1>1, WalkInvInit, PTL DEF ReportSpec

LEMMA EmittedDomain == WalkInv => DOMAIN emitted = 1..Len(emitted)
BY DEF WalkInv, WalkTypes

\* "Inventing a path for it would be a claim the volume does not support"
\* (paths.go:208-212): whatever a volume says, whatever the memo's bound and
\* whichever reads fail, a path reported is a chain of links found on the volume.
THEOREM NothingIsInvented == ReportSpec => []NothingInvented
<1>1. WalkInv => NothingInvented
  BY EmittedDomain DEF NothingInvented, WalkInv, PathsSupported, Supported
<1>. QED BY <1>1, WalkInvariant, PTL

\* On every volume whose threads and records tell the same, cycles and orphans
\* included, and with every bound of the memo, the walk reports the paths that
\* PathForCNID finds (paths.go:86-160, catalog.go:900).
THEOREM WaysAgree == ReportSpec => []AgreesWithPathForCNID
<1>1. WalkInv => AgreesWithPathForCNID
  BY EmittedDomain DEF AgreesWithPathForCNID, WalkInv, AgreeInv, Agreed
<1>. QED BY <1>1, WalkInvariant, PTL

\* On every volume, damaged or not, with a memo that holds as many directories as
\* there are CNIDs, what is inside a folder is reported below where the folder is.
THEOREM ContentsFollow == ReportSpec => []ChildrenFollowUnevicted
<1>1. WalkInv => ChildrenFollowUnevicted
  BY DEF ChildrenFollowUnevicted, WalkInv, FollowInv, Most
<1>. QED BY <1>1, WalkInvariant, PTL

\* "FilesTruncated says the listing stopped at the bound rather than at the end
\* of the catalog" (report.go:82-83): every report lists exactly the files asked
\* for, up to every bound, whatever is cancelled or fails meanwhile.
THEOREM ListingsAreExact == ReportSpec => []ListsTheSweep
<1>1. ListInv /\ WalkTypes /\ Climbing /\ [ReportNext]_<<vars, reportVars>> => ListInv'
  <2>1. ASSUME ListInv, UNCHANGED <<vars, reportVars>> PROVE ListInv'
    <3>0. UNCHANGED <<vol, next, phase, outcome, opts, stage, listing, truncated, report>>
      BY <2>1 DEF vars, reportVars
    <3>1. /\ SweptTo' = SweptTo /\ Swept' = Swept /\ MaxFiles' = MaxFiles /\ (IsReport' <=> IsReport)
          /\ \A c : Wanted(c)' <=> Wanted(c)
      BY <3>0 DEF SweptTo, Wanted, Excluded, Swept, MaxFiles, IsReport
    <3>2. \A f, t : ListsExactly(f, t)' <=> ListsExactly(f, t)
      BY <3>1 DEF ListsExactly
    <3>. QED BY <2>1, <3>0, <3>1, <3>2 DEF ListInv, ListsTheSweep
  <2>. QED BY <2>1, ListStep
<1>2. WalkInv => WalkTypes /\ Climbing
  BY DEF WalkInv
<1>3. ListInv => ListsTheSweep
  BY DEF ListInv
<1>. QED BY <1>1, <1>2, <1>3, WalkInvInit, WalkInvariant, PTL DEF ReportSpec

---------------------------------------------------------------------------
(* Sequences of whatever kind. *)

IsSeq(s) == \E S : s \in Seq(S)

LEMMA AppendIsSeq ==
    ASSUME NEW s, IsSeq(s), NEW x
    PROVE  /\ IsSeq(Append(s, x)) /\ Len(s) \in Nat /\ DOMAIN s = 1..Len(s)
           /\ Len(Append(s, x)) = Len(s) + 1 /\ DOMAIN Append(s, x) = 1..(Len(s) + 1)
           /\ Append(s, x)[Len(s) + 1] = x
           /\ \A i \in DOMAIN s : Append(s, x)[i] = s[i]
<1>1. PICK S : s \in Seq(S)
  BY DEF IsSeq
<1>2. s \in Seq(S \union {x})
  BY <1>1
<1>3. Append(s, x) \in Seq(S \union {x})
  BY <1>2
<1>. QED BY <1>2, <1>3 DEF IsSeq

---------------------------------------------------------------------------
(* Climbs. *)

\* Where a climb is, it has not been; what it passed, it passed once.
ClimbInv ==
    /\ vol \in Volumes /\ cur \in Cnids
    /\ chain \in Seq(Cnids) /\ IsInjective(chain)

LEMMA ClimbInit == Init => ClimbInv
BY PathWalkAssumption DEF Init, ClimbInv, IsInjective

\* One more node, which was not among the ones before.
LEMMA OneMoreNode ==
    ASSUME NEW S, NEW s \in Seq(S), IsInjective(s), NEW x \in S, x \notin ToSet(s)
    PROVE  Append(s, x) \in Seq(S) /\ IsInjective(Append(s, x))
<1>. DEFINE t == Append(s, x)
<1>1. /\ t \in Seq(S) /\ Len(s) \in Nat /\ DOMAIN s = 1..Len(s)
      /\ DOMAIN t = 1..(Len(s) + 1) /\ t[Len(s) + 1] = x
      /\ \A i \in DOMAIN s : t[i] = s[i]
  OBVIOUS
<1>2. \A i \in DOMAIN s : s[i] # x
  BY DEF ToSet
<1>3. \A i \in DOMAIN t : i = Len(s) + 1 \/ i \in DOMAIN s
  BY <1>1
<1>. HIDE DEF t
<1>4. IsInjective(t)
  BY <1>1, <1>2, <1>3 DEF IsInjective
<1>. QED BY <1>1, <1>4 DEF t

LEMMA KeepClimb == ASSUME NEW e, NEW p, ClimbInv, Keep(e, p), UNCHANGED vol PROVE ClimbInv'
BY PathWalkAssumption DEF ClimbInv, Keep, IsInjective

LEMMA PassClimb ==
    ASSUME NEW link, ClimbInv, Pass(link), ~Looped, link.parent \in Cnids, UNCHANGED vol
    PROVE  ClimbInv'
<1>1. CASE link.name = NoName
  BY <1>1, KeepClimb DEF Pass, FailPath
<1>2. CASE link.name # NoName
  <2>1. chain' = Append(chain, cur) /\ cur' = link.parent
    BY <1>2 DEF Pass
  <2>2. Append(chain, cur) \in Seq(Cnids) /\ IsInjective(Append(chain, cur))
    <3>1. chain \in Seq(Cnids) /\ IsInjective(chain) /\ cur \in Cnids /\ cur \notin ToSet(chain)
      BY DEF ClimbInv, Looped
    <3>. QED BY <3>1, OneMoreNode
  <2>. QED BY <2>1, <2>2 DEF ClimbInv, IsInjective
<1>. QED BY <1>1, <1>2

LEMMA ClimbStep == ASSUME ClimbInv, Next PROVE ClimbInv'
<1>0. IsVolume(vol)
  BY PathWalkAssumption DEF ClimbInv
<1>1. CASE Record
  <2>1. vol' = vol
    BY <1>1 DEF Record
  <2>2. CASE UNCHANGED climb
    BY <2>1, <2>2 DEF ClimbInv, climb
  <2>3. CASE \E c \in DOMAIN vol.records \ {Root} : cur' = vol.records[c].parent /\ UNCHANGED chain
    BY <1>0, <2>1, <2>3 DEF ClimbInv, IsVolume
  <2>. QED BY <1>1, <2>2, <2>3 DEF Record, Decoded, End, climb
<1>2. CASE PutNext
  BY <1>2 DEF PutNext, ClimbInv, climb
<1>3. CASE Emit
  BY <1>3 DEF Emit, ClimbInv
<1>4. CASE Climb
  <2>0. UNCHANGED vol
    BY <1>4 DEF Climb
  <2>1. CASE \E base : Resolve(base)
    BY <2>0, <2>1, KeepClimb DEF Resolve
  <2>2. CASE FailPath
    BY <2>0, <2>2, KeepClimb DEF FailPath
  <2>3. CASE ~Looped /\ cur \in DOMAIN vol.threads /\ Pass(vol.threads[cur])
    BY <1>0, <2>0, <2>3, PassClimb DEF IsVolume
  <2>4. CASE cur # Root /\ ~Looped /\ cur \in DOMAIN vol.records /\ Pass(vol.records[cur])
    BY <1>0, <2>0, <2>4, PassClimb DEF IsVolume
  <2>. QED BY <1>4, <2>1, <2>2, <2>3, <2>4 DEF Climb, Up, ByRecord
<1>. QED BY <1>1, <1>2, <1>3, <1>4 DEF Next

LEMMA ReportClimbStep == ASSUME ClimbInv, ReportNext PROVE ClimbInv'
<1>1. CASE Walk
  BY <1>1, ClimbStep DEF Walk
<1>2. CASE Walked \/ ReadAnomalies \/ ReadTotal \/ Cancel \/ OtherNotes
  <2>1. UNCHANGED <<vol, cur, chain>>
    BY <1>2 DEF Walked, ReadAnomalies, ReadTotal, Cancel, OtherNotes, vars, climb
  <2>. QED BY <2>1 DEF ClimbInv
<1>. QED BY <1>1, <1>2 DEF ReportNext

\* No climb passes a node twice, whatever the volume says about parents, whatever
\* the memo holds and whatever the callback does (pathUp, paths.go:86-160): with
\* finitely many CNIDs every climb ends.
THEOREM ClimbsEnd == ReportSpec => []ClimbBounded
<1>1. ReportInit => ClimbInv
  BY ClimbInit DEF ReportInit
<1>2. ClimbInv /\ [ReportNext]_<<vars, reportVars>> => ClimbInv'
  <2>1. ASSUME ClimbInv, UNCHANGED vars PROVE ClimbInv'
    BY <2>1 DEF ClimbInv, vars, climb
  <2>. QED BY <2>1, ReportClimbStep
<1>3. ClimbInv => ClimbBounded
  BY DEF ClimbInv, ClimbBounded
<1>. QED BY <1>1, <1>2, <1>3, PTL DEF ReportSpec

---------------------------------------------------------------------------
(* Anomalies. *)

HasOp(list, op) == \E i \in DOMAIN list : list[i].op = op

\* A list of anomalies as noteAnomaly keeps it.
WellNoted(a) ==
    /\ IsSeq(a.list) /\ a.total \in Nat
    /\ \A i, j \in DOMAIN a.list : a.list[i].op = a.list[j].op => i = j
    /\ Len(a.list) <= a.total /\ Len(a.list) <= Tracked

\* One more anomaly is counted, and listed unless the list is full; what was
\* listed stays.
LEMMA NoteListed ==
    ASSUME NEW a, WellNoted(a), NEW op, NEW offset
    PROVE  LET b == Note(a, op, offset)
           IN  /\ WellNoted(b) /\ b.total = a.total + 1
               /\ Len(a.list) <= Len(b.list) /\ Len(b.list) \in Nat /\ Len(a.list) \in Nat
               /\ Len(b.list) < Tracked => HasOp(b.list, op)
               /\ \A o : HasOp(a.list, o) => HasOp(b.list, o)
<1>. DEFINE r == [op |-> op, offset |-> offset]
            b == Note(a, op, offset)
            t == Append(a.list, r)
<1>1. b.total = a.total + 1
  BY DEF Note, Count
<1>2. /\ IsSeq(t) /\ Len(a.list) \in Nat /\ DOMAIN a.list = 1..Len(a.list)
      /\ Len(t) = Len(a.list) + 1 /\ DOMAIN t = 1..(Len(a.list) + 1)
      /\ t[Len(a.list) + 1] = r /\ \A i \in DOMAIN a.list : t[i] = a.list[i]
  BY AppendIsSeq DEF WellNoted
<1>3. CASE Len(a.list) >= Tracked \/ HasOp(a.list, op)
  <2>1. b.list = a.list
    BY <1>3 DEF Note, HasOp
  <2>2. WellNoted(b)
    BY <1>1, <2>1, AnomaliesAssumption DEF WellNoted, Note
  <2>. HIDE DEF b
  <2>3. Len(b.list) < Tracked => HasOp(b.list, op)
    <3>1. Len(a.list) < Tracked => ~(Len(a.list) >= Tracked)
      BY <1>2, AnomaliesAssumption
    <3>. QED BY ONLY <1>3, <2>1, <3>1
  <2>. QED BY <1>1, <1>2, <2>1, <2>2, <2>3, AnomaliesAssumption DEF b
<1>4. CASE Len(a.list) < Tracked /\ ~HasOp(a.list, op)
  <2>1. b.list = t
    BY <1>2, <1>4, AnomaliesAssumption DEF Note, HasOp
  <2>. HIDE DEF b, t
  <2>2. HasOp(t, op) /\ \A o : HasOp(a.list, o) => HasOp(t, o)
    BY <1>2 DEF HasOp
  <2>3. \A i, j \in DOMAIN t : t[i].op = t[j].op => i = j
    <3>1. r.op = op
      OBVIOUS
    <3>. QED BY <1>2, <1>4, <3>1 DEF HasOp, WellNoted
  <2>4. WellNoted(b)
    BY <1>1, <1>2, <1>4, <2>1, <2>3, AnomaliesAssumption DEF WellNoted
  <2>. QED BY <1>1, <1>2, <1>4, <2>1, <2>2, <2>4 DEF b
<1>. QED BY <1>2, <1>3, <1>4, AnomaliesAssumption

\* What the volume holds announces every orphan so far, and so does what a report
\* has read of it: no orphan is added between the two reads.
AnomalyInv ==
    /\ IsSeq(emitted) /\ WellNoted(anomalies) /\ Announces(anomalies.list, anomalies.total)
    /\ stage = "total" => Len(seen) \in Nat /\ Announces(seen, anomalies.total)
    /\ stage # "done" => report = NoReport
    /\ OrphansAnnounced

LEMMA AnomalyInit == ReportInit => AnomalyInv
<1>. SUFFICES ASSUME ReportInit PROVE AnomalyInv
  OBVIOUS
<1>1. emitted = <<>> /\ anomalies = [list |-> <<>>, total |-> 0] /\ report = NoReport /\ stage # "total"
  BY DEF ReportInit, Init, NoAnomalies
<1>2. IsSeq(emitted) /\ IsSeq(anomalies.list) /\ Orphans = {} /\ DOMAIN anomalies.list = {}
  BY <1>1 DEF IsSeq, Orphans
<1>3. Cardinality(Orphans) = 0
  BY <1>2, FS_EmptySet
<1>. QED BY <1>1, <1>2, <1>3, AnomaliesAssumption
         DEF AnomalyInv, WellNoted, Announces, OrphansAnnounced

\* The orphans are finitely many.
LEMMA OrphansFinite ==
    ASSUME IsSeq(emitted) PROVE IsFiniteSet(Orphans) /\ Cardinality(Orphans) \in Nat
<1>1. PICK S : emitted \in Seq(S)
  BY DEF IsSeq
<1>2. Len(emitted) \in Nat /\ DOMAIN emitted = 1..Len(emitted)
  BY <1>1
<1>3. IsFiniteSet(1..Len(emitted))
  BY <1>2, FS_Interval
<1>4. Orphans \subseteq 1..Len(emitted)
  BY <1>2 DEF Orphans
<1>5. IsFiniteSet(Orphans)
  BY <1>3, <1>4, FS_Subset
<1>. QED BY <1>5, FS_CardinalityType

\* An anomaly noted without a callback keeps everything announced.
LEMMA NoteAnnounces ==
    ASSUME AnomalyInv, NEW op, NEW offset, anomalies' = Note(anomalies, op, offset),
           UNCHANGED emitted
    PROVE  /\ WellNoted(anomalies)' /\ Announces(anomalies.list, anomalies.total)'
           /\ stage = "total" => Announces(seen, anomalies.total')
<1>1. Orphans' = Orphans /\ Cardinality(Orphans) \in Nat
  BY OrphansFinite DEF Orphans, AnomalyInv
<1>2. LET b == anomalies'
      IN  /\ WellNoted(b) /\ b.total = anomalies.total + 1
          /\ Len(anomalies.list) <= Len(b.list)
          /\ Len(b.list) \in Nat /\ Len(anomalies.list) \in Nat
          /\ \A o : HasOp(anomalies.list, o) => HasOp(b.list, o)
  BY NoteListed DEF AnomalyInv
<1>3. HasOp(anomalies.list, "walk_path") => HasOp(anomalies.list', "walk_path")
  BY <1>2
<1>4. anomalies.total \in Nat /\ anomalies.total' = anomalies.total + 1
  BY <1>2 DEF AnomalyInv, WellNoted
<1>5. WellNoted(anomalies)'
  BY <1>2 DEF WellNoted, IsSeq
<1>6. Announces(anomalies.list, anomalies.total)'
  BY <1>1, <1>2, <1>3, <1>4, AnomaliesAssumption DEF AnomalyInv, Announces, WellNoted, HasOp
<1>7. stage = "total" => Announces(seen, anomalies.total')
  BY <1>1, <1>4 DEF AnomalyInv, Announces
<1>. QED BY <1>5, <1>6, <1>7

\* A callback without a path makes one more orphan, another none.
LEMMA CallbackOrphans ==
    ASSUME AnomalyInv, NEW c, NEW p, Callback(c, p)
    PROVE  /\ IsSeq(emitted)' /\ Cardinality(Orphans) \in Nat
           /\ p # NoPath => Orphans' = Orphans
           /\ p = NoPath => Cardinality(Orphans') = Cardinality(Orphans) + 1
<1>. DEFINE e == [cnid |-> c, path |-> p]
<1>1. IsSeq(emitted) /\ emitted' = Append(emitted, e) /\ e.path = p
  BY DEF AnomalyInv, Callback
<1>2. /\ IsSeq(emitted') /\ Len(emitted) \in Nat /\ DOMAIN emitted = 1..Len(emitted)
      /\ DOMAIN emitted' = 1..(Len(emitted) + 1) /\ emitted'[Len(emitted) + 1] = e
      /\ \A i \in DOMAIN emitted : emitted'[i] = emitted[i]
  BY <1>1, AppendIsSeq
<1>3. IsFiniteSet(Orphans) /\ Cardinality(Orphans) \in Nat
  BY <1>1, OrphansFinite
<1>4. Orphans' = IF p = NoPath THEN Orphans \union {Len(emitted) + 1} ELSE Orphans
  <2>. HIDE DEF e
  <2>1. \A i : i \in DOMAIN emitted' <=> i \in DOMAIN emitted \/ i = Len(emitted) + 1
    BY <1>2
  <2>. QED BY <1>1, <1>2, <2>1 DEF Orphans
<1>5. Len(emitted) + 1 \notin Orphans
  BY <1>2 DEF Orphans
<1>6. p = NoPath => Cardinality(Orphans') = Cardinality(Orphans) + 1
  BY <1>3, <1>4, <1>5, FS_AddElement
<1>. QED BY <1>2, <1>3, <1>4, <1>6 DEF IsSeq

\* The path of the root is never missing; that of another record is noted as
\* soon as it is.
LEMMA EmitAnnounces ==
    ASSUME AnomalyInv, Emit
    PROVE  IsSeq(emitted)' /\ WellNoted(anomalies)' /\ Announces(anomalies.list, anomalies.total)'
<1>. DEFINE c == Cardinality(Orphans)
<1>1. Callback(rec, path)
  BY DEF Emit
<1>2. /\ IsSeq(emitted)' /\ c \in Nat
      /\ path # NoPath => Orphans' = Orphans
      /\ path = NoPath => Cardinality(Orphans') = c + 1
  BY <1>1, CallbackOrphans
<1>3. CASE path # NoPath
  <2>1. anomalies' = anomalies /\ Orphans' = Orphans
    BY <1>2, <1>3 DEF Emit
  <2>. QED BY <1>2, <2>1 DEF AnomalyInv, WellNoted, Announces, IsSeq
<1>4. CASE path = NoPath
  <2>1. anomalies' = Note(anomalies, "walk_path", vol.records[rec].parent)
    BY <1>4 DEF Emit
  <2>2. LET b == anomalies'
        IN  /\ WellNoted(b) /\ b.total = anomalies.total + 1
            /\ Len(b.list) < Tracked => HasOp(b.list, "walk_path")
    BY <2>1, NoteListed DEF AnomalyInv
  <2>3. c <= anomalies.total /\ anomalies.total \in Nat
    BY DEF AnomalyInv, Announces, WellNoted
  <2>4. WellNoted(anomalies)'
    BY <2>2 DEF WellNoted, IsSeq
  <2>5. Cardinality(Orphans') <= anomalies.total'
    BY <1>2, <1>4, <2>2, <2>3
  <2>. QED BY <1>2, <2>2, <2>4, <2>5 DEF Announces, WellNoted, HasOp
<1>. QED BY <1>3, <1>4

\* A step of the sweep or of a climb.
LEMMA SweepAnnounces ==
    ASSUME AnomalyInv, Next, stage = "walk", UNCHANGED <<stage, seen, report>>
    PROVE  AnomalyInv'
<1>1. SUFFICES IsSeq(emitted)' /\ WellNoted(anomalies)' /\ Announces(anomalies.list, anomalies.total)'
  BY DEF AnomalyInv, OrphansAnnounced
<1>2. CASE UNCHANGED <<emitted, anomalies>>
  BY <1>2 DEF AnomalyInv, WellNoted, Announces, Orphans, IsSeq
<1>3. CASE Record
  <2>1. CASE \E op, offset : anomalies' = Note(anomalies, op, offset) /\ UNCHANGED emitted
    BY <2>1, NoteAnnounces DEF AnomalyInv, IsSeq
  <2>2. CASE \E c : Callback(c, <<>>) /\ UNCHANGED anomalies
    <3>0. <<>> # NoPath
      <4>1. <<>> \in Seq(Names)
        OBVIOUS
      <4>. QED BY <4>1, PathWalkAssumption
    <3>1. IsSeq(emitted)' /\ Orphans' = Orphans
      BY <2>2, <3>0, CallbackOrphans
    <3>. QED BY <2>2, <3>1 DEF AnomalyInv, WellNoted, Announces, IsSeq
  <2>. QED BY <1>2, <1>3, <2>1, <2>2 DEF Record, Decoded, End
<1>4. CASE Climb \/ PutNext
  <2>1. UNCHANGED <<emitted, anomalies>>
    BY <1>4 DEF Climb, Up, Pass, FailPath, Resolve, Keep, PutNext
  <2>. QED BY <1>2, <2>1
<1>5. CASE Emit
  BY <1>5, EmitAnnounces
<1>. QED BY <1>3, <1>4, <1>5 DEF Next

LEMMA AnomalyStep == ASSUME AnomalyInv, ReportNext PROVE AnomalyInv'
<1>1. CASE Walk
  BY <1>1, SweepAnnounces DEF Walk
<1>2. CASE Walked \/ Cancel
  <2>1. UNCHANGED <<emitted, anomalies, seen, report>> /\ stage # "done"
    BY <1>2 DEF Walked, Cancel, vars
  <2>2. Orphans' = Orphans /\ (stage' = "total" => stage = "total")
    BY <1>2, <2>1 DEF Walked, Cancel, Orphans
  <2>. QED BY <2>1, <2>2 DEF AnomalyInv, WellNoted, Announces, OrphansAnnounced, IsSeq
<1>3. CASE ReadAnomalies
  <2>1. UNCHANGED <<emitted, anomalies, report>> /\ seen' = anomalies.list /\ stage # "done"
    BY <1>3 DEF ReadAnomalies, vars
  <2>2. Len(anomalies.list) \in Nat
    BY AppendIsSeq DEF AnomalyInv, WellNoted
  <2>. QED BY <2>1, <2>2 DEF AnomalyInv, WellNoted, Announces, Orphans, OrphansAnnounced, IsSeq
<1>4. CASE ReadTotal
  <2>1. UNCHANGED <<emitted, anomalies>> /\ stage = "total" /\ stage' = "done"
    BY <1>4 DEF ReadTotal, vars
  <2>2. report'.anomalies = seen /\ report'.total = anomalies.total
    BY <1>4 DEF ReadTotal
  <2>. QED BY <2>1, <2>2 DEF AnomalyInv, WellNoted, Announces, Orphans, OrphansAnnounced, IsSeq
<1>5. CASE OtherNotes
  <2>1. UNCHANGED <<emitted, stage, seen, report>> /\ stage # "done"
    BY <1>5 DEF OtherNotes
  <2>2. \E op : anomalies' = Note(anomalies, op, 0)
    BY <1>5 DEF OtherNotes
  <2>3. /\ WellNoted(anomalies)' /\ Announces(anomalies.list, anomalies.total)'
        /\ stage = "total" => Announces(seen, anomalies.total')
    BY <2>1, <2>2, NoteAnnounces
  <2>. QED BY <2>1, <2>3 DEF AnomalyInv, Announces, Orphans, OrphansAnnounced, IsSeq
<1>. QED BY <1>1, <1>2, <1>3, <1>4, <1>5 DEF ReportNext

\* Every report announces the orphans of its walk, for every volume, every bound
\* on the list and whatever others note meanwhile, although the list and the
\* total are read under separate locks (ReportContext, report.go:262-300).
THEOREM OrphansAreAnnounced == ReportSpec => []OrphansAnnounced
<1>1. AnomalyInv /\ [ReportNext]_<<vars, reportVars>> => AnomalyInv'
  <2>1. ASSUME AnomalyInv, UNCHANGED <<vars, reportVars>> PROVE AnomalyInv'
    BY <2>1 DEF AnomalyInv, WellNoted, Announces, Orphans, OrphansAnnounced, IsSeq, vars, reportVars
  <2>. QED BY <2>1, AnomalyStep
<1>2. AnomalyInv => OrphansAnnounced
  BY DEF AnomalyInv
<1>. QED BY AnomalyInit, <1>1, <1>2, PTL DEF ReportSpec
=============================================================================
