------------------------ MODULE VolumeCachesProofs ------------------------
(***************************************************************************)
(* Proofs about VolumeCaches: for any number of readers, records, nodes    *)
(* and cache sizes, and in any interleaving with resizes, the caches stay  *)
(* sound and coherent, and readers cannot tell that they are there.        *)
(***************************************************************************)
EXTENDS VolumeCaches, SequenceTheorems, TLAPS

---------------------------------------------------------------------------
(* One cache: every operation keeps map, order and bound in agreement, for *)
(* any keys, values and sizes.                                             *)

\* What membership in Caches says of the three fields.
LEMMA CacheFields ==
    ASSUME NEW keys, NEW values, NEW c \in Caches(keys, values)
    PROVE  /\ c.map \in [keys -> values \union {Absent}] /\ DOMAIN c.map = keys
           /\ c.order \in Seq(keys) /\ Len(c.order) \in Nat
           /\ c.order \in [1..Len(c.order) -> keys]
           /\ c.max \in Nat
<1>1. c.order \in Seq(keys) /\ c.max \in Nat /\ c.map \in [keys -> values \union {Absent}]
  BY DEF Caches
<1>. QED
  BY <1>1, LenProperties

\* The newest n entries of a longer insertion order.
LEMMA NewestIsSuffix ==
    ASSUME NEW keys, NEW o \in Seq(keys), NEW n \in Nat, Len(o) > n
    PROVE  /\ Newest(o, n) \in Seq(keys) /\ Len(Newest(o, n)) = n
           /\ \A i \in 1..n : /\ Len(o) - n + i \in 1..Len(o)
                              /\ Newest(o, n)[i] = o[Len(o) - n + i]
<1>1. Len(o) \in Nat /\ o \in [1..Len(o) -> keys]
  BY LenProperties
<1>2. \A i \in 1..n : Len(o) - n + i \in 1..Len(o)
  BY <1>1
<1>3. Newest(o, n) = [i \in 1..n |-> o[Len(o) - n + i]]
  BY <1>1 DEF Newest
<1>4. Newest(o, n) \in [1..n -> keys]
  BY <1>1, <1>2, <1>3
<1>5. Newest(o, n) \in Seq(keys)
  BY <1>4, SeqDef
<1>6. Len(Newest(o, n)) = n
  BY <1>4, <1>5, LenProperties
<1>. QED
  BY <1>2, <1>3, <1>5, <1>6

\* Trimming leaves a sound cache of at most n entries, and what it keeps it
\* keeps unchanged.
LEMMA TrimSound ==
    ASSUME NEW keys, NEW values, Absent \notin values,
           NEW c \in Caches(keys, values), Sound(c), NEW n \in Nat
    PROVE  /\ Trim(c, n) \in Caches(keys, values)
           /\ Sound(Trim(c, n))
           /\ Len(Trim(c, n).order) <= n
           /\ Trim(c, n).max = c.max
           /\ \A k \in keys : Holds(Trim(c, n), k) => Trim(c, n).map[k] = c.map[k]
<1>. DEFINE o == c.order
            t == Trim(c, n)
<1>1. /\ c.map \in [keys -> values \union {Absent}] /\ DOMAIN c.map = keys
      /\ o \in Seq(keys) /\ Len(o) \in Nat /\ o \in [1..Len(o) -> keys] /\ c.max \in Nat
  BY CacheFields
<1>2. /\ t = [map |-> t.map, order |-> t.order, max |-> t.max]
      /\ t.map = [k \in keys |-> IF k \in Evicted(o, n) THEN Absent ELSE c.map[k]]
      /\ t.order = Newest(o, n) /\ t.max = c.max
  BY <1>1 DEF Trim
<1>3. t.map \in [keys -> values \union {Absent}] /\ DOMAIN t.map = keys
  BY <1>1, <1>2
<1>4. \A k \in keys : Holds(t, k) => t.map[k] = c.map[k]
  BY <1>2 DEF Holds
<1>5. Len(o) <= c.max
  BY DEF Sound
<1>6. CASE Len(o) <= n
  <2>1. Evicted(o, n) = {}
    BY <1>1, <1>6 DEF Evicted
  <2>2. t.map = c.map /\ t.order = o
    BY <1>1, <1>2, <1>6, <2>1 DEF Newest
  <2>3. Sound(t)
    BY <1>2, <2>2 DEF Sound, Holds
  <2>4. t \in Caches(keys, values)
    BY <1>1, <1>2, <2>2 DEF Caches
  <2>. QED
    BY <1>1, <1>2, <1>4, <1>6, <2>2, <2>3, <2>4
<1>7. CASE Len(o) > n
  <2>. DEFINE d == Len(o) - n
  <2>1. d \in Nat /\ d > 0
    BY <1>1, <1>7
  <2>2. /\ t.order \in Seq(keys) /\ Len(t.order) = n
        /\ \A i \in 1..n : d + i \in 1..Len(o) /\ t.order[i] = o[d + i]
    BY <1>1, <1>2, <1>7, NewestIsSuffix
  <2>3. \A k \in keys : k \in Evicted(o, n) <=> \E i \in 1..d : o[i] = k
    BY DEF Evicted
  <2>4. \A i, j \in 1..Len(o) : o[i] = o[j] => i = j
    BY DEF Sound
  <2>5. \A i, j \in 1..n : t.order[i] = t.order[j] => i = j
    <3>. SUFFICES ASSUME NEW i \in 1..n, NEW j \in 1..n, t.order[i] = t.order[j] PROVE i = j
      OBVIOUS
    <3>1. d + i = d + j
      BY <2>2, <2>4
    <3>. QED
      BY <2>1, <3>1
  <2>6. ASSUME NEW k \in keys
        PROVE  t.map[k] # Absent <=> \E i \in 1..n : t.order[i] = k
    <3>1. c.map[k] # Absent <=> \E j \in 1..Len(o) : o[j] = k
      BY <1>1 DEF Sound, Holds
    <3>2. ASSUME NEW i \in 1..n, t.order[i] = k
          PROVE  t.map[k] # Absent
      <4>1. \A j \in 1..d : j \in 1..Len(o) /\ j # d + i
        BY <1>1, <2>1, <1>7
      <4>2. o[d + i] = k /\ d + i \in 1..Len(o)
        BY <2>2, <3>2
      <4>3. \A j \in 1..d : o[j] # k
        BY <2>4, <4>1, <4>2
      <4>4. k \notin Evicted(o, n)
        BY <2>3, <4>3
      <4>5. c.map[k] # Absent
        BY <3>1, <4>2
      <4>. QED
        BY <1>2, <4>4, <4>5
    <3>3. ASSUME t.map[k] # Absent
          PROVE  \E i \in 1..n : t.order[i] = k
      <4>1. k \notin Evicted(o, n) /\ c.map[k] # Absent
        BY <1>2, <3>3
      <4>2. PICK j \in 1..Len(o) : o[j] = k
        BY <3>1, <4>1
      <4>3. j \notin 1..d
        BY <2>3, <4>1, <4>2
      <4>4. PICK i \in 1..n : j = d + i
        <5>. DEFINE i == j - d
        <5>1. Len(o) \in Nat /\ j \in Nat /\ j <= Len(o) /\ j > d
          BY <1>1, <2>1, <4>3
        <5>2. i \in 1..n
          BY <5>1
        <5>3. j = d + i
          <6>1. d \in Int /\ j \in Int
            BY <2>1, <5>1
          <6>. HIDE DEF d
          <6>. QED
            BY <6>1
        <5>. QED
          BY <5>2, <5>3
      <4>. QED
        BY <2>2, <4>2, <4>4
    <3>. QED
      BY <3>2, <3>3
  <2>7. n <= c.max
    BY <1>1, <1>5, <1>7
  <2>8. Sound(t)
    BY <1>2, <1>3, <2>2, <2>5, <2>6, <2>7 DEF Sound, Holds
  <2>9. t \in Caches(keys, values)
    BY <1>1, <1>2, <1>3, <2>2 DEF Caches
  <2>. QED
    BY <1>2, <1>4, <2>2, <2>8, <2>9
<1>. QED
  BY <1>1, <1>6, <1>7

\* A new key goes in last, and the bound still holds.
LEMMA InsertSound ==
    ASSUME NEW keys, NEW values, Absent \notin values,
           NEW c \in Caches(keys, values), Sound(c), c.max # 0,
           NEW k \in keys, NEW v \in values, ~Holds(c, k)
    PROVE  /\ Insert(c, k, v) \in Caches(keys, values)
           /\ Sound(Insert(c, k, v))
           /\ \A x \in keys : Holds(Insert(c, k, v), x) =>
                 Insert(c, k, v).map[x] = IF x = k THEN v ELSE c.map[x]
<1>. DEFINE t == Trim(c, c.max - 1)
            s == Insert(c, k, v)
<1>1. c.max - 1 \in Nat /\ c.max \in Nat
  BY CacheFields
<1>2. /\ t \in Caches(keys, values) /\ Sound(t) /\ Len(t.order) <= c.max - 1
      /\ t.max = c.max /\ \A x \in keys : Holds(t, x) => t.map[x] = c.map[x]
  BY <1>1, TrimSound
<1>3. /\ t.map \in [keys -> values \union {Absent}] /\ DOMAIN t.map = keys
      /\ t.order \in Seq(keys) /\ Len(t.order) \in Nat /\ t.order \in [1..Len(t.order) -> keys]
  BY <1>2, CacheFields
<1>4. /\ s = [map |-> s.map, order |-> s.order, max |-> s.max]
      /\ s.map = [t.map EXCEPT ![k] = v] /\ s.order = Append(t.order, k) /\ s.max = c.max
  BY DEF Insert
<1>5. t.map[k] = Absent
  BY <1>2 DEF Holds
<1>6. /\ s.map \in [keys -> values \union {Absent}] /\ DOMAIN s.map = keys
      /\ s.map[k] = v /\ \A x \in keys : x # k => s.map[x] = t.map[x]
  BY <1>3, <1>4
<1>7. /\ s.order \in Seq(keys)
      /\ Len(s.order) = Len(t.order) + 1 /\ s.order[Len(t.order) + 1] = k
      /\ \A i \in 1..Len(t.order) : s.order[i] = t.order[i]
  BY <1>3, <1>4, AppendProperties
<1>8. /\ \A i, j \in 1..Len(t.order) : t.order[i] = t.order[j] => i = j
      /\ \A x \in keys : t.map[x] # Absent <=> \E i \in 1..Len(t.order) : t.order[i] = x
  BY <1>2, <1>3 DEF Sound, Holds
<1>9. \A i \in 1..Len(t.order) : t.order[i] # k
  BY <1>5, <1>8
<1>10. s \in Caches(keys, values)
  BY <1>1, <1>4, <1>6, <1>7 DEF Caches
<1>11. 1..Len(s.order) = 1..Len(t.order) \union {Len(t.order) + 1}
  BY <1>3, <1>7
<1>12. ASSUME NEW x \in keys
       PROVE  s.map[x] # Absent <=> \E i \in 1..Len(s.order) : s.order[i] = x
  <2>1. CASE x = k
    BY <1>6, <1>7, <1>11, <2>1
  <2>2. CASE x # k
    <3>1. s.map[x] # Absent <=> \E i \in 1..Len(t.order) : t.order[i] = x
      BY <1>6, <1>8, <2>2
    <3>. QED BY ONLY <1>7, <1>11, <2>2, <3>1
  <2>. QED
    BY <2>1, <2>2
<1>13. \A i, j \in 1..Len(s.order) : s.order[i] = s.order[j] => i = j
  BY <1>7, <1>8, <1>9, <1>11
<1>14. Len(s.order) <= s.max
  BY <1>1, <1>2, <1>3, <1>4, <1>7
<1>15. Sound(s)
  BY <1>6, <1>12, <1>13, <1>14 DEF Sound, Holds
<1>16. ASSUME NEW x \in keys, Holds(s, x)
       PROVE  s.map[x] = IF x = k THEN v ELSE c.map[x]
  BY <1>2, <1>6, <1>16 DEF Holds
<1>. QED
  BY <1>10, <1>15, <1>16

\* cacheStore keeps the record cache sound; what it holds afterwards is the
\* value stored or what it held before.
THEOREM StoreSound ==
    ASSUME NEW keys, NEW values, Absent \notin values,
           NEW c \in Caches(keys, values), Sound(c), NEW k \in keys, NEW v \in values
    PROVE  /\ Store(c, k, v) \in Caches(keys, values)
           /\ Sound(Store(c, k, v))
           /\ \A x \in keys : Holds(Store(c, k, v), x) =>
                 \/ Holds(c, x) /\ Store(c, k, v).map[x] = c.map[x]
                 \/ x = k /\ Store(c, k, v).map[x] = v
<1>1. CASE c.max = 0
  <2>1. Store(c, k, v) = c
    BY <1>1 DEF Store
  <2>. QED
    BY <2>1
<1>2. CASE c.max # 0 /\ Holds(c, k)
  <2>. DEFINE s == Store(c, k, v)
  <2>1. /\ s = [map |-> s.map, order |-> s.order, max |-> s.max]
        /\ s.map = [c.map EXCEPT ![k] = v] /\ s.order = c.order /\ s.max = c.max
    BY <1>2 DEF Store
  <2>2. /\ c.map \in [keys -> values \union {Absent}] /\ DOMAIN c.map = keys
        /\ c.order \in Seq(keys) /\ c.max \in Nat
    BY CacheFields
  <2>3. /\ s.map \in [keys -> values \union {Absent}] /\ DOMAIN s.map = keys
        /\ s.map[k] = v /\ \A x \in keys : x # k => s.map[x] = c.map[x]
    BY <2>1, <2>2
  <2>4. s \in Caches(keys, values)
    BY <2>1, <2>2, <2>3 DEF Caches
  <2>5. \A x \in keys : Holds(s, x) <=> Holds(c, x)
    BY <1>2, <2>3 DEF Holds
  <2>6. Sound(s)
    BY <2>1, <2>2, <2>3, <2>5 DEF Sound
  <2>. QED
    BY <2>3, <2>4, <2>5, <2>6
<1>3. CASE c.max # 0 /\ ~Holds(c, k)
  <2>1. Store(c, k, v) = Insert(c, k, v)
    BY <1>3 DEF Store
  <2>2. \A x \in keys : Holds(Insert(c, k, v), x) /\ x # k => Holds(c, x)
    BY <1>3, InsertSound DEF Holds
  <2>. QED
    BY <1>3, <2>1, <2>2, InsertSound
<1>. QED
  BY <1>1, <1>2, <1>3

\* nodeCachePut keeps the node cache sound.
THEOREM PutSound ==
    ASSUME NEW keys, NEW values, Absent \notin values,
           NEW c \in Caches(keys, values), Sound(c), NEW k \in keys, NEW v \in values
    PROVE  /\ Put(c, k, v) \in Caches(keys, values)
           /\ Sound(Put(c, k, v))
           /\ \A x \in keys : Holds(Put(c, k, v), x) =>
                 \/ Holds(c, x) /\ Put(c, k, v).map[x] = c.map[x]
                 \/ x = k /\ Put(c, k, v).map[x] = v
<1>1. CASE c.max = 0 \/ Holds(c, k)
  <2>1. Put(c, k, v) = c
    BY <1>1 DEF Put
  <2>. QED
    BY <2>1
<1>2. CASE c.max # 0 /\ ~Holds(c, k)
  <2>1. Put(c, k, v) = Insert(c, k, v)
    BY <1>2 DEF Put
  <2>2. \A x \in keys : Holds(Insert(c, k, v), x) /\ x # k => Holds(c, x)
    BY <1>2, InsertSound DEF Holds
  <2>. QED
    BY <1>2, <2>1, <2>2, InsertSound
<1>. QED
  BY <1>1, <1>2

\* A new or disabled cache.
LEMMA EmptySound ==
    ASSUME NEW keys, NEW values, NEW n \in Nat
    PROVE  /\ Empty(keys, n) \in Caches(keys, values)
           /\ Sound(Empty(keys, n))
           /\ \A k \in keys : ~Holds(Empty(keys, n), k)
<1>1. <<>> \in Seq(keys) /\ Len(<<>>) = 0 /\ 1..0 = {}
  OBVIOUS
<1>. QED
  BY <1>1 DEF Empty, Caches, Sound, Holds

\* Shrinking, growing or disabling a cache keeps it sound and adds nothing.
THEOREM ResizeSound ==
    ASSUME NEW keys, NEW values, Absent \notin values,
           NEW c \in Caches(keys, values), Sound(c), NEW n \in Nat
    PROVE  /\ Resize(c, n) \in Caches(keys, values)
           /\ Sound(Resize(c, n))
           /\ \A x \in keys : Holds(Resize(c, n), x) =>
                 Holds(c, x) /\ Resize(c, n).map[x] = c.map[x]
<1>1. DOMAIN c.map = keys
  BY CacheFields
<1>2. CASE n = 0
  BY <1>1, <1>2, EmptySound DEF Resize
<1>3. CASE n # 0
  <2>. DEFINE t == Trim(c, n)
              s == Resize(c, n)
  <2>1. s = [map |-> s.map, order |-> s.order, max |-> s.max]
        /\ s.map = t.map /\ s.order = t.order /\ s.max = n
    BY <1>3 DEF Resize
  <2>2. /\ t \in Caches(keys, values) /\ Sound(t) /\ Len(t.order) <= n
        /\ \A k \in keys : Holds(t, k) => t.map[k] = c.map[k]
    BY TrimSound
  <2>3. t.map \in [keys -> values \union {Absent}] /\ t.order \in Seq(keys) /\ DOMAIN t.map = keys
    BY <2>2, CacheFields
  <2>4. s \in Caches(keys, values)
    BY <2>1, <2>3 DEF Caches
  <2>5. Sound(s)
    BY <2>1, <2>2 DEF Sound, Holds
  <2>. QED
    BY <2>1, <2>2, <2>4, <2>5 DEF Holds
<1>. QED
  BY <1>2, <1>3

---------------------------------------------------------------------------
(* Two caches, and their readers. *)

\* A buffer between its read and its store still is what the disk holds.
ReaderInv ==
    \A r \in Readers :
       /\ at[r] \in {"put", "decode"} => buf[r] = OnDiskNode(asked[r])
       /\ at[r] = "store" => buf[r] \in OnDisk(asked[r])

IInv == TypeOK /\ CachesSound /\ CachesCoherent /\ ReaderInv

RecordOf(c) == [kind |-> "record", cnid |-> c]

LEMMA RequestKinds ==
    ASSUME NEW q \in Requests
    PROVE  /\ q # Idle
           /\ q.kind \in {"record", "node"}
           /\ q.kind = "record" => q.cnid \in Cnids /\ q = RecordOf(q.cnid)
           /\ q.kind = "node" => q.num \in Nums
BY MarkersAssumption DEF Requests, RecordOf

\* The node that decides a request is a node of the volume, and the one the
\* request asks the caches for.
LEMMA WantedIsOnDisk ==
    ASSUME NEW q \in Requests
    PROVE  Wanted(q) \in Nodes /\ OnDiskNode(q) = Wanted(q)
BY RequestKinds, CachesAssumption DEF Wanted, OnDiskNode, KeyOf, Node, Nodes, Trees

\* Decoding a record request's node gives one of the answers of the disk.
LEMMA DecodedIsOnDisk ==
    ASSUME NEW q \in Requests, q.kind = "record", NEW e \in Encodings
    PROVE  Decoded(q.cnid, OnDiskNode(q), e) \in OnDisk(q) \cap Records
BY RequestKinds, WantedIsOnDisk DEF OnDisk, Decoded, Records

LEMMA OnDiskTyped ==
    ASSUME NEW q \in Requests
    PROVE  OnDisk(q) \subseteq Records \union Nodes
           /\ (q.kind = "record" => OnDisk(q) \subseteq Records)
           /\ (q.kind = "node" => OnDisk(q) = {OnDiskNode(q)})
BY RequestKinds, WantedIsOnDisk, DecodedIsOnDisk DEF OnDisk

---------------------------------------------------------------------------
LEMMA InitInv == Init => IInv
<1>. SUFFICES ASSUME Init PROVE IInv
  OBVIOUS
<1>1. MaxSize \in Nat /\ Default \in Encodings
  BY CachesAssumption
<1>2. /\ rec \in Caches(Cnids, Records) /\ Sound(rec) /\ \A c \in Cnids : ~Holds(rec, c)
      /\ node \in Caches(Nodes, Nodes) /\ Sound(node) /\ \A k \in Nodes : ~Holds(node, k)
  BY <1>1, EmptySound DEF Init
<1>3. TypeOK /\ ReaderInv
  BY <1>1, <1>2 DEF Init, TypeOK, ReaderInv
<1>. QED
  BY <1>2, <1>3 DEF IInv, CachesSound, CachesCoherent

\* Steps of a reader that leave both caches alone.
LEMMA ReaderStepInv ==
    ASSUME IInv, NEW r \in Readers,
           \/ \E q \in Requests : Ask(r, q)
           \/ CacheLookup(r) \/ NodeCacheGet(r) \/ ReadNode(r) \/ Decode(r)
    PROVE  IInv'
<1>. USE DEF IInv
<1>1. UNCHANGED <<rec, node, encoding>>
  BY DEF Ask, CacheLookup, NodeCacheGet, ReadNode, Decode
<1>2. CachesSound' /\ CachesCoherent'
  BY <1>1 DEF CachesSound, CachesCoherent, Holds, Sound
<1>3. CASE \E q \in Requests : Ask(r, q)
  <2>1. PICK q \in Requests : Ask(r, q)
    BY <1>3
  <2>2. TypeOK' /\ ReaderInv'
    BY <2>1, RequestKinds DEF Ask, Goto, TypeOK, ReaderInv
  <2>. QED
    BY <1>2, <2>2
<1>4. CASE CacheLookup(r)
  <2>1. asked[r] \in Requests /\ asked[r].kind = "record" /\ asked[r].cnid \in Cnids
    BY <1>4, RequestKinds DEF TypeOK, CacheLookup
  <2>2. Holds(rec, asked[r].cnid) => rec.map[asked[r].cnid] \in Records
    BY <2>1, CacheFields DEF TypeOK, Holds
  <2>3. TypeOK'
    BY <1>1, <1>4, <2>1, <2>2 DEF CacheLookup, Finish, TypeOK
  <2>4. ReaderInv'
    BY <1>4 DEF CacheLookup, Finish, TypeOK, ReaderInv
  <2>. QED
    BY <1>2, <2>3, <2>4
<1>5. CASE NodeCacheGet(r)
  <2>1. /\ asked[r] \in Requests /\ Wanted(asked[r]) \in Nodes
        /\ Wanted(asked[r]) = OnDiskNode(asked[r])
    BY <1>5, WantedIsOnDisk DEF TypeOK, NodeCacheGet
  <2>2. Holds(node, Wanted(asked[r])) => node.map[Wanted(asked[r])] = Wanted(asked[r])
    BY <2>1 DEF CachesCoherent
  <2>3. TypeOK'
    BY <1>1, <1>5, <2>1, <2>2, RequestKinds DEF NodeCacheGet, Got, Finish, TypeOK
  <2>4. ReaderInv'
    BY <1>5, <2>1, <2>2 DEF NodeCacheGet, Got, Finish, TypeOK, ReaderInv
  <2>. QED
    BY <1>2, <2>3, <2>4
<1>6. CASE ReadNode(r)
  <2>1. asked[r] \in Requests /\ OnDiskNode(asked[r]) \in Nodes
    BY <1>6, WantedIsOnDisk DEF TypeOK, ReadNode
  <2>2. TypeOK'
    BY <1>1, <1>6, <2>1 DEF ReadNode, Finish, TypeOK
  <2>3. ReaderInv'
    BY <1>6 DEF ReadNode, Finish, TypeOK, ReaderInv
  <2>. QED
    BY <1>2, <2>2, <2>3
<1>7. CASE Decode(r)
  <2>1. asked[r] \in Requests /\ asked[r].kind = "record" /\ buf[r] = OnDiskNode(asked[r])
    BY <1>7 DEF TypeOK, Decode, Goto, ReaderInv
  <2>2. Decoded(asked[r].cnid, buf[r], encoding) \in OnDisk(asked[r]) \cap Records
    BY <2>1, DecodedIsOnDisk DEF TypeOK
  <2>3. TypeOK'
    BY <1>1, <1>7, <2>1, <2>2 DEF Decode, Goto, TypeOK
  <2>4. ReaderInv'
    BY <1>7, <2>2 DEF Decode, Goto, TypeOK, ReaderInv
  <2>. QED
    BY <1>2, <2>3, <2>4
<1>. QED
  BY <1>3, <1>4, <1>5, <1>6, <1>7

\* nodeCachePut: what goes in is the node its key names.
LEMMA NodeCachePutInv ==
    ASSUME IInv, NEW r \in Readers, NodeCachePut(r)
    PROVE  IInv'
<1>. USE DEF IInv
<1>. DEFINE k == Wanted(asked[r])
<1>1. asked[r] \in Requests /\ k \in Nodes /\ buf[r] = k /\ k = OnDiskNode(asked[r])
  BY WantedIsOnDisk DEF TypeOK, NodeCachePut, ReaderInv
<1>2. node \in Caches(Nodes, Nodes) /\ Sound(node) /\ Absent \notin Nodes
  BY MarkersAssumption DEF TypeOK, CachesSound
<1>3. node' = Put(node, k, k) /\ rec' = rec /\ encoding' = encoding
  BY <1>1 DEF NodeCachePut
<1>4. /\ node' \in Caches(Nodes, Nodes) /\ Sound(node')
      /\ \A x \in Nodes : Holds(node', x) =>
            \/ Holds(node, x) /\ node'.map[x] = node.map[x]
            \/ x = k /\ node'.map[x] = k
  BY <1>1, <1>2, <1>3, PutSound
<1>5. CachesSound' /\ CachesCoherent'
  BY <1>3, <1>4 DEF CachesSound, CachesCoherent
<1>6. TypeOK'
  BY <1>1, <1>3, <1>4, RequestKinds DEF NodeCachePut, Got, Finish, TypeOK
<1>7. ReaderInv'
  BY <1>1 DEF NodeCachePut, Got, Finish, TypeOK, ReaderInv
<1>. QED
  BY <1>5, <1>6, <1>7

\* cacheStore: what goes in is an answer the disk allows for its CNID.
LEMMA CacheStoreInv ==
    ASSUME IInv, NEW r \in Readers, CacheStore(r)
    PROVE  IInv'
<1>. USE DEF IInv
<1>. DEFINE c == asked[r].cnid
<1>1. /\ asked[r] \in Requests /\ c \in Cnids /\ asked[r] = RecordOf(c)
      /\ buf[r] \in Records /\ buf[r] \in OnDisk(RecordOf(c))
  BY RequestKinds DEF TypeOK, CacheStore, ReaderInv
<1>2. rec \in Caches(Cnids, Records) /\ Sound(rec) /\ Absent \notin Records
  BY MarkersAssumption DEF TypeOK, CachesSound
<1>3. rec' = Store(rec, c, buf[r]) /\ node' = node /\ encoding' = encoding
  BY DEF CacheStore
<1>4. /\ rec' \in Caches(Cnids, Records) /\ Sound(rec')
      /\ \A x \in Cnids : Holds(rec', x) =>
            \/ Holds(rec, x) /\ rec'.map[x] = rec.map[x]
            \/ x = c /\ rec'.map[x] = buf[r]
  BY <1>1, <1>2, <1>3, StoreSound
<1>5. \A x \in Cnids : Holds(rec', x) => rec'.map[x] \in OnDisk(RecordOf(x))
  BY <1>1, <1>4 DEF CachesCoherent, RecordOf
<1>6. CachesSound' /\ CachesCoherent'
  BY <1>3, <1>4, <1>5 DEF CachesSound, CachesCoherent, RecordOf
<1>7. TypeOK'
  BY <1>1, <1>3, <1>4 DEF CacheStore, Finish, TypeOK
<1>8. ReaderInv'
  BY DEF CacheStore, Finish, TypeOK, ReaderInv
<1>. QED
  BY <1>6, <1>7, <1>8

\* Resizing a cache, or selecting an encoding, while readers are under way.
LEMMA TuneInv ==
    ASSUME IInv, Tune
    PROVE  IInv'
<1>. USE DEF IInv
<1>1. /\ rec \in Caches(Cnids, Records) /\ Sound(rec)
      /\ node \in Caches(Nodes, Nodes) /\ Sound(node)
      /\ Absent \notin Records /\ Absent \notin Nodes
  BY MarkersAssumption DEF TypeOK, CachesSound
<1>2. CASE \E n \in 0..MaxSize : SetCacheSize(n)
  <2>1. PICK n \in Nat : SetCacheSize(n)
    BY <1>2, CachesAssumption
  <2>2. /\ rec' \in Caches(Cnids, Records) /\ Sound(rec')
        /\ \A x \in Cnids : Holds(rec', x) => Holds(rec, x) /\ rec'.map[x] = rec.map[x]
    BY <1>1, <2>1, ResizeSound DEF SetCacheSize
  <2>3. CachesSound' /\ CachesCoherent'
    BY <2>1, <2>2 DEF SetCacheSize, CachesSound, CachesCoherent
  <2>4. TypeOK' /\ ReaderInv'
    BY <2>1, <2>2 DEF SetCacheSize, reader, TypeOK, ReaderInv
  <2>. QED
    BY <2>3, <2>4
<1>3. CASE \E n \in 0..MaxSize : SetNodeCacheSize(n)
  <2>1. PICK n \in Nat : SetNodeCacheSize(n)
    BY <1>3, CachesAssumption
  <2>2. /\ node' \in Caches(Nodes, Nodes) /\ Sound(node')
        /\ \A x \in Nodes : Holds(node', x) => Holds(node, x) /\ node'.map[x] = node.map[x]
    BY <1>1, <2>1, ResizeSound DEF SetNodeCacheSize
  <2>3. CachesSound' /\ CachesCoherent'
    BY <2>1, <2>2 DEF SetNodeCacheSize, CachesSound, CachesCoherent
  <2>4. TypeOK' /\ ReaderInv'
    BY <2>1, <2>2 DEF SetNodeCacheSize, reader, TypeOK, ReaderInv
  <2>. QED
    BY <2>3, <2>4
<1>4. CASE \E e \in Encodings : SetTextEncoding(e)
  BY <1>4 DEF SetTextEncoding, reader, TypeOK, CachesSound, CachesCoherent, ReaderInv
<1>. QED
  BY <1>2, <1>3, <1>4 DEF Tune

LEMMA InvStep == IInv /\ [Next]_vars => IInv'
<1>. SUFFICES ASSUME IInv, [Next]_vars PROVE IInv'
  OBVIOUS
<1>1. CASE UNCHANGED vars
  BY <1>1 DEF vars, reader, IInv, TypeOK, CachesSound, CachesCoherent, ReaderInv
<1>2. CASE Tune
  BY <1>2, TuneInv
<1>3. CASE \E r \in Readers : Step(r)
  BY <1>3, ReaderStepInv, NodeCachePutInv, CacheStoreInv DEF Step
<1>. QED
  BY <1>1, <1>2, <1>3 DEF Next

LEMMA Invariance == Spec => []IInv
BY InitInv, InvStep, PTL DEF Spec

---------------------------------------------------------------------------
\* The state of the volume's caches and readers is always well typed.
THEOREM TypeCorrect == Spec => []TypeOK
<1>1. IInv => TypeOK
  BY DEF IInv
<1>. QED
  BY Invariance, <1>1, PTL

\* Map, order and bound of both caches agree in every interleaving of
\* lookups, evictions and resizes.
THEOREM AlwaysSound == Spec => []CachesSound
<1>1. IInv => CachesSound
  BY DEF IInv
<1>. QED
  BY Invariance, <1>1, PTL

\* Nothing wrong is ever cached: not under another node's key, and not what
\* another reader was decoding.
THEOREM AlwaysCoherent == Spec => []CachesCoherent
<1>1. IInv => CachesCoherent
  BY DEF IInv
<1>. QED
  BY Invariance, <1>1, PTL

\* A reply is one the disk alone allows.
LEMMA FinishIsReply ==
    ASSUME IInv, NEW r \in Readers, asked[r] \in Requests, NEW a, Finish(r, a),
           a \in OnDisk(asked[r]) \union {Failed}
    PROVE  Cacheless!Reply(r)
BY RequestKinds DEF Finish, Cacheless!Reply

LEMMA RefinementStep ==
    IInv /\ [Next]_vars => [Cacheless!Next]_<<asked, answer>>
<1>. SUFFICES ASSUME IInv, [Next]_vars, ~UNCHANGED <<asked, answer>>
              PROVE  \E r \in Readers : Cacheless!Ask(r) \/ Cacheless!Reply(r)
  BY DEF Cacheless!Next
<1>1. PICK r \in Readers : Step(r)
  BY DEF Next, Tune, SetCacheSize, SetNodeCacheSize, SetTextEncoding, vars, reader
<1>2. CASE \E q \in Requests : Ask(r, q)
  BY <1>2 DEF Ask, Goto, IInv, TypeOK, Cacheless!Ask
<1>3. CASE ~ \E q \in Requests : Ask(r, q)
  <2>1. asked[r] \in Requests
    BY <1>1, <1>3 DEF Step, CacheLookup, NodeCacheGet, ReadNode, NodeCachePut, Decode, Goto,
                      CacheStore, IInv, TypeOK
  <2>2. asked[r].kind = "node" => OnDisk(asked[r]) = {OnDiskNode(asked[r])}
    BY <2>1, OnDiskTyped
  <2>3. Wanted(asked[r]) \in Nodes /\ OnDiskNode(asked[r]) = Wanted(asked[r])
    BY <2>1, WantedIsOnDisk
  <2>4. CASE CacheLookup(r)
    <3>1. asked[r].cnid \in Cnids /\ asked[r] = RecordOf(asked[r].cnid)
      BY <2>1, <2>4, RequestKinds DEF CacheLookup, IInv, TypeOK
    <3>2. Holds(rec, asked[r].cnid) /\ Finish(r, rec.map[asked[r].cnid])
      BY <2>4 DEF CacheLookup
    <3>3. rec.map[asked[r].cnid] \in OnDisk(asked[r])
      BY <3>1, <3>2 DEF IInv, CachesCoherent, RecordOf
    <3>. QED
      BY <2>1, <3>2, <3>3, FinishIsReply
  <2>5. CASE NodeCacheGet(r)
    <3>1. /\ asked[r].kind = "node"
          /\ Holds(node, Wanted(asked[r])) /\ Finish(r, node.map[Wanted(asked[r])])
      BY <2>5 DEF NodeCacheGet, Got
    <3>2. node.map[Wanted(asked[r])] \in OnDisk(asked[r])
      BY <2>2, <2>3, <3>1 DEF IInv, CachesCoherent
    <3>. QED
      BY <2>1, <3>1, <3>2, FinishIsReply
  <2>6. CASE ReadNode(r)
    <3>1. Finish(r, Failed)
      BY <2>6 DEF ReadNode
    <3>. QED
      BY <2>1, <3>1, FinishIsReply
  <2>7. CASE NodeCachePut(r)
    <3>1. asked[r].kind = "node" /\ Finish(r, buf[r])
      BY <2>7 DEF NodeCachePut, Got
    <3>2. buf[r] \in OnDisk(asked[r])
      BY <2>2, <2>7, <3>1 DEF NodeCachePut, IInv, ReaderInv
    <3>. QED
      BY <2>1, <3>1, <3>2, FinishIsReply
  <2>8. CASE Decode(r)
    BY <2>8 DEF Decode
  <2>9. CASE CacheStore(r)
    <3>1. Finish(r, buf[r]) /\ buf[r] \in OnDisk(asked[r])
      BY <2>9 DEF CacheStore, IInv, ReaderInv
    <3>. QED
      BY <2>1, <3>1, FinishIsReply
  <2>. QED
    BY <1>1, <1>3, <2>4, <2>5, <2>6, <2>7, <2>8, <2>9 DEF Step
<1>. QED
  BY <1>2, <1>3

\* With the caches on, of any size and resized at any time, readers get the
\* answers of a volume that caches nothing.
THEOREM CachesAreTransparent == Spec => Transparent
<1>1. Init => Cacheless!Init
  BY DEF Init, Cacheless!Init
<1>. QED
  BY <1>1, Invariance, RefinementStep, PTL DEF Spec, Cacheless!Spec, Transparent
===========================================================================
