--------------------------- MODULE VolumeCaches ---------------------------
(***************************************************************************)
(* The two caches of a Volume under concurrent use (cache.go), and the     *)
(* lookups that go through them: lookupCNIDRaw (catalog.go), which probes  *)
(* the record cache, and btreeSearcher.readNode (btree_search.go), which   *)
(* probes the node cache.  Each probe and each store takes v.mu; nothing   *)
(* is held in between, so other readers, and callers that resize a cache   *)
(* or change the text encoding, run between any two steps.                 *)
(*                                                                         *)
(* A keyed lookup reads several nodes; here it reads the one that decides  *)
(* its answer.  Node bytes are represented by the node they were read from.*)
(***************************************************************************)
EXTENDS FifoCache

CONSTANTS Readers, Cnids, Nums,
          LeafOf,        \* LeafOf[c]: the catalog leaf that holds record c
          MaxSize,       \* bound on the sizes a caller sets
          Encodings,     \* the text encodings a caller may select
          Default,       \* the encoding of a fresh volume
          Classic,       \* TRUE for classic HFS, whose names need decoding
          Unicode,       \* the encoding of every HFS+ name
          Idle, Failed

ASSUME CachesAssumption ==
    /\ LeafOf \in [Cnids -> Nums]
    /\ Default \in Encodings
    /\ Classic \in BOOLEAN
    /\ MaxSize \in Nat

Trees == {"catalog", "extents"}
Nodes == [tree : Trees, num : Nums]
Node(tree, num) == [tree |-> tree, num |-> num]

\* Mutant: the key is the node number alone.
KeyOf_NumOnly(tree, num) == Node("catalog", num)

\* nodeCacheKey: the tree is part of the key.
KeyOf(tree, num) == Node(tree, num)

Requests == [kind : {"record"}, cnid : Cnids] \union [kind : {"node"}, num : Nums]

\* What decoding record c from a node yields under an encoding.
Decoded(c, node, enc) == [cnid |-> c, node |-> node, name |-> IF Classic THEN enc ELSE Unicode]

Records == [cnid : Cnids, node : Nodes, name : Encodings \union {Unicode}]

ASSUME MarkersAssumption == Idle \notin Requests /\ Absent \notin Nodes \union Records

VARIABLES rec,        \* the record cache: recCache, recOrder, cacheMax
          node,       \* the node cache: nodeCache, nodeOrder, nodeCacheMax
          encoding,   \* textEncoding
          at,         \* at[r]: where reader r is
          asked,      \* asked[r]: the request it serves
          buf,        \* buf[r]: the node buffer, then the record, it holds
          answer      \* answer[r]: what its last request returned

reader == <<at, asked, buf, answer>>
vars == <<rec, node, encoding, reader>>

\* The node a request is decided by.
Wanted(q) == IF q.kind = "record" THEN KeyOf("catalog", LeafOf[q.cnid])
                                  ELSE KeyOf("extents", q.num)

OnDiskNode(q) == IF q.kind = "record" THEN Node("catalog", LeafOf[q.cnid])
                                      ELSE Node("extents", q.num)

Init ==
    /\ rec = Empty(Cnids, MaxSize) /\ node = Empty(Nodes, MaxSize)
    /\ encoding = Default
    /\ at = [r \in Readers |-> "idle"]
    /\ asked = [r \in Readers |-> Idle]
    /\ buf = [r \in Readers |-> Idle]
    /\ answer = [r \in Readers |-> Failed]

---------------------------------------------------------------------------
Goto(r, from, to) == at[r] = from /\ at' = [at EXCEPT ![r] = to]

Finish(r, a) ==
    /\ at' = [at EXCEPT ![r] = "idle"]
    /\ asked' = [asked EXCEPT ![r] = Idle]
    /\ buf' = [buf EXCEPT ![r] = Idle]
    /\ answer' = [answer EXCEPT ![r] = a]

Ask(r, q) ==
    /\ Goto(r, "idle", IF q.kind = "record" THEN "lookup" ELSE "probe")
    /\ asked' = [asked EXCEPT ![r] = q]
    /\ UNCHANGED <<rec, node, encoding, buf, answer>>

\* cacheLookup.
CacheLookup(r) ==
    /\ at[r] = "lookup"
    /\ LET c == asked[r].cnid IN
       IF Holds(rec, c) THEN Finish(r, rec.map[c])
                        ELSE at' = [at EXCEPT ![r] = "probe"] /\ UNCHANGED <<asked, buf, answer>>
    /\ UNCHANGED <<rec, node, encoding>>

\* The node is at hand: a node request is served, a record is decoded next.
Got(r, n) ==
    IF asked[r].kind = "node"
    THEN Finish(r, n)
    ELSE /\ at' = [at EXCEPT ![r] = "decode"]
         /\ buf' = [buf EXCEPT ![r] = n]
         /\ UNCHANGED <<asked, answer>>

NodeCacheGet(r) ==
    /\ at[r] = "probe"
    /\ LET k == Wanted(asked[r]) IN
       IF Holds(node, k) THEN Got(r, node.map[k])
                         ELSE at' = [at EXCEPT ![r] = "read"] /\ UNCHANGED <<asked, buf, answer>>
    /\ UNCHANGED <<rec, node, encoding>>

\* nodeAt fills a buffer of the reader's own; it may fail, and then nothing
\* is stored.
ReadNode(r) ==
    /\ at[r] = "read"
    /\ \/ /\ at' = [at EXCEPT ![r] = "put"]
          /\ buf' = [buf EXCEPT ![r] = OnDiskNode(asked[r])]
          /\ UNCHANGED <<asked, answer>>
       \/ Finish(r, Failed)
    /\ UNCHANGED <<rec, node, encoding>>

NodeCachePut(r) ==
    /\ at[r] = "put"
    /\ node' = Put(node, Wanted(asked[r]), buf[r])
    /\ Got(r, buf[r])
    /\ UNCHANGED <<rec, encoding>>

\* decodeCatalogRecord: decodeHFSName takes the encoding under the lock.
Decode(r) ==
    /\ Goto(r, "decode", "store")
    /\ buf' = [buf EXCEPT ![r] = Decoded(asked[r].cnid, @, encoding)]
    /\ UNCHANGED <<rec, node, encoding, asked, answer>>

CacheStore(r) ==
    /\ at[r] = "store"
    /\ rec' = Store(rec, asked[r].cnid, buf[r])
    /\ Finish(r, buf[r])
    /\ UNCHANGED <<node, encoding>>

---------------------------------------------------------------------------
\* Callers that tune the volume while it is read.

SetCacheSize(n) ==
    /\ rec' = Resize(rec, n)
    /\ UNCHANGED <<node, encoding, reader>>

SetNodeCacheSize(n) ==
    /\ node' = Resize(node, n)
    /\ UNCHANGED <<rec, encoding, reader>>

\* SetTextEncoding assigns the field; neither cache is touched.
SetTextEncoding(e) ==
    /\ encoding' = e
    /\ UNCHANGED <<rec, node, reader>>

Step(r) ==
    \/ \E q \in Requests : Ask(r, q)
    \/ CacheLookup(r) \/ NodeCacheGet(r) \/ ReadNode(r) \/ NodeCachePut(r)
    \/ Decode(r) \/ CacheStore(r)

Tune ==
    \/ \E n \in 0..MaxSize : SetCacheSize(n) \/ SetNodeCacheSize(n)
    \/ \E e \in Encodings : SetTextEncoding(e)

Next == Tune \/ \E r \in Readers : Step(r)

Spec == Init /\ [][Next]_vars

---------------------------------------------------------------------------
(* Properties *)

\* The caches and what each reader holds have the types cache.go declares;
\* a reader holds a node or a record exactly at the steps that use one.
TypeOK ==
    /\ rec \in Caches(Cnids, Records) /\ node \in Caches(Nodes, Nodes)
    /\ encoding \in Encodings
    /\ at \in [Readers -> {"idle", "lookup", "probe", "read", "put", "decode", "store"}]
    /\ asked \in [Readers -> Requests \union {Idle}]
    /\ buf \in [Readers -> Nodes \union Records \union {Idle}]
    /\ answer \in [Readers -> Records \union Nodes \union {Failed}]
    /\ \A r \in Readers :
          /\ at[r] = "idle" <=> asked[r] = Idle
          /\ at[r] \in {"lookup", "decode", "store"} => asked[r].kind = "record"
          /\ at[r] \in {"put", "decode"} => buf[r] \in Nodes
          /\ at[r] = "store" => buf[r] \in Records

\* However stores, evictions and resizes of several goroutines interleave,
\* map, order and bound of each cache agree (cache.go:20-86, 166-242).
CachesSound == Sound(rec) /\ Sound(node)

\* The answers the disk alone allows: the node itself, or the record of the
\* CNID with its name in an encoding that can be selected.
OnDisk(q) ==
    IF q.kind = "node" THEN {OnDiskNode(q)}
    ELSE {Decoded(q.cnid, OnDiskNode(q), e) : e \in Encodings}

\* What is cached is what the disk holds under that key: a node buffer is the
\* node of its own tree and number, and a record was decoded from its own leaf.
\* (The keys are a pair of tree and number for this reason, cache.go:3-14.)
CachesCoherent ==
    /\ \A k \in Nodes : Holds(node, k) => node.map[k] = k
    /\ \A c \in Cnids : Holds(rec, c) => rec.map[c] \in OnDisk([kind |-> "record", cnid |-> c])

\* The caches are transparent: every behaviour of the readers is one of
\* readers without caches, up to the encoding of a name.
Cacheless == INSTANCE CachelessVolume WITH asked <- asked, answer <- answer, OnDisk <- OnDisk
Transparent == Cacheless!Spec
===========================================================================
