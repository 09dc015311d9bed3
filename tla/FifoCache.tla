---------------------------- MODULE FifoCache ----------------------------
(***************************************************************************)
(* The bounded first-in-first-out caches of cache.go, as operators on a    *)
(* record [map, order, max]: the Go map (Absent where it has no entry, and *)
(* everywhere when it is nil), the insertion order, and the bound.  The    *)
(* record cache and the node cache are two values of this type; they differ*)
(* only in what storing an existing key does.                              *)
(***************************************************************************)
EXTENDS Integers, Sequences

CONSTANT Absent

\* The keys evicted when the order is cut down to its newest n entries, and
\* the cut order: the closed form of "for len(order) > n { evictOldest }".
Evicted(order, n) == {order[i] : i \in 1..Len(order)-n}

Newest(order, n) ==
    IF Len(order) <= n THEN order
                       ELSE [i \in 1..n |-> order[Len(order) - n + i]]

Trim(c, n) ==
    [map   |-> [k \in DOMAIN c.map |-> IF k \in Evicted(c.order, n) THEN Absent ELSE c.map[k]],
     order |-> Newest(c.order, n),
     max   |-> c.max]

Empty(keys, n) == [map |-> [k \in keys |-> Absent], order |-> <<>>, max |-> n]

\* SetCacheSize and SetNodeCacheSize for n >= 0 (a negative size is ignored).
Resize(c, n) ==
    IF n = 0 THEN Empty(DOMAIN c.map, 0)
             ELSE [map |-> Trim(c, n).map, order |-> Trim(c, n).order, max |-> n]

Holds(c, k) == c.map[k] # Absent

\* A key that is not there goes in last, after making room for it.
Insert(c, k, v) ==
    LET t == Trim(c, c.max - 1) IN
    [map |-> [t.map EXCEPT ![k] = v], order |-> Append(t.order, k), max |-> c.max]

\* Mutant: an existing entry is queued again.
Store_Requeues(c, k, v) == IF c.max = 0 THEN c ELSE Insert(c, k, v)

\* cacheStore: an existing entry is overwritten where it stands.
Store(c, k, v) ==
    IF c.max = 0 THEN c
    ELSE IF Holds(c, k) THEN [map |-> [c.map EXCEPT ![k] = v], order |-> c.order, max |-> c.max]
    ELSE Insert(c, k, v)

\* nodeCachePut: the entry stored first stays.
Put(c, k, v) == IF c.max = 0 \/ Holds(c, k) THEN c ELSE Insert(c, k, v)

\* Map and order agree, no key is queued twice, and the bound holds: what
\* keeps eviction (cache.go:79-86, 235-242) from missing an entry for ever.
Sound(c) ==
    /\ \A i, j \in 1..Len(c.order) : c.order[i] = c.order[j] => i = j
    /\ \A k \in DOMAIN c.map : Holds(c, k) <=> \E i \in 1..Len(c.order) : c.order[i] = k
    /\ Len(c.order) <= c.max

\* A cache over the given keys and values.
Caches(keys, values) ==
    [map : [keys -> values \union {Absent}], order : Seq(keys), max : Nat]
==========================================================================
