---------------------------- MODULE CatalogLookup ----------------------------
(***************************************************************************)
(* Finding records and listing folders (catalog.go: OpenCNID, OpenPath,    *)
(* ReadDirCNID, WalkDirCNID).  A CNID is looked up in the record cache,    *)
(* then through its thread record and the children of the folder that      *)
(* names, then by a scan of the whole catalog; a path is followed from the *)
(* root, name by name; a listing goes through a folder's children.         *)
(*                                                                         *)
(* The records of one key parent come from a keyed search (BTreeSearch);   *)
(* one that degrades, half way maybe, is answered by a walk of the whole   *)
(* tree, which starts over.  Damage may make either lose records without an*)
(* error: the walk skips an index record whose key does not parse and a    *)
(* node of an unknown type, a search starts at a landing leaf though it is *)
(* empty.  A hard link stands for the record HardLinks resolves it to, or  *)
(* for an error; it is not found where damage hides the inode, or a read   *)
(* has failed.                                                             *)
(***************************************************************************)
EXTENDS Integers, Sequences, FiniteSets, SequencesExt, FiniteSetsExt

CONSTANTS Volumes,
          Calls,      \* what may be asked: [kind, cnid, path]
          Fold(_),    \* the case-folded form of a name
          Less(_, _), \* the order ReadDirCNID sorts folded names by
          CacheMax,   \* entries the record cache holds at most
          MaxFaults   \* bound on queries that fail

Root == 2
Types == {"folder", "file", "thread", "bad"}

(***************************************************************************)
(* A volume: recs, its catalog records in key order, those of them that a  *)
(* search for their parent comes by and those that the walk of the tree    *)
(* reaches, whether it is classic HFS, and whether names are compared with *)
(* regard to case.  A record: the parent in its key, its name, its type    *)
(* ("folder", "file", "thread", or "bad" when it does not decode), its cnid*)
(* (0 of a thread), up, the parent a thread says, whether a file's data    *)
(* fork is empty, and link, the CNID of the inode a stub resolves to, or 0.*)
(***************************************************************************)
IsCatalog(v) ==
    /\ v.recs \in Seq([parent : Nat, name : STRING, type : Types, cnid : Nat, up : Nat,
                       empty : BOOLEAN, link : Nat])
    /\ v.searched \subseteq DOMAIN v.recs /\ v.walked \subseteq DOMAIN v.recs

(***************************************************************************)
(* The code compares folded names with <.                                  *)
(***************************************************************************)
ASSUME CatalogAssumption ==
    /\ MaxFaults \in Nat
    /\ \A v \in Volumes : IsCatalog(v)
    /\ \A v \in Volumes : LET folded == {Fold(v.recs[i].name) : i \in DOMAIN v.recs} IN
          \A l, m, n \in folded : ~Less(m, m) /\ (Less(l, m) /\ Less(m, n) => Less(l, n))
    /\ \A c \in Calls : /\ c.kind \in {"open", "path", "list", "walk"}
                        /\ c.path \in Seq(STRING)

VARIABLES vol, cache,
          call,     \* the call under way, Idle between calls
          phase, at, dir, rec, todo,
          pos, entries, redone,   \* the listing under way, from record pos on
          last,     \* what the last call returned
          faults

place == <<at, dir, rec, todo>>
scan  == <<pos, entries, redone>>
vars  == <<vol, cache, call, phase, place, scan, last, faults>>

Recs     == DOMAIN vol.recs
Rec(i)   == vol.recs[i]
IsNode(i) == Rec(i).type \in {"folder", "file"}
Parent(i) == IF Rec(i).type = "thread" THEN Rec(i).up ELSE Rec(i).parent

\* catalogNameComparer.
Same(m, n) == IF vol.sensitive THEN m = n ELSE Fold(m) = Fold(n)

\* isPlaceholderRecord.
Placeholder(i) == ~vol.classic /\ Rec(i).type = "file" /\ Rec(i).empty

\* The first real record, else the first placeholder, else none.
Pick(s) == LET real == {i \in s : ~Placeholder(i)}
           IN  IF real # {} THEN Min(real) ELSE IF s # {} THEN Min(s) ELSE 0

\* Records with a CNID; a thread has none.
Having(c) == {i \in Recs : IsNode(i) /\ Rec(i).cnid = c}

\* hydrateCatalogRecord: the record the caller sees, under the name of the link.
Target(i)   == IF Rec(i).link = 0 THEN i ELSE Pick(Having(Rec(i).link))
Resolves(i) == Target(i) # 0
Resolved(i) == [name |-> Rec(i).name, cnid |-> Rec(Target(i)).cnid, type |-> Rec(Target(i)).type]

\* Records that every query comes by.
Plain == vol.searched \intersect vol.walked

\* The record is no link, or its inode is found, as long as no read fails.
Sure(i) == Rec(i).link = 0 \/ (Target(i) \in Plain /\ faults = 0)

\* Records that every query comes by and that resolve.
Certain == {i \in Plain : Sure(i)}

\* Which of the records s a query for one of them may end with, 0 for none: a
\* search's pick, or that of the walk it degraded to, unless this has placeholders
\* at most and the search had come by one.
Picks(s) ==
    LET found  == s \intersect vol.searched
        walked == s \intersect vol.walked
    IN  {Pick(found), Pick(walked)}
        \union {m \in {Min(f) : f \in {found} \ {{}}} : \A i \in walked : Placeholder(i)}

Idle    == [kind |-> "idle", cnid |-> 0, path |-> <<>>]
NoReply == [call |-> Idle, err |-> "none", raw |-> 0, entries |-> <<>>]

Init ==
    /\ vol \in Volumes /\ cache = <<>> /\ call = Idle /\ phase = "idle"
    /\ at = 0 /\ dir = 0 /\ rec = 0 /\ todo = <<>>
    /\ pos = 1 /\ entries = <<>> /\ redone = FALSE
    /\ last = NoReply /\ faults = 0

---------------------------------------------------------------------------
Reply(err, es) ==
    /\ last' = [call |-> call, err |-> err, raw |-> rec, entries |-> es]
    /\ call' = Idle /\ phase' = "idle" /\ at' = 0 /\ dir' = 0 /\ rec' = 0 /\ todo' = <<>>
    /\ pos' = 1 /\ entries' = <<>> /\ redone' = FALSE

Fail == Reply("failed", <<>>)
Fault == faults < MaxFaults /\ faults' = faults + 1

Goto(p) == phase' = p /\ UNCHANGED <<call, scan, last>>

\* A call begins with a CNID to look up: that of the root when it has a path.
\* For a path the header is read first, for the collation.
Begin(c) ==
    /\ call = Idle
    /\ call' = c /\ last' = NoReply /\ phase' = "lookup"
    /\ at' = (IF c.kind = "path" THEN Root ELSE c.cnid) /\ todo' = c.path
    /\ UNCHANGED <<vol, cache, dir, rec, scan, faults>>

NoCollation ==
    /\ phase = "lookup" /\ call.kind = "path" /\ Fault /\ Fail
    /\ UNCHANGED <<vol, cache>>

\* lookupCNIDRaw: the cache.
LookUp ==
    /\ phase = "lookup"
    /\ IF at \in DOMAIN cache THEN Goto("hydrate") /\ rec' = cache[at]
                              ELSE Goto("thread") /\ UNCHANGED rec
    /\ UNCHANGED <<vol, cache, at, dir, todo, faults>>

\* cacheStore.  Which entries give way is FifoCache's business.
Store(c, i) ==
    \E kept \in SUBSET (DOMAIN cache \ {c}) :
        /\ Cardinality(kept) < CacheMax
        /\ cache' = [x \in kept \union {c} |-> IF x = c THEN i ELSE cache[x]]

\* findThreadRecord: the first thread record of the run.
Threads(c) == {i \in Recs : Rec(i).parent = c /\ Rec(i).type = "thread"}

FindThread ==
    /\ phase = "thread"
    /\ \/ Fault /\ Goto("linear") /\ UNCHANGED dir
       \/ /\ UNCHANGED faults
          /\ \E seen \in {vol.searched, vol.walked} :
                LET threads == Threads(at) \intersect seen
                IN  IF threads = {} THEN Goto("linear") /\ UNCHANGED dir
                    ELSE Goto("children") /\ dir' = Rec(Min(threads)).up
    /\ UNCHANGED <<vol, cache, at, rec, todo>>

\* Mutant: what the thread leads to is final.
Missed_Final == Reply("notfound", <<>>) /\ UNCHANGED <<cache>>

\* lookupCNIDViaThread found nothing, or failed: the whole catalog is scanned.
Missed == Goto("linear") /\ UNCHANGED <<cache, place>>

Found(i) ==
    /\ Goto("hydrate") /\ Store(at, i) /\ rec' = i
    /\ UNCHANGED <<at, dir, todo>>

\* lookupCNIDViaThread: the folder the thread names.
FindAmongChildren ==
    /\ phase = "children"
    /\ \/ Fault /\ Missed
       \/ /\ UNCHANGED faults
          /\ \E i \in Picks({i \in Having(at) : Rec(i).parent = dir}) :
                IF i = 0 THEN Missed ELSE Found(i)
    /\ UNCHANGED vol

\* lookupCNIDLinear: the walk, over whatever it reaches.
ScanCatalog ==
    /\ phase = "linear"
    /\ \/ Fault /\ Fail /\ UNCHANGED cache
       \/ /\ UNCHANGED faults
          /\ LET i == Pick(Having(at) \intersect vol.walked)
             IN  IF i = 0 THEN Reply("notfound", <<>>) /\ UNCHANGED cache ELSE Found(i)
    /\ UNCHANGED vol

\* Mutant: a path goes on below the link.
Into_Stub(i) == Rec(i).cnid

\* Where a path or a listing goes on.
Into(i) == Resolved(i).cnid

\* lookupHardLinkInode finds nothing; a read that fails may be why.
NoInode(i) ==
    /\ (~Sure(i) /\ UNCHANGED faults) \/ (Rec(i).link # 0 /\ Fault)
    /\ Reply("notfound", <<>>)

\* The record at hand is hydrated and used.
Hydrate ==
    /\ phase = "hydrate" /\ UNCHANGED <<vol, cache>>
    /\ \/ Fault /\ Fail
       \/ NoInode(rec)
       \/ /\ UNCHANGED faults /\ Resolves(rec)
          /\ CASE call.kind = "open" -> Reply("ok", <<>>)
               [] call.kind = "path" ->
                    IF todo = <<>> THEN Reply("ok", <<>>)
                    ELSE Goto("child") /\ at' = Into(rec) /\ UNCHANGED <<dir, rec, todo>>
               [] OTHER ->
                    IF Resolved(rec).type # "folder" THEN Reply("notdir", <<>>)
                    ELSE Goto("list") /\ at' = Into(rec) /\ UNCHANGED <<dir, rec, todo>>

\* findChild.
FindChild ==
    /\ phase = "child" /\ UNCHANGED <<vol, cache>>
    /\ \/ Fault /\ Fail
       \/ /\ UNCHANGED faults
          /\ \E i \in Picks({i \in Recs : /\ Rec(i).parent = at /\ Parent(i) = at
                                          /\ Rec(i).type # "bad" /\ Same(Rec(i).name, Head(todo))}) :
                IF i = 0 THEN Reply("notfound", <<>>)
                ELSE Goto("hydrate") /\ rec' = i /\ todo' = Tail(todo) /\ UNCHANGED <<at, dir>>

Listed(i) == IsNode(i) /\ Rec(i).name # ""

\* What delivers the records: the search, or the walk it degraded to.
Source == IF redone THEN vol.walked ELSE vol.searched

\* The children of the folder that are still to come, in key order.
Left == {i \in Source : Rec(i).parent = at /\ i >= pos}

\* One child of WalkDirCNID.  A link without an inode ends the listing; the
\* callback of WalkDirCNID may end it too.
ListEntry ==
    /\ phase = "list" /\ Left # {} /\ UNCHANGED <<vol, cache>>
    /\ LET i == Min(Left)
           listed == Append(entries, Resolved(i))
       IN CASE ~Listed(i) ->
                 pos' = i + 1 /\ UNCHANGED <<call, phase, place, entries, redone, last, faults>>
            [] OTHER ->
                 \/ NoInode(i)
                 \/ /\ Resolves(i) /\ pos' = i + 1 /\ entries' = listed
                    /\ UNCHANGED <<call, phase, place, redone, last, faults>>
                 \/ Resolves(i) /\ call.kind = "walk" /\ Reply("ok", listed) /\ UNCHANGED faults

\* The search degrades; the walk it falls back to starts over.
ListAgain ==
    /\ phase = "list" /\ ~redone
    /\ pos' = 1 /\ redone' = TRUE /\ UNCHANGED <<call, phase, place, entries, last>>
    /\ UNCHANGED <<vol, cache, faults>>

\* The walk fails, or the reading of an inode does.
ListFails ==
    /\ phase = "list" /\ Fault /\ Fail
    /\ UNCHANGED <<vol, cache>>

\* Mutant: entries are sorted and not compared.
Distinct_All(es) == DOMAIN es

\* Entries that are the same in every field are reported once.
Distinct(es) == {i \in DOMAIN es : \A j \in 1..(i - 1) : es[j] # es[i]}

\* ReadDirCNID's order.
Ahead(e, f) == Less(Fold(e.name), Fold(f.name)) \/ (Fold(e.name) = Fold(f.name) /\ e.cnid < f.cnid)

\* One of ps that no other is ahead of.
Foremost(es, ps) == CHOOSE i \in ps : \A j \in ps : ~Ahead(es[j], es[i])

\* The entries at ps in that order; rest[n]: what n leave.
Sorted(es, ps) ==
    LET rest[n \in 0..Cardinality(ps)] ==
            IF n = 0 THEN ps ELSE rest[n - 1] \ {Foremost(es, rest[n - 1])}
    IN  [n \in 1..Cardinality(ps) |-> es[Foremost(es, rest[n - 1])]]

ListEnd ==
    /\ phase = "list" /\ Left = {} /\ UNCHANGED <<vol, cache, faults>>
    /\ Reply("ok", IF call.kind = "walk" THEN entries ELSE Sorted(entries, Distinct(entries)))

Next ==
    \/ \E c \in Calls : Begin(c)
    \/ NoCollation \/ LookUp \/ FindThread \/ FindAmongChildren \/ ScanCatalog
    \/ Hydrate \/ FindChild \/ ListEntry \/ ListAgain \/ ListFails \/ ListEnd

Spec == Init /\ [][Next]_vars

---------------------------------------------------------------------------
(* Properties *)

Asked(kind) == last.call.kind = kind

\* With a thread that is missing, stale or undecodable, with queries that degrade,
\* fail or come by some records only, and whatever is cached, a CNID gives a record
\* that has it or an error: ErrNotFound only if the walk of the tree reaches no
\* record with it, whatever the searches saw, or for a link without an inode, and
\* another error only if a query failed (catalog.go:284-355).
LookupRight ==
    /\ \A c \in DOMAIN cache : cache[c] \in Having(c)
    /\ Asked("open") =>
         LET c == last.call.cnid
         IN  /\ last.err = "ok" => last.raw \in Having(c)
             /\ last.err = "notfound" => \/ Having(c) \intersect vol.walked = {}
                                         \/ \E i \in Having(c) : ~Sure(i)
             /\ last.err = "failed" => faults > 0

\* The children of a folder among the records s that are named.
Children(d, s) == {i \in s : Rec(i).parent = d /\ Listed(i)}

\* Their entries.
Listing(d, s) == {Resolved(i) : i \in {i \in Children(d, s) : Resolves(i)}}

\* A listing that ends well has nothing but children of the folder, and every one
\* that the search comes by or every one that the walk reaches: a part of the one
\* never stands for the other, however late the search degraded.  Each is there
\* once, in order, even when it was delivered twice.  The folder is the one the
\* CNID resolves to, that of a directory link included (catalog.go:764-849).
ListingExact ==
    Asked("list") /\ last.err = "ok" =>
        /\ \E i \in Having(last.call.cnid), s \in {vol.searched, vol.walked} :
              /\ Resolves(i) /\ Range(last.entries) \subseteq Listing(Resolved(i).cnid, Recs)
              /\ \A k \in Children(Resolved(i).cnid, s) :
                    Resolves(k) /\ Resolved(k) \in Range(last.entries)
        /\ \A i, j \in DOMAIN last.entries : i < j =>
              last.entries[i] # last.entries[j] /\ ~Ahead(last.entries[j], last.entries[i])

\* Where a name leads from any of ds, by the listings of the records s.
Onward(ds, n, s) == {e.cnid : e \in {e \in UNION {Listing(d, s) : d \in ds} : Same(e.name, n)}}

\* Where following n names of a path through such listings may lead.
FollowTo(path, s) ==
    LET ds[n \in 0..Len(path)] ==
            IF n = 0 THEN {Rec(i).cnid : i \in Having(Root) \intersect s}
            ELSE Onward(ds[n - 1], path[n], s)
    IN  ds

Follow(path, s) == FollowTo(path, s)[Len(path)]

\* No two children of a folder have names the volume takes for the same, no thread
\* says that a folder is its own parent, and the root is no link.
NamesDistinct ==
    /\ \A i, j \in Recs : i # j /\ IsNode(i) /\ IsNode(j) /\ Rec(i).parent = Rec(j).parent
                             => ~Same(Rec(i).name, Rec(j).name)
    /\ \A i \in Recs : Rec(i).type = "thread" => Rec(i).up # Rec(i).parent
    /\ \A i \in Having(Root) : Rec(i).link = 0

\* No name of the path is taken for the empty one: splitPath drops the empty ones,
\* and keeps those of characters that folding ignores (unicode.go:410).
Spoken(path) == \A k \in DOMAIN path : ~Same("", path[k])

\* A path and the listings on the way agree: what OpenPath finds is listed, and
\* what every query lists OpenPath finds, whatever the threads say, through
\* directory links as well (catalog.go:653-727 against 808-849).
PathsFollowListings ==
    Asked("path") /\ NamesDistinct /\ Spoken(last.call.path) =>
        /\ last.err = "ok" => Resolved(last.raw).cnid \in Follow(last.call.path, Recs)
        /\ last.err = "notfound" => Follow(last.call.path, Certain) = {}
============================================================================
