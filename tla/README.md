# libhfs in TLA+

libhfs is a Go library that reads classic HFS, HFS+ and HFSX volumes, sound or
damaged, for forensic use. It never writes to a volume. What makes it hard is
not change on the disk but everything around it: callers share one `Volume`
from several goroutines, two caches and a lazily filled table sit between them
and the disk, deleted records are carved by a pool of goroutines, any read may
fail, and any structure read may be nonsense, in which case the library is meant to
fall back to a slower way and give the same answer, or say that it cannot. (It
does not always: section 5.)

This directory holds a model of that behaviour: TLA+ modules, configurations
with which TLC checks them on small instances, and proofs checked by TLAPS.
`PROJECT.json` lists the parts, the runs, the lines of the source each
definition stands for, the hazards, the theorems, and, for each property of a
passing run, a mutated definition (marked `Mutant:` in the modules) that makes
the run fail.

## 1. Inventory

### The parts of the system

| Part | Source | State it keeps | Operations | What makes it correct |
|---|---|---|---|---|
| Worker pool | `workers.go` | per call: index fed next, worker goroutines, `errOnce`/`firstErr`, derived context, result slice | `parallelMap`, `splitBlockRuns` | a nil error means every result; the first error is returned, the pool's own cancellation never; no two workers share an index; all goroutines joined; the call returns |
| Record and node caches | `cache.go` | map, insertion order and maximum of each, under `v.mu` | `cacheLookup`, `cacheStore`, `nodeCacheGet`, `nodeCachePut`, `SetCacheSize`, `SetNodeCacheSize` | map, order and bound agree; a caller cannot tell that there is a cache |
| Anomaly list | `cache.go` | bounded list and counter, under `v.mu` | `noteAnomaly`, `Anomalies`, `AnomalyCount` | what was noted is listed or at least counted, though list and count are read apart |
| Text encoding | `macroman.go`, `unicode.go` | `textEncoding` | `SetTextEncoding`, decoding | a name is decoded in the selected encoding |
| Keyed search and walks | `btree_search.go`, `btree_walk.go` | per query: node, visited set, position | `walkCatalogChildren`, `walkAttributesForFile`, `walkNode`, leaf-chain walk | where the leaf chain is sound a damaged index costs a scan and no record; no false anomaly on a sound tree or an empty one; a callback's stop is final; the query ends |
| Nodes of a tree | `btree.go`, `btree_walk.go`, `deleted.go` | none | `parseNodeRecordOffsets`, `extractNodeRecords`, `nodeSlackRegion` | what is listed and what is free space are told apart, whatever the offsets say |
| Hard links | `catalog.go`, `links.go` | `privDirs` under `v.mu` | `resolveHardLinkRecord`, `privateDirCNID`, `findPrivateDir`, `findInodeByName` | the right directory for the kind of link; by name, then by CNID |
| Catalog lookups, listings | `catalog.go` | the record cache | `OpenCNID`, `OpenPath`, `ReadDirCNID`, `WalkDirCNID` | a CNID gives a record that has it or an error; each child once; what damage hides from a search or a walk is missing, but the two are never mixed; paths and listings agree |
| Volume and geometry | `hfs.go`, `volume.go`, `config.go`, `limits.go`, `offsets.go` | the opened volume | `Open*`, wrapper detection, `BlockOffset` | block 0, the name and the bitmap are where they were written; a sound volume is not called corrupt |
| Fork extents | `extents.go` | the list under construction | `resolveForkExtents`, `trimExtentsToBlocks`, `compactExtents` | the blocks the fork was written to, in order; never more or fewer than `TotalBlocks` |
| Open files | `file.go`, `forkio.go` | extents, size, offset of the handle | `Read`, `ReadAt`, `ReadAll`, `Open*`, node reader | a handle is a file of bytes: `io.Reader`, `io.ReaderAt` |
| Byte ranges | `ranges.go` | none | `ExtentRanges`, `ByteRanges`, `XAttrRanges` | agree with what was written |
| Allocation bitmap | `alloc.go` | none | `BlockAllocated`, `WalkUnallocated`, `FreeBlockCount` | the maximal free runs, inside the volume |
| Recovery | `deleted.go` | live identities; identities seen with their confidence | `WalkDeletedContext` and its three scans | nothing live is reported; nothing dead missed in the leaves whose slack was looked at; the callback sees what one goroutine would find; cancelled means nothing carved; high confidence means intact |
| Paths | `paths.go` | memo of directory paths | `WalkPaths`, `PathForCNID` | no invented path; both ways agree; ends on cycles |
| Report | `report.go` | the listing under construction | `ReportContext` | the listing is that of the walk up to its bound, and says when it is cut |
| Extended attributes | `xattr.go`, `attributes.go` | table or pending attribute of a call | `ListXAttrs`, `GetXAttr`, `ReadXAttr`, `OpenXAttr`, `WalkXAttrs` | listing, reading and walking agree |
| decmpfs | `decmpfs.go`, `attributes.go` | two codec registries, each under a lock | hydration, codec lookup, inline payload, chunk table | the contents are those compressed, or an error; the right codec |

### How they interact

A caller's goroutine runs every operation itself; only carving starts others.
`OpenPath` and listings ask the keyed search for the children of a folder, the
search asks the node cache and then the disk; a record found goes into the
record cache and, if it is a link, through `privDirs` to its inode. Opening a
file looks for a decmpfs attribute, resolves its extents, again by a keyed
search, and gives a handle whose reads go to the device without further locks.
Recovery reads the catalog for live identities, scans the catalog's nodes, then
hands the free runs of the bitmap to the pool. A report is a path walk whose
callback lists files, and then the anomalies. The state shared by callers is
that behind `v.mu` (the two caches, `privDirs`, the encoding, the anomalies) and
the codec registries behind locks of their own. A lock is held for one probe or
one store at a time and never while the disk is read.

### Where it is hard

* between a probe that misses and the store that follows, other goroutines
  store, evict, resize the cache or switch it off;
* feeder, workers and a caller's cancellation meet over an unbuffered channel,
  a `sync.Once` and two contexts;
* a search that degrades has already delivered records when the walk it falls
  back to delivers them again;
* a read may fail once and succeed the next time, the outcome of the failed
  attempt may have been stored, and what was read once may fail the second time;
* damage may hide records from the search, from the walk it falls back to, or
  from both, and neither notices;
* links, child pointers and parents may form cycles;
* block counts and extent ends wrap at 2^32, offsets at 2^63;
* three origins (the image, the volume, block 0) are added up differently on
  each format;
* what a structure says of itself (free space, chunk tables, offsets, sizes) may
  contradict what contains it.

`hazards` in `PROJECT.json` has the places one by one.

## 2. The modules

An arrow means "is used by"; modules in a row belong together.

```
ParallelMapSpec            -> WorkerPool   -> WorkerPoolProofs
FifoCache, CachelessVolume -> VolumeCaches -> MCVolumeCaches, VolumeCachesProofs
BTreeSearch                -> MCBTreeSearch, BTreeSearchProofs
HardLinks                  -> MCHardLinks, CatalogProofs
CatalogLookup              -> MCCatalogLookup, CatalogProofs
ExtentLists                -> ForkExtents, FileRead
VolumeOpen, ByteFile       -> FileRead
FileRead, ForkExtents      -> OpenFork     -> MCOpenFork, OpenForkProofs
AllocBitmap, NodeRecords   -> Recovery     -> MCRecovery, RecoveryProofs
FifoCache, Anomalies       -> PathWalk     -> Report -> MCPathWalk, PathWalkProofs
XAttrs                     -> Decmpfs      -> MCXAttrs, DecmpfsProofs
```

Three of them are abstract specifications: `ParallelMapSpec`, what a caller of
`parallelMap` is promised; `CachelessVolume`, what readers of a volume are
promised, as if nothing were cached; and `ByteFile`, a file as an immutable
string of bytes with an offset, read by `Read`, `ReadAt` and `ReadAll` as
`io.Reader` and `io.ReaderAt` say. `WorkerPool`, `VolumeCaches` and `FileRead` are
shown to implement them (`RefinesSpec`, `Transparent`, `ReadsAFile`, each an
`INSTANCE` with a refinement mapping).

**WorkerPool** has one program counter for the calling goroutine (`main`) and
one for each worker (`pc`). A send on the unbuffered channel is one joint step
of feeder and worker (`Send`), since neither can proceed alone. `errOnce.Do` is
two steps, recording the error (`EnterOnce`) and calling `cancel` (`CancelRun`),
because another worker may get to its own `Do` in between; it then waits, as
`sync.Once` makes it. `CallerCancel` may happen at any time, and the derived
context follows it in a step of its own (`Propagate`). The sequential path, for
fewer than two workers or one task, is `SeqCheck` and `SeqRun`. The function
being mapped is that of `deleted.go`: it may fail, and it looks at the context.

**FifoCache** holds the operators of a cache: the map and the insertion order of
`cache.go`, `Store`, `Put`, `Resize`, with eviction from the front of the order,
and `Sound`, the agreement of map, order and bound. Setting a size of zero empties a
cache and switches it off. **VolumeCaches** runs readers over both caches, one
step for each time they take the lock, and interleaves them with callers that
resize a cache or change the encoding.

**BTreeSearch** is one query for the records of one parent. `Descend` is one
iteration of `findLeaf`; `ScanLeaf`, `ScanRecord` and `ScanNext` are `scanFrom`
with its landing check; `Unwrap` separates a callback's error from damage; `Fallback`,
`Walk`, `WalkRecord` and `WalkNext` are the exhaustive walk, along the leaf chain
(classic HFS and every attributes tree) or by recursion from the root (HFS+). The
recursion of `walkNode` is kept as the list `todo` of nodes still to enter.

**HardLinks** has one program counter for each caller; each step is one
critical section of `privateDirCNID` or one search of the catalog. It is kept
apart from `CatalogLookup`, where a link simply leads to the record it resolves
to, or to none.

**CatalogLookup** is the sequence of lookups behind `OpenCNID`, `OpenPath`,
`ReadDirCNID` and `WalkDirCNID`: record cache, thread record and siblings, scan
by a walk of the tree. A keyed query is one step here; in a listing it delivers
records one by one and may start over once, which is what `BTreeSearch` shows a
degraded search to do. It is not taken to be exhaustive: a volume says which of its records
a search for their parent comes by (`searched`) and which the walk reaches
(`walked`), any sets, because on a damaged tree either may pass over records
without an error (section 5). A query ends with what the search gives, with what
the walk gives, or, when the search has kept something before it degraded, with
that (`Picks`); a listing delivers the records of the search, and after starting over
those of the walk (`Source`, `ListAgain`); `lookupCNIDLinear` is the walk alone
(`ScanCatalog`). A header or a node that cannot be read ends the walk in an
error: that is `Fault`. A link is hydrated in one step: it gives its inode, an error,
or `ErrNotFound` when its inode is hidden or a read fails on the way (`NoInode`).

**VolumeOpen** is `openAt`: the header at the caller's offset (`ReadStart`), the
wrapper followed (`FollowWrapper`), a classic volume or an HFS+ header accepted
or refused (`OpenClassic`, `OpenPlus`), every read able to fail. An image is its
size and the headers it holds by position, and, for the properties alone, what it
was made as. **ExtentLists** is what a list of extents comes to: its blocks, their
number, the list without empty extents, the list cut to a number of blocks.
**ForkExtents** builds the extent list, one overflow record a round,
with block counts modulo `Width`. **FileRead** reads an open file: a call is
`Start`, one `ReadExtent` or `SkipExtent` for each extent, and `EndRead`; the device
may fail at each extent. A handle is a fork, decompressed contents, or a B-tree
file read node by node. Its `Ranges` is `ExtentRanges`. **OpenFork** composes
them as `OpenWithConfig` and `openFileFromRecord` do, for live, compressed and
recovered files and for the special files. A byte is identified by its place in
the image, so that returning the wrong byte is visible.

**AllocBitmap** has the walk over the bitmap, byte by byte and bit by bit, and the
splitting of free runs into batches. **NodeRecords** has a node's offset array and what
follows from it: which bytes are records, which are free space. **Recovery** is the whole
of `WalkDeletedContext`: the walk of the leaf chain that collects live identities
(`LiveNode`), the slack of the leaves (`SlackNode`, `SlackBytes`), which reads them a
second time and ends, without an error, at one that now cannot be read (`unread`), the
nodes the tree's map has as unused (`FreeNode`, `FreeRecords`) and the free blocks. The
tasks of the pool advance in any order (`CarveBlock`), all of them before any of their
findings is emitted (`Join`), as `WorkerPool` shows of `parallelMap`. Any node may fail to
be read whenever it is read, and a record's bits in the bitmap may not be told.

**PathWalk** is the sweep of `WalkPaths` with its bounded memo, one step for each
link of a climb; `PathForCNID` is a recursive function beside it. **Anomalies** has
the list and `noteAnomaly`. **Report** gives the walk the callback of
`fileSummaries`, then reads list and count of the anomalies in two steps, while
the context may be cancelled and other goroutines note anomalies of their own.
With a plain callback (`Plain`) its steps are those of `PathWalk`.

**XAttrs** is listing, reading, opening and walking over the records of the attributes
tree; a query is a position in the tree and the records of its file that lie ahead
(`Given`, `Ahead`, `Here`), and starting over is going back to the first. The two guards
on the attributes file are kept apart, as are their consequences: without blocks there is
no query (`present`), and without a first extent one fails for want of a header (`based`;
`readDecmpfsAttr` looks at nothing else, `HasTree`). The mutual calls of `ReadXAttr` and
`OpenXAttr` are counted in `depth`. A value may be refused by the allocation limit.
**Decmpfs** opens a file on top of it: the attribute is read once to complete the record
(`Hydrate`) and once to decode (`Find`); `Look` asks the two registries in two steps, with
`Register` between them; the payload is inline (`DecodeInline`) or in the resource fork
behind a chunk table (`ReadFork`, `DecodeChunk`, `DecodeEnd`).

## 3. The runs

Every run checks every interleaving and every choice of input inside its
bounds. `CHECK_DEADLOCK FALSE` stands only where the modelled call returns and
nothing follows: `WorkerPool`, `BTreeSearch`, `OpenFork` and `OpenForkLink` (whose
opening may end in an error), `Recovery` and `PathWalk`.

| Run | Distinct states | Bounds |
|---|---|---|
| `WorkerPool` | 41,595 | up to 3 tasks, 0 to 3 workers, any set of failing indices, a cancellation at any time |
| `VolumeCaches` | 582,564 | 2 readers, 2 records in 1 leaf, an extents node of the same number, sizes 0 to 2, 2 encodings, classic volume |
| `BTreeSearch` | 460,433 | 3 leaves of 2 records, index of 1 and of 2 levels, one damaged place anywhere, two in the index of chained trees (one on each level of a deep one), 1 read fault |
| `HardLinks` | 84,293 | 2 callers, 3 stubs, with and without either store, 2 read faults |
| `OpenFork` | 674,417 | every sound fork of up to 5 blocks of 2 bytes, 2 extents to a record, damaged forks and forks that reach beyond the volume, on a wrapped volume in a partition; volumes of each format, sound, truncated, damaged in one header, opened at a wrong offset, at the end of the address range; 3-bit block counts; buffers up to 3, offsets up to 7 |
| `Recovery` | 1,093,972 | 3 nodes of 20 bytes (a leaf with slack, a node with any offsets, a former leaf), volumes of 4 and 5 blocks, batches of 2, all bitmaps of 6 bits, 4-bit block numbers, the four scan options; any reading of a node failing, records that are no entries, not plausible or of blocks whose bits are not told |
| `PathWalk` | 1,241,051 | 3 folders and a file under any parents, one damaged thread, memo of 1, 2 and 8 entries, 1 read fault; reports of them with a bound of none, 1, 2 and 3 files, an anomaly list of 2, 1 anomaly of another goroutine's, a cancellation |
| `CatalogLookup` | 251,452 | 12 records, each damaged in turn, a leaf of them hidden from the search, from the walk or from both, three kinds of volume, cache of 1 entry, 2 faults |
| `XAttrs` | 2,256,832 | trees of 2 and 5 records, with and without an attributes file and a first extent of it, 2 files, 3 names, all record types; compressed files of up to 5 bytes in chunks of 2, inline and in the fork, each place of the chunk table damaged, 2 codecs in any registry, 2 registrations; 2 faults, 3 nested calls |
| `HardLinksHealthy`, `OpenForkLink`, `XAttrsEnd` | up to the counterexample | as above; 1 fault in `HardLinksHealthy` |

What they show:

* **WorkerPool**: `NoPartialSuccess` (a nil error means all results, also when the
  cancellation comes after the last index was sent), `OneOwner`, `Joined`,
  `RefinesSpec` (all results, or the error of an index that fails, or the caller's
  cancellation) and `Returns` under fairness. Three workers are the least with which
  one worker is inside `errOnce.Do`, one waits for it and one is still running;
  three tasks the least with which each of them holds one.
* **VolumeCaches**: `CachesSound` and `Transparent`. Two readers meet in every step
  of a probe, a read and a store; two records and sizes 0 to 2 make a cache that
  is off, one that evicts and one that holds all. The extents node shares its number
  with the leaf, which is the case the pair of tree and number in the key is for.
* **BTreeSearch**: `AnswerRight` says that on a volume with a sound leaf chain, *whatever
  the index says*, the wanted records are delivered in order, once, and all of them if the
  query ends well, when the search was trusted or its fallback followed the chain.
  `NoFalseAlarm` (of sound trees, and of ones without a root or without records),
  `StopIsFinal`, `Terminates`. A parent's records straddle two leaves,
  start inside a leaf and at its first record, so that landing too late is possible.
* **HardLinks**: `FoundIsRight`, `AnswersRight`, with the types (`LinkTypeOK`).
* **OpenFork**: `VolumePlaced` (block 0, the name and the bitmap come out where the
  image was made with them, on every format and in every wrapper), `OpenErrorsTell`
  (a sound volume is never called corrupt, a caller's wrong offset is blamed on the
  offset), `SoundForkExact`, `CoversTotal`, `WrittenBytesReported` (from the image to
  the ranges, every byte that was written and no other), `ReadsAFile` (the handle is
  a file over the bytes the ranges report). The two last together say that a caller
  reads what was written. Five blocks in records of two extents need up to two overflow
  records; counts of up to 6 wrap modulo 8 after two extents.
* **Recovery**: `OnlyTheDead` (nothing live is reported as deleted, and what came from
  free space lies clear of every record), `NothingMissed` (every dead record of an
  undamaged leaf is reported, with its grade or better: of every leaf of the chain, or of
  those before the one at which the slack scan ended), `SameAsSequential`,
  `CancelIsClean`, `HighIsIntact`, `CarvesExactlyFree`. Two identities with different
  grades are enough for the deduplication to matter; a run of four blocks is two
  batches; the second node's offsets point outside it, inside its descriptor, over its
  offset array and out of order.
* **PathWalk**: `NothingInvented`, `AgreesWithPathForCNID`, `ClimbBounded`,
  `ChildrenFollowUnevicted`; of reports, `ListsTheSweep` (the listing is the sweep up to
  the bound, and `FilesTruncated` says exactly whether there was more) and
  `OrphansAnnounced` (every record without a path is counted, and one is listed unless
  the list was full). A memo of one entry is always evicting, one of two evicts what a
  climb of three has just put, one of eight never evicts. Bounds of one and two cut
  the listing, the default of three may or may not.
* **CatalogLookup**: `LookupRight` (a CNID gives a record that has it; `ErrNotFound` only
  if the walk reaches no such record, whatever the thread and the searches said, or a link
  has no inode; other errors only if a read failed), `ListingExact` (nothing but children
  of the folder the CNID resolves to, each once, in order, and all that the search comes
  by or all that the walk reaches: a search that degrades half way leaves no gap of its
  own) and `PathsFollowListings` (what `OpenPath` finds is listed; what every query lists
  it finds), for catalogs in which no two children have the same name and the root is no
  link, and for paths without a name that is taken for the empty one. On an undamaged
  volume search and walk come by every record, and the three say that nothing is missed.
  Each of the twelve records is damaged in turn, and each leaf hidden from the search,
  from the walk or from both; two faults let a query fail and another start over in one
  call.
* **XAttrs**: `AttributesExact`, `ValueIsListed`; of compressed files, `ContentsExact`
  (a sound file opens as what was compressed, whatever fails, and what a chunk table or a
  built-in codec gives is never shorter nor longer than declared) and `CodecRight` (a codec
  registered all along is found, the volume's first). The tree of five has a
  fork-backed attribute in three parts, so that a query can start over in the middle
  of it; five bytes in chunks of two leave a short last chunk.

### Fairness

Only two runs check liveness. `WorkerPool` assumes weak fairness of the calling
goroutine, of the derived context's propagation and of each worker: Go's scheduler
runs every goroutine that can run, `context` propagates a cancellation
unconditionally, and a device read returns. Cancellation itself is not assumed.
`BTreeSearch` has a single goroutine and assumes only that it goes on. Nothing is
strongly fair.

## 4. What is proved

The theorems hold for every value of the constants that satisfies the named
assumptions, which only say that bounds are natural numbers, that tables have
the right domains and that the marker values differ from real ones.

* **WorkerPoolProofs**, for any number of tasks and workers: `TypeCorrect`,
  `SuccessIsComplete`, `CancellationIsCallers`, `SlotsAreOwned`, `AllJoined`, and
  `Refinement`, that `Spec` implements `ParallelMapSpec`. None of these is
  inductive by itself. The inductive invariant adds how the parts of the state
  depend on each other: while no error is recorded, every index below `next` is
  written or held by a worker (`TaskInv`); a derived context that is cancelled while
  the call runs means a recorded error or a cancelled caller, and a feed cut short
  means a cancelled derived context (`OnceInv`, `PhaseInv`); `once` is past "unused"
  exactly when an error is recorded, and at most one worker is inside it.
  "Success is complete" needs all of them: at the join no error is recorded and
  the caller has not cancelled, so the feed was not cut short, so every index was
  sent, and none is held any more.
* **VolumeCachesProofs**, for any readers, records and nodes. Of one cache, `StoreSound`,
  `PutSound` and `ResizeSound`: each keeps `Sound`, that the order lists the keys of
  the map, each once, within the bound. The argument is about sequences without
  repetition: appending a new key and dropping a prefix both keep that, and dropping
  a prefix removes exactly those keys. Of the volume, `TypeCorrect`,
  `AlwaysSound`, `AlwaysCoherent` (a cached value is what the disk holds under
  that key) and `CachesAreTransparent`, the refinement of `CachelessVolume`. The
  inductive invariant joins the types, both caches' soundness, coherence, and
  what each reader's buffer holds at each step (`ReaderInv`): a hit is answered
  from the cache, so it needs coherence, and coherence is kept only because the
  buffer that is stored is the node that was asked for.
* **CatalogProofs**. Of hard links, for any volume and callers: `TypeCorrect`,
  `DirectoriesAreRight`, `ResolutionIsRight`. The last needs, besides the first two, that
  while no read has failed an `Absent` entry is true (`AbsentIsRight`), and what a caller
  that has got past the directory knows (`Following`). Of lookups, for any catalog, calls,
  cache size and number of faults: `LookupsAreRight`, `ListingsAreExact`,
  `PathsAgreeWithListings`. Nothing is assumed of what search and walk come by: `searched`
  and `walked` are any sets of records, so the theorems hold of any damage that hides
  records. `CatInv` says what a call holds where it is (`Underway`): a cached record has
  the CNID it is cached under (`CacheRight`); a listing has entries of the folder only,
  and every child before `pos` that its present source delivers, of which there is none
  yet when it starts over (`OnList`); listings may lead from the root to the folder a path
  has come to, and those of the records that every query comes by lead to no other
  (`OnPath`, `May` and `Must`), because a name stands for one child at most
  (`NamedIsOne`), which is listed (`ListedIsNamed`), and which a query cannot miss if both
  search and walk come by it (`PicksIn`, `CertainIn`). `Must` is indexed by the number of
  faults, because a read that fails may keep a link from its inode. That entries can be
  sorted at all, some one of them having no other ahead of it, is proved by the size of
  the set (`ForemostExists`), and that the sort keeps every entry and their order is
  `SortedRight`.
* **BTreeSearchProofs**, for any tree and parent: `StoppedIsStopped`, `AnswersAreRight`,
  the safety property of the search, and `SoundTreesAreQuiet`. `AnswerInv` says where a
  query stands in each phase (`Standing`): before record `p` of leaf `i`, exactly the
  wanted records ahead of it have been handed out (`Got(i, p)`), no leaf behind has been
  left out (`Behind`), and a scan that has started is past a key that is not below the
  parent (`StartedAt`). That a scan may begin in the leaf the index led to is the landing
  check (`LandingStep`): a first key not above the target means that nothing wanted lies
  in an earlier leaf. The rest is that the chain's keys are ordered from leaf to leaf, so
  no wanted record follows the first key above the parent. `SoundTreesAreQuiet`
  (`QuietInv`) is that a descent never returns: every node but the root has one parent, so
  a node that was passed cannot be a child of the one at hand, and the search cannot take
  it for a cycle. The attempt to prove it showed what an index has to be (`IndexSound`):
  without the clause that every node lies below the root, index nodes that point to one
  another could hold the first leaf while the root has another. In a tree without a root
  or without records the first step is the last (`Idle`).
* **PathWalkProofs**, of every walk and report, for any bound of the memo and any callback:
  `NothingIsInvented`, `WaysAgree`, `ContentsFollow`, `ListingsAreExact`, `ClimbsEnd` and
  `OrphansAreAnnounced`. `WalkInv` has the types, and `Climbing`: each node that a climb has
  passed is one the volume says lies where the climb went. From it `PathsSupported`:
  the memo, what is about to be put into it, the path and what was emitted all spell
  chains of links of the volume, so an evicted entry can only cost time. `AgreeInv`: on a
  volume whose threads and records tell the same, and while no read failed, each of these
  paths is `PathUp`, that of `PathForCNID`; that function goes up at most as many
  links as there are nodes, which is enough because the nodes of a climb are distinct
  (`ByThreadsClimbs`). `FollowInv`: a memo as large as the number of nodes never
  evicts, so a folder that was given a path still has it when its contents come.
  `ListInv` is about reports: the listing is what the sweep so far shows of files
  (`SweptTo`), up to the bound, and it is cut exactly if there was one more. `ClimbInv` has
  that the nodes passed are distinct, `AnomalyInv` that the anomalies account for the
  orphans so far, and still do when the count is read after the list: other goroutines
  only add to either.
* **OpenForkProofs**, for any image, volume format, fork, width of counts, limit of offsets,
  and any reads that fail: `ForkTypes`, `VolumesArePlaced`, `ErrorsTell`, `ListsCoverTheFork`,
  `SoundForksAreExact`, `WhatWasWrittenIsReported`, and `ForksReadAsFiles`, that `Spec`
  implements `ByteFile`. The invariant is `Inv == Chosen /\ OpenInv /\ ResolveInv /\
  Tracks /\ ReadInv /\ FileTracks`. `Chosen`: image, configuration and fork are those of
  one of the volumes. `OpenInv`: what each stage of the opening has found out, from the
  wrapper to the geometry. `ResolveInv`: the shape of the list in each phase, and that
  it never has more than the fork's blocks, and all of them when it is complete. `Tracks`:
  a sound fork's list is the beginning of what the fork was laid out in, and the record
  that is looked for next is the one that continues it; cutting and compacting at the
  end lose nothing (`ExtentLists`). `ReadInv`: what a read has copied is the part of the
  file between its offset and where it stands, and the extents behind it hold exactly that.
  `FileTracks` ties the open file to the fork it came from. So the bytes a caller reads
  are those written, with the image between them.
* **RecoveryProofs**, for any volume: `OnlyTheDeadIsReported`, `NothingIsMissed`,
  `CancellationIsClean`, `HighConfidenceIsIntact`, `TasksAreTheFreeBlocks` and
  `ParallelIsSequential`. `RecInv` has what the first pass has collected while it follows
  the chain (`ChainInv`: the identities of the nodes visited, which lead to visited ones
  or to the node at hand), hence, once it is over, that the live identities are those of
  the chain (`LiveIsExact`; the chain is the least set closed under forward links, and the
  nodes visited are closed too), where each later scan may be, and what has been emitted.
  `SlackIsClear`: no record's span reaches beyond the start of free space.
  `HighGradeIsSound`: the loop over extents and blocks gets to its end only if every block
  is free, since the least one that is not would have stopped it. `Grades` carries this
  from the record to what is emitted: what a task has found so far is a sequence of
  soundly graded records, and stays one when batches are joined (`FlattenedSound`).
  `NothingIsMissed` needs that the scan of a node's slack, in steps of two bytes, comes
  upon every dead record of an undamaged leaf (`DeadIsCarved`), and that whatever it has
  passed, and whatever was in a leaf behind it, has been emitted with its grade or a
  better one (`SlackInv`, `SeenInv`). When a leaf cannot be read again the leaves behind
  the scan, being closed under links that do not lead there, are all of `ChainTo(unread)`.
  `TasksAreTheFreeBlocks` goes bit by bit through the bitmap: at each bit the finished
  runs and the one under way are the free blocks behind it, with a gap between any two
  runs (`WalkAt`), also where the shortcut for a full byte leaves the bits unread
  (`ByteStep`); cut into batches they still lie in order and cover the same blocks
  (`Tiled`), and to cover a set in ascending order is to be its enumeration
  (`LaidEnumerates`). `ParallelIsSequential` rests on it. However the tasks interleave,
  each has found what its own blocks hold up to where it is (`FoundInv`), so once all have
  finished their findings, put together in task order, are what is found block by block
  (`CarvedIsFound`). While they are emitted, the records of blocks emitted so far are the
  best of those dealt with (`Dealt`): "the identity was not yet seen with as good a grade"
  is the same as "it beats everything emitted" (`KnownIs`), which is the same as "it beats
  the tree and every earlier one that passes the options" (`WantedIsChosen`), and the
  latter depends on no interleaving. Assumed of a volume: the fields of an extent and the
  block count fit their width.
* **DecmpfsProofs**, for any tree, volume, codecs and chunk size: `CodecIsRight`, with
  `CodecInv`, that a registry entry kept since the open began is still there, and that the
  process is asked only when the volume had none to keep. `AttributesAreExact` and
  `ValuesAreListed`, with `CallInv`: a listing has of every attribute behind its position
  as much as the records behind it hold (`ListInv`), also after the query started over,
  since a head that comes again replaces what there was; a walk has given all the
  attributes behind it but the one it holds back (`WalkInv`); what is read was not among
  the records passed (`ReadInv`); and `ReadXAttr` and `OpenXAttr` are nested at most once,
  because each asks the other only for what the other finds (`DepthInv`). The proof needed
  the tree's records of one attribute to lie together (`WellKeyed`): an extension behind
  the head of another attribute is dropped by `WalkXAttrs` and listed by `ListXAttrs`.
  `ContentsAreExact`, with `ContentsInv`: what was found is the first decmpfs record of
  the file, both times it is asked for (`OpeningInv`), and of a sound file the chunks
  decoded so far are its contents up to that chunk's end (`ChunksInv`).

Assumed of the constants, and evaluated by TLC in every run: that volumes, images, trees
and nodes are of the shapes their modules describe (`VolumeOpenAssumption`,
`OpenForkAssumption`, `ForkExtentsAssumption`, `FileReadAssumption`,
`ExtentListsAssumption`, `BTreeAssumption`, `CatalogAssumption`, `NodeAssumption`,
`RecoveryAssumption`, `PathWalkAssumption`, `ReportAssumption`, `XAttrsAssumption`,
`DecmpfsAssumption`), that a block, a chunk and the like are at least one, and that a file
flagged sound was written as `Written` says (`SoundAssumption`). None says anything of a
damaged structure beyond its types; `CatalogAssumption` adds that `<` orders the folded
names of a volume.

The provers cannot instantiate an induction theorem, so what a recursive definition
computes is proved by least elements (`Least`): of the arguments at which a claim fails
there is a least, and one unfolding of the definition contradicts it. That the recursive
functions exist and unfold is itself proved so (`RecursionExists`, `RecursionUnique`). No
module declares a `RECURSIVE` operator; recursion is written as a recursive function or
with the folds of the community modules.

`theorems` in `PROJECT.json` names the property of a run that a theorem states. A run
shows it on a small instance, and shows that the case it is about happens.

Model-checked only:

* liveness, `Returns` and `Terminates`: fairness and `ENABLED` are beyond these provers;
* the runs that end in a counterexample.

## 5. Findings

Three statements of the documentation are refuted by a run:

* `HardLinksHealthy`: README.md:489-490 says "Since the volume is read-only, cached data
  cannot go stale." `findPrivateDir` reports a failed search as "not there", and
  `privateDirCNID` (catalog.go:575) keeps that for the life of the volume: after
  one transient read error every later open of a link skips the lookup by name
  and goes by CNID, on a volume that reads well.
* `OpenForkLink`: ranges.go:154-156 says a fork is resolved through the link to its
  inode. The record is, but the overflow extents are looked up by the CNID that
  was passed in (extents.go:117), so a fragmented fork ends in `ErrMissingExtent`.
* `XAttrsEnd`: xattr.go:252-253 says inline attributes are served from memory. An
  inline record with a start block other than 0 is listed as inline but not found by
  `ReadXAttr`, which calls `OpenXAttr`, which calls `ReadXAttr`, without end.

Met while modelling; the models do as the code does, and the properties are
stated so that they hold:

* `SetTextEncoding` leaves cached names in the old encoding (macroman.go:47); cache.go:186-188
  reasons that entries cannot go stale. `Transparent` leaves the encoding of a
  name open.
* The fallback of the HFS+ catalog recurses through the index it is meant to do
  without (btree_walk.go:105), so it is not exhaustive as README.md:513-515
  and btree_search.go:9-15 say; and it delivers again what the search had delivered
  (btree_search.go:502), which `ReadDirCNID` removes and `WalkDirCNID` does not.
* An empty leaf passes the landing check (btree_search.go:233), so that a scan may
  begin after records it should have delivered; README.md:494-497 excludes that.
* Both have consequences for callers. The walk skips an index record whose key does not
  parse (btree_walk.go:106-114) and returns from a node of an unknown type with no error
  (btree_walk.go:134-135), so on HFS+ `OpenCNID` may say `ErrNotFound` of a record that is
  on the disk, and a listing may end well with children missing. `LookupRight` and
  `ListingExact` claim completeness of what the walk reaches and of what the search comes
  by, no more.
* A leaf that cannot be read a second time ends the scan of node slack with no error
  (deleted.go:362-364: "a node we cannot read simply yields nothing"), and with it the slack of
  every leaf behind it: one transient fault, and a recovery that ends well has missed dead
  records of sound nodes, against deleted.go:140-142. A failure in the scan of free nodes skips
  that node alone (deleted.go:416-418). `NothingMissed` speaks of the leaves before the
  one where the scan ended.
* A link whose number is its own CNID is returned as it is (catalog.go:432);
  catalog.go:474 speaks of falling back to the inode.
* `ReadAll` returns the bytes it has without an error when the extents end early
  (file.go:160; file.go:139 promises the contents).
* `Config()` of a volume without an allocation limit, or with its caches off, returns
  zeros (config.go:232-239), which `OpenWithConfig` takes for unset and replaces by the
  defaults (config.go:173-184).
* An identity is emitted again when it turns up with a better grade
  (deleted.go:241 against 184-185).
* The end of an extent wraps in 32 bits, and such an extent is graded free without
  a look at a block (deleted.go:630 against 57-60). `HighIsIntact` leaves these out.
* After an extent outside the volume no later one is looked at, so an overwritten
  fork may not be called so (deleted.go:631 against 105-106).
* The byte offset of a record carved from a free block is that of its node
  (deleted.go:546); deleted.go:88-95 speaks of the record's bytes.
* Of the tree's map only the header's record is consulted (deleted.go:449, 408-410): nodes
  that a map node describes are never looked at as free.
* A catalog node larger than a block is never carved (deleted.go:539).
* A file that has no thread and is named as the parent of another record gets no path from
  `PathForCNID`, while the sweep gives it one (paths.go:120-135);
  `Consistent` has that a parent which is there is a folder.
* An extension record behind the head of another attribute is added to its own attribute
  by `ListXAttrs` and dropped by `WalkXAttrs` (xattr.go:134-150 against 336-338);
  `WellKeyed` leaves it out.
* With a damaged thread, evicting a memo entry changes a path (paths.go:70 against 33-34).
* A link that cannot be resolved ends a listing (catalog.go:836-839).
* `findChild` may return a thread record when a thread names its own folder as the
  parent (catalog.go:697-712). `PathsFollowListings` leaves such volumes out.
* `splitPath` keeps a component of characters that folding ignores (catalog.go:882), and
  `findChild` takes it for a file without a name, which no listing shows (catalog.go:700 against
  833-835). `PathsFollowListings` leaves such paths out (`Spoken`).
* A placeholder is weighed only against records of the thread's folder
  (catalog.go:335 against 357-358).
* `splitBlockRuns` adds in 32 bits, which wraps for a free run that ends within a batch
  of 2^32 (workers.go:133). `AllocBitmap` leaves the wrap out, so its batches stand
  for runs that end before that.
* Of compressed files: a registered codec that returns fewer bytes than the inline
  payload declares is believed (decmpfs.go:228), where a built-in one is not; an empty file
  compressed into the fork is called corrupt (decmpfs.go:319); a stream that is too
  long is cut without a word (decmpfs.go:176, 190); a read that fails while
  the record is completed gives a record of size 0 with the full contents
  (attributes.go:229); a file with both a data fork and the attribute opens
  decompressed while its record says it is not compressed (attributes.go:225); and a
  codec that is moved from one registry to the other during a lookup may be in neither when
  asked (decmpfs.go:131-137). `ContentsExact` and `CodecRight` leave these open.

## 6. Not modelled, and why

* **Byte layout** of headers, keys, records and names: the models take records that
  parse and ones that do not. Only the offsets of a node and the free space they leave are
  modelled (`NodeRecords`), because damaged ones decide what is live.
* **Text**: the conversion and folding tables are data; decoding a name has no state but
  the encoding, which `VolumeCaches` has.
* **Damage that hides records of the attributes tree**: its leaf chain is taken to be
  sound, and a query of a file's attributes delivers them all or fails. `AttributesExact`,
  `ValueIsListed` and `ContentsExact` say nothing of a chain that is broken, and only
  `BTreeSearch` has one.
* **What a link resolves to when a read fails or damage hides its inode**: `CatalogLookup`
  then lets it fail or be without an inode; that it may come by another record with the
  number is `HardLinks`' business (`AnswersRight`, `HealthyOpenRight`).
* **What a codec or zlib computes**: a stream is of a form that a codec reads, or not.
* **The depth guard of `findLeaf`**: the visited set ends every descent on its own;
  the guard would only matter on a header that under-reports its tree's depth.
* **The query for a fork's extents**: it passes over the other fork's records, which
  `BTreeSearch` does not do; `ForkExtents` takes its outcome.
* **The sort of `RecoverDeleted`**, **the ranges of attributes and of the volume's own
  structures** (`offsets.go`): pure functions of what is modelled.
* **Summaries of a report, capabilities, identifiers, examples**: copies of fields,
  accessors and sequences of calls, without state.

## 7. Plan

Done in this order: the pool, the caches, the keyed search, links, lookups, forks,
recovery, paths, attributes; then opening and geometry, node layouts, the pass over live
records, anomalies and reports, compression. What is left, in this order:

1. The extents query and the depth guard in `BTreeSearch`; `CatalogLookup` composed with
   it through an abstract query that both are shown to meet.
2. `CatalogLookup` with `HardLinks` in place of its one-step links.
3. `Recovery` as a client of `ParallelMapSpec`; `RecoverDeleted` and its sort.
4. Ranges of attributes beside `ReadXAttr`; `Structures` of `offsets.go` against the geometry
   of `VolumeOpen`.
