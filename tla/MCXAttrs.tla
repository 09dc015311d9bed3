------------------------------ MODULE MCXAttrs ------------------------------
(* Trees of up to three records over two files and three names, well keyed  *)
(* and not, and one longer tree with a fork-backed attribute in three parts;*)
(* and volumes of one compressed file, of every form, sound and damaged, by *)
(* what codecs are registered.                                              *)
EXTENDS Decmpfs

AttrKey(f, name, start) == [file |-> f, name |-> name, start |-> start]
AttrRecord(k, type, short, declared, exts) ==
    [file |-> k.file, name |-> k.name, start |-> k.start, type |-> type, short |-> short,
     declared |-> declared, held |-> 2, size |-> 9, exts |-> exts, cmp |-> NoHeader]

InlineRecord(k, declared)  == AttrRecord(k, "inline", FALSE, declared, <<>>)
ForkRecord(k, exts)        == AttrRecord(k, "fork", FALSE, 0, exts)
Extension(k, short, exts)  == AttrRecord(k, "extension", short, 0, exts)

Keys == <<AttrKey(1, "a", 0), AttrKey(1, "a", 2), AttrKey(1, "cmp", 0),
          AttrKey(2, "a", 0), AttrKey(2, "a", 1)>>
Place(k) == <<10 * k.file + k.start>>

Kinds(k) == {InlineRecord(k, d) : d \in {1, 3}} \union {ForkRecord(k, e) : e \in {Place(k), <<>>}}
            \union {Extension(k, FALSE, Place(k))}
            \union {AttrRecord(k, t, TRUE, 0, <<>>) : t \in {"inline", "fork", "extension"}}
            \union {AttrRecord(k, "other", FALSE, 0, <<>>)}

At(i) == Kinds(Keys[i])
Pairs == {<<x, y>> : x \in At(1), y \in At(2)} \union {<<x, y>> : x \in At(1), y \in At(3)}
         \union {<<x, y>> : x \in At(2), y \in At(4)}
Long  == {<<ForkRecord(Keys[1], <<1>>), Extension(Keys[2], FALSE, <<2>>), Extension(Keys[2], s, <<3>>),
            x, y>> :
               s \in BOOLEAN, x \in At(3), y \in {InlineRecord(Keys[4], 1), ForkRecord(Keys[4], <<20>>)}}

NoCodecs == [s \in Scopes |-> NoCodec]
Tree(recs) == [present |-> TRUE, based |-> TRUE, recs |-> recs, files |-> <<>>, codecs |-> NoCodecs]
Trees == {Tree(r) : r \in Pairs \union Long}

---------------------------------------------------------------------------
Stream(form, bytes) == [form |-> form, bytes |-> bytes]
Bytes(n) == [i \in 1..n |-> i]

\* The chunks of a file; of zlib, every second one is stored.
ChunkForm(form, i) == IF form = "zlib" /\ i % 2 = 0 THEN "stored" ELSE form
ChunksOf(form, n) ==
    [i \in 1..Chunks(n) |-> Stream(ChunkForm(form, i), SubSeq(Bytes(n), 2 * i - 1, Min({2 * i, n})))]

Table(form, n) == [size |-> 30, at |-> 16, says |-> 16, count |-> Chunks(n), fits |-> TRUE,
                   chunks |-> ChunksOf(form, n)]
NoFork == [Table("raw", 0) EXCEPT !.size = 0]

\* A volume of one compressed file; inline, its raw payload, and rsrc, its fork.
CompressedFile(form, fork, n, raw, rsrc, dataSize, sound, registered) ==
    [present |-> TRUE, based |-> TRUE,
     recs |-> <<[InlineRecord(Keys[3], 1) EXCEPT
                   !.cmp = [form |-> form, fork |-> fork, size |-> n, raw |-> raw]]>>,
     files |-> <<[dataSize |-> dataSize, rsrc |-> rsrc, sound |-> sound, content |-> Bytes(n)]>>,
     codecs |-> registered]

Registered == [Scopes -> {NoCodec, "old", "new"}]
CodecsFor(form) == IF form = "lz" THEN Registered ELSE {NoCodecs}
Nowhere == Stream("raw", <<>>)

InlineFiles ==
    UNION {{CompressedFile(form, FALSE, n, Stream(form, Bytes(n)), NoFork, 0, TRUE, c) :
               n \in {0, 3}, c \in CodecsFor(form)} : form \in {"raw", "zlib", "lz"}}
    \union {CompressedFile(form, FALSE, 3, Stream(other, Bytes(n)), NoFork, 0, FALSE,
                           [NoCodecs EXCEPT !["global"] = "old"]) :
               form \in {"raw", "zlib", "lz"}, other \in {"raw", "zlib", "lz"}, n \in {2, 4}}

ForkFiles ==
    UNION {{CompressedFile(form, TRUE, n, Nowhere, Table(form, n), d, TRUE, c) :
               n \in {4, 5}, d \in {0, 2}, c \in CodecsFor(form)} : form \in {"raw", "zlib", "lz"}}

\* The table of a file of five bytes, damaged in one place.
DamagedTables ==
    {[Table("zlib", 5) EXCEPT !.says = 40, !.at = 8], [Table("zlib", 5) EXCEPT !.says = 0],
     [Table("zlib", 5) EXCEPT !.at = 12], [Table("zlib", 5) EXCEPT !.fits = FALSE],
     [Table("zlib", 5) EXCEPT !.count = 2], [Table("zlib", 5) EXCEPT !.count = 4],
     [Table("zlib", 5) EXCEPT !.size = 12], [Table("zlib", 5) EXCEPT !.size = 99], NoFork}
    \union {[Table("zlib", 5) EXCEPT !.chunks[i] = s] :
               i \in 1..3, s \in {Outside, Stream("raw", <<7>>), Stream("empty", <<>>),
                                  Stream("zlib", <<7>>), Stream("stored", <<7, 8, 9>>)}}
DamagedForks == {CompressedFile("zlib", TRUE, 5, Nowhere, t, 0, FALSE, NoCodecs) : t \in DamagedTables}

\* Without an attributes file, by its blocks or by its first extent.
Bases == {[CompressedFile("raw", FALSE, 3, Stream("raw", Bytes(3)), NoFork, 0, FALSE, NoCodecs)
             EXCEPT !.present = p, !.based = b] : p, b \in BOOLEAN}

MCVolumes == Trees \union Bases \union InlineFiles \union ForkFiles \union DamagedForks

MCCalls == [kind : {"list"}, file : {1, 2}, name : {""}]
           \union [kind : {"read", "open"}, file : {1}, name : {"a", "b"}]
           \union [kind : {"decmpfs"}, file : {1}, name : {"cmp"}]
           \union [kind : {"walk"}, file : {0}, name : {""}]
============================================================================
