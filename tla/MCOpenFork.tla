----------------------------- MODULE MCOpenFork -----------------------------
(* Every well-formed fork of up to five blocks, two extents to a record and  *)
(* blocks of two bytes, and damaged ones of more shapes, in an HFS+ volume   *)
(* inside a wrapper inside a partition; and a few forks in volumes of every  *)
(* format, damaged, truncated or opened at a wrong offset.                   *)
EXTENDS OpenFork, TLC

Ext(start, count) == [start |-> start, count |-> count]
Inode == 20
Link  == 21

Fork(kind, total, size, inline, more, sound, laid) ==
    [cnid |-> Inode, kind |-> kind, total |-> total, size |-> size, inline |-> inline,
     overflow |-> more, sound |-> sound, laid |-> laid]

\* The sizes of the fragments of n blocks, one after the other.
Layouts(n) == {s \in UNION {[1..k -> 1..n] : k \in 1..n} :
                  FoldSeq(LAMBDA x, y : x + y, 0, s) = n}

\* Fragments in descending disk order, so that a lost order shows.
Placed(s) == [i \in DOMAIN s |-> Ext(90 - 10 * i, s[i])]
Pad(exts) == [i \in 1..2 |-> IF i \in DOMAIN exts THEN exts[i] ELSE Ext(0, 0)]
Part(exts, i) == SubSeq(exts, i, Min({i + 1, Len(exts)}))

\* Record after record of two extents; the last may be longer than the fork.
Made(s, total, size) ==
    LET exts   == Placed(s)
        starts == {i \in DOMAIN exts : i > 2 /\ i % 2 = 1}
    IN  Fork("live", total, size, Pad(Part(exts, 1)),
             [b \in {Before(exts, i) : i \in starts} |->
                 Pad(Part(exts, CHOOSE i \in starts : Before(exts, i) = b))],
             TRUE, exts)

Sound == UNION {{Made(s, n, size) : s \in Layouts(n), size \in {2 * n, 2 * n - 1}} : n \in 1..5}
         \union {Made(s, 4, size) : s \in Layouts(5), size \in {5, 8}}

SomeExts    == {Ext(0, 0), Ext(1, 0), Ext(1, 1), Ext(30, 3), Ext(50, 6)}
SomeRecords == {<<e, f>> : e \in SomeExts, f \in SomeExts}
Damaged ==
    {Fork("live", total, size, inline, more, FALSE, <<>>) :
        total \in {0, 2, 5}, size \in {0, 5}, inline \in SomeRecords,
        more \in UNION {[keys -> {Pad(<<Ext(50, 6)>>), <<Ext(40, 4), Ext(30, 3)>>, Pad(<<>>)}]
                               : keys \in SUBSET {1, 3}}}

\* An extent that ends, or starts, where offsets wrap.
Beyond == {Fork(kind, 5, 10, <<Ext(30, 3), e>>, <<>>, FALSE, <<>>) :
              kind \in {"live", "deleted"}, e \in {Ext(206, 2), Ext(210, 2)}}

Packed  == {Fork("packed", 0, size, Pad(<<>>), <<>>, FALSE, <<>>) : size \in {1, 3}}
Deleted == {Fork("deleted", 0, size, inline, <<>>, FALSE, <<>>) :
                size \in {-1, 0, 3, 7}, inline \in SomeRecords \ {<<Ext(50, 6), Ext(50, 6)>>}}
Trees   == {[f EXCEPT !.kind = kind] : f \in {Made(<<1, 2, 1>>, 4, 8), Made(<<2>>, 2, 4)},
                                       kind \in {"tree", "overflow"}}
Few     == {Made(<<1, 1, 1>>, 3, 5)}

---------------------------------------------------------------------------
Plus(kind, blockSize, total) ==
    [sig |-> kind, version |-> kind, blockSize |-> blockSize, total |-> total]

MDB(embeds, blockSize, alBlSt, embedStart, embedCount) ==
    [sig |-> "HFS", version |-> "HFS", embeds |-> embeds, blockSize |-> blockSize, total |-> 90,
     alBlSt |-> alBlSt, vbm |-> 3, embedStart |-> embedStart, embedCount |-> embedCount]

\* An image and what it was made as.
Image(size, headers, sound, kind, start, zero) ==
    [size |-> size, headers |-> [at \in {p \in DOMAIN headers : p + Sector <= size} |-> headers[at]],
     sound |-> sound, kind |-> kind, start |-> start, zero |-> zero, blockSize |-> 2,
     name |-> start + 4, bitmap |-> start + 6]

\* A volume whose block 0 is at `zero', in an image of that size, the volume
\* beginning at `start'.
PlusImage(kind, start, size) ==
    Image(size, start + 4 :> Plus(kind, 2, 90), TRUE, kind, start, start)
ClassicImage(start, zero, size) ==
    Image(size, start + 4 :> MDB(FALSE, 2, (zero - start) \div 2, 0, 0), TRUE, "HFS", start, zero)
WrappedImage(start, zero, size) ==
    Image(size, start + 4 :> MDB(TRUE, 6, 5, (zero - start - 10) \div 6, 20)
                @@ zero + 4 :> Plus("HFS+", 2, 90),
          TRUE, "HFS+", start, zero)

\* One field of a header, or one header, is wrong.
Broken ==
    {Image(300, 4 :> h, FALSE, "none", 0, 0) :
        h \in {Plus("HFS+", 0, 90), Plus("HFSX", 2, 0), [Plus("HFS+", 2, 90) EXCEPT !.version = "HFSX"],
               [Plus("HFS+", 2, 90) EXCEPT !.sig = "none"], MDB(FALSE, 0, 5, 0, 0), MDB(TRUE, 0, 5, 1, 1),
               [MDB(FALSE, 2, 5, 0, 0) EXCEPT !.total = 0]}}
    \union {Image(300, 4 :> MDB(TRUE, 6, 5, 5, 20) @@ 44 :> h, FALSE, "none", 0, 0) :
               h \in {NoHeader, MDB(FALSE, 2, 5, 0, 0), Plus("HFSX", 0, 9)}}

\* A wrapper whose embedded extent is unusable is a volume of its own.
Unwrapped(start) ==
    Image(300, start + 4 :> MDB(TRUE, 2, 20, 5, 0), TRUE, "HFS", start, start + 40)

\* Volumes at either place, in images that end too soon in various places.
SoundAt(start) ==
    {PlusImage(kind, start, size) : kind \in {"HFS+", "HFSX"}, size \in {300, 170, start + 5}}
    \union {ClassicImage(start, start + 30, size) : size \in {300, 180, start + 5}}
    \union {WrappedImage(start, start + 40, size) : size \in {300, start + 45, start + 7, start + 5}}
    \union {Unwrapped(start)}

SoundImages == SoundAt(0) \union SoundAt(10)

\* The end of the address range: offsets that wrap.
Far == {Image(511, 504 :> MDB(TRUE, 6, 5, 5, 20), FALSE, "none", 500, 0),
        Image(511, 504 :> MDB(FALSE, 2, 5, 0, 0), FALSE, "none", 500, 0),
        Image(511, 504 :> MDB(FALSE, 2, 11, 0, 0), FALSE, "none", 500, 0)}

Opening(base) == [base |-> base, alloc |-> 0]
Volume(i, base, forks) == [image |-> i, config |-> Opening(base), forks |-> forks]

MCVolumes ==
    {Volume(WrappedImage(10, 98, 300), 10, Sound \union Damaged \union Beyond \union Packed \union Deleted \union Trees)}
    \union {Volume(i, i.start, Few) : i \in SoundImages \union Broken \union Far}
    \union {Volume(PlusImage("HFS+", 10, 300), base, Few) : base \in {-1, 0, 8, 296, 298, 400, 509}}
    \union {[Volume(PlusImage("HFS+", 0, 300), 0, Few) EXCEPT !.config.alloc = a] : a \in {-1, -2, 3, 5}}

Either == {Inode, Link}
============================================================================
