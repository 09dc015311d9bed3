------------------------------ MODULE FileRead ------------------------------
(***************************************************************************)
(* Reading an open fork (file.go: Read, ReadAt, ReadAll), the nodes of a   *)
(* B-tree in one (forkio.go, attributes.go: readFromExtents), and the byte *)
(* ranges reported for the same extents (ranges.go: ExtentRanges).  A byte *)
(* is identified by where it lies on the disk; those of an inline file,    *)
(* whose decompressed contents are in memory, by their place in it.  One   *)
(* caller uses the handle; each extent of a call is one device read, which *)
(* may fail.                                                               *)
(***************************************************************************)
EXTENDS VolumeOpen, ExtentLists, FiniteSets, SequencesExt, FiniteSetsExt

CONSTANTS NodeSize,   \* bytes in a node of a B-tree
          MaxLen,     \* bound on buffers
          MaxOffset   \* bound on offsets

ASSUME FileReadAssumption == NodeSize \in Nat \ {0}

Idle    == [kind |-> "idle", len |-> 0, off |-> 0]
Closed  == [kind |-> "closed", extents |-> <<>>, size |-> 0, told |-> TRUE]
Nothing == [call |-> Idle, n |-> 0, err |-> "nil", bytes |-> <<>>]

VARIABLES file,      \* Closed, or the open fork: [kind, extents, size], of kind "fork",
                     \* "inline" or "tree"; told, whether ExtentRanges places its extents
          foff,      \* File.off, the offset of the handle
          call,      \* the call under way: Idle, or [kind, len, off]
          idx, logical, buf,  \* ReadAt: the extent, its base, the bytes so far
          ret,       \* what the last call returned: [call, n, err, bytes]
          content    \* the bytes the ranges report for the fork as data

readVars == <<file, foff, call, idx, logical, buf, ret, content>>

Span(e) == e.count * vol.blockSize
Spans(exts) == Covered(exts) * vol.blockSize

\* diskOffset of a byte of an extent.
Disk(e, inExt) == vol.base + e.start * vol.blockSize + inExt

---------------------------------------------------------------------------
(* ExtentRanges *)

Bounded(n, low, high) == Max({low, Min({n, high})})

\* Mutant: slack counts as data.
DataLength_Whole(remaining, span) == span

\* How many of a range's bytes belong to the fork.
DataLength(remaining, span) == Bounded(remaining, 0, span)

\* An extent whose start or end has no offset, on the disk or in the fork, is
\* refused, and the list with it.
Addressable(exts) ==
    /\ Spans(exts) <= MaxInt
    /\ \A i \in DOMAIN exts :
          BlockOffset(exts[i].start) # -1 /\ Span(exts[i]) <= MaxInt - BlockOffset(exts[i].start)

\* ExtentRanges: one range for each extent, in the order given.
Ranges(exts, size) ==
    [i \in DOMAIN exts |->
        LET at   == Before(exts, i) * vol.blockSize
            data == DataLength(size - at, Span(exts[i]))
        IN  [forkOffset |-> at, diskOffset |-> BlockOffset(exts[i].start),
             length |-> data, slack |-> Span(exts[i]) - data]]

\* The bytes a list of ranges reports as data.
DataOf(ranges) ==
    FlattenSeq([i \in DOMAIN ranges |-> [j \in 1..ranges[i].length |-> ranges[i].diskOffset + j - 1]])

Content(f) ==
    IF f.kind = "inline" THEN [i \in 1..f.size |-> i - 1]
    ELSE IF f.told THEN DataOf(Ranges(f.extents, f.size)) ELSE <<>>

---------------------------------------------------------------------------
ReadInit ==
    /\ file = Closed /\ content = <<>>
    /\ foff = 0 /\ call = Idle /\ idx = 1 /\ logical = 0 /\ buf = <<>>
    /\ ret = Nothing

OpenAs(kind, exts, size) ==
    /\ file' = [kind |-> kind, extents |-> exts, size |-> size, told |-> Addressable(exts)]
    /\ content' = Content(file')
    /\ UNCHANGED <<foff, call, idx, logical, buf, ret>>

\* Mutant: Read does not move the handle when the call ends with an error.
Advance_OnSuccess(n, err) == IF err = "nil" THEN n ELSE 0

\* Read moves the handle by what it read, whatever else happened.
Advance(n, err) == n

\* A call returns err with the first n bytes.  Read moves the handle; ReadAll
\* takes io.EOF for success; it and the reading of a node give all or nothing.
Return(c, bytes, err) ==
    /\ call' = Idle /\ idx' = 1 /\ logical' = 0 /\ buf' = <<>>
    /\ LET all  == c.kind = "ReadAll"
           kept == IF c.kind \in {"ReadAll", "node"} /\ err \notin {"nil", "EOF"} THEN <<>> ELSE bytes
       IN  ret' = [call |-> c, n |-> Len(kept), bytes |-> kept,
                   err |-> IF all /\ err = "EOF" THEN "nil" ELSE err]
    /\ foff' = IF c.kind = "Read" THEN foff + Advance(Len(bytes), err) ELSE foff

InlineBytes(c) == [i \in 1..Min({c.len, file.size - c.off}) |-> c.off + i - 1]

\* The checks ahead of the loop of ReadAt, in its order, and of Read and
\* ReadAll before they call it.
Start(c) ==
    /\ file.kind \in {"fork", "inline"} /\ call = Idle /\ UNCHANGED <<file, content>>
    /\ CASE c.off < 0 -> Return(c, <<>>, "invalid")
         [] c.off >= 0 /\ c.len = 0 -> Return(c, <<>>, "nil")
         [] c.off >= 0 /\ c.len > 0 /\ c.off >= file.size -> Return(c, <<>>, "EOF")
         [] c.off >= 0 /\ c.len > 0 /\ c.off < file.size /\ file.kind = "inline" ->
              LET bytes == InlineBytes(c)
              IN  Return(c, bytes, IF c.off + Len(bytes) >= file.size THEN "EOF" ELSE "nil")
         [] OTHER -> call' = c /\ ret' = Nothing /\ UNCHANGED <<foff, idx, logical, buf>>

Read(len)        == Start([kind |-> "Read", len |-> len, off |-> foff])
ReadAt(len, off) == Start([kind |-> "ReadAt", len |-> len, off |-> off])

\* ReadAll: a buffer of the fork's size, if one may be had.
ReadAll ==
    LET c == [kind |-> "ReadAll", len |-> file.size, off |-> 0]
    IN  IF file.size > 0 /\ ~MayAlloc(file.size)
        THEN /\ file.kind \in {"fork", "inline"} /\ call = Idle /\ UNCHANGED <<file, content>>
             /\ Return(c, <<>>, "limit")
        ELSE Start(c)

\* nodeReaderFor's function: a node is read through the extents of the tree.
ReadNode(num) ==
    /\ file.kind = "tree" /\ call = Idle
    /\ call' = [kind |-> "node", len |-> NodeSize, off |-> num * NodeSize] /\ ret' = Nothing
    /\ UNCHANGED <<file, foff, idx, logical, buf, content>>

\* No more than the file holds is wanted; a node is wanted whole.
Want(c) == IF c.kind = "node" THEN c.len ELSE Min({c.len, file.size - c.off})

\* Where in the extent the next byte is.
InExt(c) == c.off + Len(buf) - logical

\* One extent that still has bytes to give, read into the rest of the buffer.
ReadExtent ==
    /\ call # Idle /\ idx <= Len(file.extents) /\ Len(buf) < Want(call)
    /\ LET e   == file.extents[idx]
           at  == Wrap(Disk(e, InExt(call)))
           can == Min({Span(e) - InExt(call), Want(call) - Len(buf)})
       IN /\ InExt(call) < Span(e)
          /\ \/ /\ Within(at, can)
                /\ buf' = buf \o [i \in 1..can |-> at + i - 1]
                /\ logical' = logical + Span(e) /\ idx' = idx + 1
                /\ UNCHANGED <<foff, call, ret>>
             \/ Return(call, buf, IF Within(at, can) THEN "failed" ELSE ReadError(at))
    /\ UNCHANGED <<file, content>>

\* An extent that lies before the offset.
SkipExtent ==
    /\ call # Idle /\ idx <= Len(file.extents) /\ Len(buf) < Want(call)
    /\ InExt(call) >= Span(file.extents[idx])
    /\ logical' = logical + Span(file.extents[idx]) /\ idx' = idx + 1
    /\ UNCHANGED <<file, foff, call, buf, ret, content>>

AtEnd(c) == c.off + Len(buf) >= file.size

\* The loop is over: what was wanted is read, or the extents are used up.
EndRead ==
    /\ call # Idle /\ (idx > Len(file.extents) \/ Len(buf) >= Want(call))
    /\ Return(call, buf, CASE call.kind = "node" -> IF Len(buf) < Want(call) THEN "short" ELSE "nil"
                          [] OTHER -> IF Len(buf) < Want(call) \/ AtEnd(call) THEN "EOF" ELSE "nil")
    /\ UNCHANGED <<file, content>>

ReadNext ==
    \/ \E len \in 0..MaxLen : Read(len) \/ \E off \in -1..MaxOffset : ReadAt(len, off)
    \/ ReadAll \/ ReadExtent \/ SkipExtent \/ EndRead
    \/ \E num \in 0..(MaxOffset \div NodeSize) : ReadNode(num)

---------------------------------------------------------------------------
(* Properties *)

\* A call under way keeps to its buffer, and the extents it is done with end
\* where `logical' says.
ReadTypeOK ==
    /\ foff \in 0..Max({0, file.size})
    /\ ret.err \in {"nil", "EOF", "short", "failed", "invalid", "limit"} /\ ret.n = Len(ret.bytes)
    /\ call # Idle => Len(buf) <= Want(call) /\ (call.kind # "node" => call.off < file.size)
    /\ idx \in 1..(Len(file.extents) + 1)
    /\ file # Closed => logical = Before(file.extents, idx) * vol.blockSize

\* The handle is an io.Reader and io.ReaderAt over the bytes the ranges report,
\* whatever fails and in whatever order calls come (ByteFile): two computations
\* of the same layout agree, and Read neither skips nor repeats a byte.  Of a fork
\* with an extent that the ranges refuse to place nothing is said (file.go:46-164,
\* ranges.go:89-148, attributes.go:60-103).
Abstract == INSTANCE ByteFile WITH off <- foff, told <- file.told

ReadsAFile == Abstract!Spec
============================================================================
