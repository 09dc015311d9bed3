------------------------------ MODULE OpenFork ------------------------------
(***************************************************************************)
(* From the image to a fork's bytes: the volume is opened (VolumeOpen), a  *)
(* fork of it has its extents resolved (ForkExtents) and is read from the  *)
(* disk (FileRead).  file.go: openFileFromRecord, openForkReader; forkio.go:*)
(* forkExtents, nodeReaderFor; deleted.go: OpenDeleted.  The CNID a fork is*)
(* resolved by is that of the record at hand, so a file is opened by the   *)
(* CNID of its inode; a caller of ResolveDataForkExtents may pass that of a*)
(* hard link.                                                              *)
(***************************************************************************)
EXTENDS ForkExtents, FileRead

CONSTANTS Volumes    \* [image, config, forks]: an image, how it is opened, the forks asked for

\* A sound fork lies where the volume's offsets reach.
OnVolume(f, i) ==
    /\ \A k \in DOMAIN f.laid : i.zero + (f.laid[k].start + f.laid[k].count) * i.blockSize <= MaxInt
    /\ Covered(f.laid) * i.blockSize <= MaxInt
    /\ f.kind = "live" => f.size <= f.total * i.blockSize

\* A size is unsigned, and openForkReader refuses one that is no offset; a
\* deleted record's is taken as it is.
ASSUME OpenForkAssumption ==
    \A v \in Volumes :
       /\ IsImage(v.image) /\ (v.image.sound => AsMade(v.image)) /\ IsConfig(v.config)
       /\ \A f \in v.forks : /\ IsFork(f) /\ (f.sound => IsLaid(f)) /\ f.size \in Int
                             /\ f.sound /\ v.image.sound => OnVolume(f, v.image)
                             /\ f.kind # "deleted" => f.size \in 0..MaxInt

vars == <<openVars, resolveVars, readVars>>

Init ==
    /\ OpenInit /\ ReadInit /\ ResolveInit
    /\ \E v \in Volumes : image = v.image /\ config = v.config /\ fork \in v.forks

OpenVolume == OpenNext /\ UNCHANGED <<resolveVars, readVars>>

\* A fork whose extents are to be resolved.
Resolve ==
    /\ vol # NotOpen /\ file = Closed /\ fork.kind \in {"live", "tree"}
    /\ ResolveNext /\ UNCHANGED <<openVars, readVars>>

\* The logical size of the record, not what the extents hold.
OpenSize == fork.size

\* openForkReader, the extents having been resolved.
OpenFile ==
    /\ vol # NotOpen /\ file = Closed /\ result = "ok" /\ cnid = fork.cnid /\ fork.kind = "live"
    /\ OpenAs("fork", out, OpenSize)
    /\ UNCHANGED <<openVars, resolveVars>>

\* openFileFromRecord on a compressed file, decompression succeeding.
OpenPacked ==
    /\ vol # NotOpen /\ file = Closed /\ fork.kind = "packed"
    /\ OpenAs("inline", <<>>, fork.size)
    /\ UNCHANGED <<openVars, resolveVars>>

\* nodeReaderFor, on the extents of a special file; the overflow file, whose
\* own overflow has nowhere to be, has no more than those of its header.
OpenTree ==
    /\ vol # NotOpen /\ file = Closed
    /\ LET exts == IF fork.kind = "overflow" THEN Compact(fork.inline) ELSE out
       IN  /\ fork.kind = "overflow" \/ (fork.kind = "tree" /\ result = "ok" /\ cnid = fork.cnid)
           /\ exts # <<>>
           /\ OpenAs("tree", exts, Spans(exts))
    /\ UNCHANGED <<openVars, resolveVars>>

\* A recovered record may carry a size its extents cannot hold.
DeletedSize(size, capacity) == IF size <= 0 \/ size > capacity THEN capacity ELSE size

\* OpenDeleted: the extents of the record alone, as they are now.
OpenDeleted ==
    /\ vol # NotOpen /\ file = Closed /\ fork.kind = "deleted"
    /\ LET exts == Compact(fork.inline)
       IN  exts # <<>> /\ OpenAs("fork", exts, DeletedSize(fork.size, Spans(exts)))
    /\ UNCHANGED <<openVars, resolveVars>>

UseFile == ReadNext /\ UNCHANGED <<openVars, resolveVars>>

Next == OpenVolume \/ Resolve \/ OpenFile \/ OpenPacked \/ OpenTree \/ OpenDeleted \/ UseFile

Spec == Init /\ [][Next]_vars

---------------------------------------------------------------------------
(* Properties *)

\* The types of the parts; a live file is open only when its extents are known.
TypeOK ==
    /\ ResolveTypeOK /\ ReadTypeOK
    /\ opening \in {"start", "volume", "embedded", "done"}
    /\ vol # NotOpen => opening = "done" /\ openErr = NoError
    /\ file.kind = "fork" /\ fork.kind = "live" => result = "ok" /\ file.extents = out

\* Where the bytes of the fork were written: block after block, from block 0
\* of the volume the image was made with.
Written ==
    LET blocks == WrittenTo(fork)
    IN  [x \in 1..fork.size |->
            image.zero + blocks[(x - 1) \div image.blockSize + 1] * image.blockSize
                       + ((x - 1) % image.blockSize)]

\* Reported ranges of the open file.
Reported == Ranges(file.extents, file.size)

\* The slack of all of them.
Slack(ranges) ==
    LET slack[i \in 0..Len(ranges)] == IF i = 0 THEN 0 ELSE slack[i-1] + ranges[i].slack
    IN  slack[Len(ranges)]

\* From the image to the ranges, end to end: wherever the volume lies in the
\* image, whatever wraps it, and however the fork is laid out, the ranges report
\* as data the bytes that were written, all of them in order, and as slack what
\* else the extents hold (hfs.go:237-295, extents.go:120-159, ranges.go:89-148).
\* A recovered file is no longer than its extents (deleted.go:325-338).
WrittenBytesReported ==
    /\ fork.sound /\ image.sound /\ config.base = image.start /\ file.kind = "fork" /\ fork.kind = "live" =>
           /\ content = Written
           /\ Slack(Reported) = Spans(file.extents) - fork.size
           /\ \A i \in DOMAIN Reported : Reported[i].slack >= 0
    /\ fork.kind = "deleted" /\ file.told => Len(content) = file.size
=============================================================================
