----------------------------- MODULE VolumeOpen -----------------------------
(***************************************************************************)
(* Opening a volume (hfs.go: openAt, newVolume; volume.go: the headers     *)
(* and the geometry; config.go: OpenWithConfig; limits.go).  An image is   *)
(* its size and the headers it holds, by position: that of a volume lies   *)
(* HeaderAt bytes into it.  The caller says where the volume begins; what  *)
(* an HFS wrapper or the layout of classic HFS adds is found here.         *)
(***************************************************************************)
EXTENDS Integers

CONSTANTS Sector,      \* hfsSectorSize, 512 in the code; a header fills one
          MaxInt,      \* 2^63 - 1 in the code: offsets wrap above
          DefaultAlloc \* DefaultMaxAlloc

HeaderAt == 2 * Sector

ASSUME VolumeOpenAssumption ==
    /\ Sector \in Nat \ {0} /\ DefaultAlloc \in Nat \ {0}
    /\ MaxInt \in Nat /\ HeaderAt <= MaxInt

VARIABLES image,    \* [size, headers], and for the properties what it was made as
          config,   \* the caller's Config: [base, alloc]
          opening,  \* "start", "volume", "embedded", "done"
          header,   \* the header read last
          derived,  \* the offset a wrapper adds
          vol,      \* NotOpen, or the open volume
          openErr   \* [kind, at]

openVars == <<image, config, opening, header, derived, vol, openErr>>

NoHeader == [sig |-> "none"]
NotOpen  == [kind |-> "none"]
NoError  == [kind |-> "none", at |-> 0]

\* int64 arithmetic.
Wrap(n) == ((n + MaxInt + 1) % (2 * (MaxInt + 1))) - (MaxInt + 1)

\* Mutant: what lies beyond the end of the image reads as zeros.
Within_Zeros(at, len) == at >= 0

\* The reads that readAtExact can satisfy: elsewhere it is a short read, or, at
\* a negative offset, an error of the reader's.
Within(at, len) == at >= 0 /\ at + len <= image.size

\* What readAtExact says of a read that does not succeed.
ReadError(at) == IF at < 0 THEN "failed" ELSE "short"

HeaderIn(at) == IF at \in DOMAIN image.headers THEN image.headers[at] ELSE NoHeader

\* Config.normalise: an unset limit is the default, "no limit" is explicit.
Unlimited == -1
MaxAlloc(c) == CASE c.alloc = Unlimited -> 0
                 [] c.alloc # Unlimited /\ c.alloc <= 0 -> DefaultAlloc
                 [] OTHER -> c.alloc

\* checkAlloc.
MayAlloc(n) == vol.maxAlloc = 0 \/ n <= vol.maxAlloc

---------------------------------------------------------------------------
(* Images: their headers have a signature, and fields that are unsigned;  *)
(* a sound one holds the volume it was made with, as far as it goes.       *)

IsHeader(h) ==
    /\ h.sig \in {"none", "HFS", "HFS+", "HFSX"}
    /\ h.sig # "none" => h.blockSize \in Nat /\ h.total \in Nat
    /\ h.sig = "HFS"  => {h.alBlSt, h.vbm, h.embedStart, h.embedCount} \subseteq Nat

IsImage(i) ==
    /\ i.size \in 0..MaxInt
    /\ \A at \in DOMAIN i.headers : at \in Nat /\ at + Sector <= i.size /\ IsHeader(i.headers[at])

HeaderOf(i, h) == h.blockSize = i.blockSize /\ h.blockSize > 0 /\ h.total > 0

PlusHeader(i, at) ==
    /\ i.kind \in {"HFS+", "HFSX"}
    /\ at \in DOMAIN i.headers /\ HeaderOf(i, i.headers[at])
    /\ i.headers[at].sig = i.kind /\ i.headers[at].version = i.kind

ClassicHeader(i, h) ==
    /\ i.kind = "HFS" /\ h.sig = "HFS" /\ HeaderOf(i, h)
    /\ i.zero = i.start + h.alBlSt * Sector
    /\ i.name = i.start + HeaderAt /\ i.bitmap = i.start + h.vbm * Sector

\* parseHFSWrapperEmbeddedOffset: usable, or read as classic HFS.
Wraps(h)    == h.sig = "HFS" /\ h.embeds /\ h.blockSize > 0 /\ h.embedCount > 0
Embedded(h) == h.alBlSt * Sector + h.embedStart * h.blockSize

AsMade(i) ==
    /\ i.start \in Nat
    /\ LET at == i.start + HeaderAt
           h  == i.headers[at]
       IN  at + Sector <= i.size =>
              \/ PlusHeader(i, at) /\ i.zero = i.start
              \/ at \in DOMAIN i.headers /\ ~Wraps(h) /\ ClassicHeader(i, h)
              \/ /\ at \in DOMAIN i.headers /\ Wraps(h) /\ i.zero = i.start + Embedded(h)
                 /\ i.zero + HeaderAt + Sector <= i.size => PlusHeader(i, i.zero + HeaderAt)

IsConfig(c) == c.base \in -(MaxInt + 1) .. MaxInt /\ c.alloc \in Int

---------------------------------------------------------------------------
OpenInit ==
    /\ opening = "start" /\ header = NoHeader /\ derived = 0
    /\ vol = NotOpen /\ openErr = NoError

Refuse(kind, at) == opening' = "done" /\ openErr' = [kind |-> kind, at |-> at] /\ vol' = NotOpen

\* Mutant: the offset found in the volume replaces the caller's.
Base_Replaced(offset) == IF offset = 0 THEN config.base ELSE offset

\* newVolume: what the volume implies is added to what the caller said.
Base(offset) == config.base + offset

Opened(kind, h, offset) ==
    /\ opening' = "done" /\ UNCHANGED openErr
    /\ vol' = [kind |-> kind, start |-> config.base, base |-> Base(offset),
               blockSize |-> h.blockSize, vbm |-> IF kind = "HFS" THEN h.vbm ELSE 0,
               maxAlloc |-> MaxAlloc(config)]

\* readVolumeStartHeader; a short read at an offset the caller gave blames the
\* offset.
ReadStart ==
    /\ opening = "start"
    /\ LET at == Wrap(config.base + HeaderAt) IN
       CASE config.base < 0 -> Refuse("offset", config.base) /\ UNCHANGED header
         [] config.base >= 0 /\ ~Within(at, Sector) ->
              /\ Refuse(ReadError(at), IF ReadError(at) = "short" /\ config.base # 0 THEN config.base ELSE at)
              /\ UNCHANGED header
         [] OTHER -> \/ Refuse("failed", at) /\ UNCHANGED header
                     \/ opening' = "volume" /\ header' = HeaderIn(at) /\ UNCHANGED <<vol, openErr>>
    /\ UNCHANGED <<image, config, derived>>

\* checkBaseOffsetFits.
Fits(offset) == config.base <= MaxInt - offset

\* The header of the embedded volume; a short read here is the wrapper's doing.
FollowWrapper ==
    /\ opening = "volume" /\ Wraps(header)
    /\ LET offset == Embedded(header)
           at     == Wrap(config.base + offset + HeaderAt)
       IN \/ ~Fits(offset) /\ Refuse("offset", config.base) /\ UNCHANGED <<header, derived>>
          \/ Fits(offset) /\ ~Within(at, Sector) /\ Refuse(ReadError(at), at) /\ UNCHANGED <<header, derived>>
          \/ Fits(offset) /\ Within(at, Sector) /\ Refuse("failed", at) /\ UNCHANGED <<header, derived>>
          \/ /\ Fits(offset) /\ Within(at, Sector)
             /\ opening' = "embedded" /\ header' = HeaderIn(at) /\ derived' = offset
             /\ UNCHANGED <<vol, openErr>>
    /\ UNCHANGED <<image, config>>

\* parseHFSMasterDirectoryBlock: block 0 of classic HFS lies behind the bitmap.
OpenClassic ==
    /\ opening = "volume" /\ header.sig = "HFS" /\ ~Wraps(header)
    /\ LET area == header.alBlSt * Sector IN
       CASE header.blockSize = 0 \/ header.total = 0 -> Refuse("corrupt", config.base + HeaderAt)
         [] header.blockSize > 0 /\ header.total > 0 /\ ~Fits(area) -> Refuse("offset", config.base)
         [] OTHER -> Opened("HFS", header, area)
    /\ UNCHANGED <<image, config, header, derived>>

\* parseVolumeHeader, with kindFromSignature and validateVersion: an HFS volume
\* inside a wrapper is well-formed, and not read.
OpenPlus ==
    /\ \/ opening = "volume" /\ header.sig # "HFS"
       \/ opening = "embedded"
    /\ LET at == config.base + derived + HeaderAt IN
       CASE header.sig = "none" -> Refuse("signature", at)
         [] header.sig = "HFS" -> Refuse("format", at)
         [] header.sig \in {"HFS+", "HFSX"} /\ header.version # header.sig -> Refuse("version", at + 2)
         [] OTHER -> IF header.blockSize = 0 \/ header.total = 0 THEN Refuse("corrupt", at)
                                                                ELSE Opened(header.sig, header, derived)
    /\ UNCHANGED <<image, config, header, derived>>

OpenNext == ReadStart \/ FollowWrapper \/ OpenClassic \/ OpenPlus

---------------------------------------------------------------------------
(* The geometry of the open volume *)

\* BlockOffset; -1 where the code reports a corrupt geometry.
BlockOffset(block) ==
    IF block * vol.blockSize > MaxInt - vol.base THEN -1 ELSE vol.base + block * vol.blockSize

\* hfsVolumeName: the MDB is at the start of the volume, not of its blocks.
NameAt == vol.start + HeaderAt

\* hfsBitmapOffset.
BitmapAt == vol.start + vol.vbm * Sector

---------------------------------------------------------------------------
(* Properties *)

\* IsCorrupt.
IsCorrupt(kind) == kind \in {"corrupt", "signature", "version"}

\* Where a volume's block 0, its name and its bitmap are follows from three
\* numbers of different origin; on every format they must come out where the
\* volume was put (hfs.go:248-295, volume.go:114-147, 389-393, alloc.go:167-175).
VolumePlaced ==
    vol # NotOpen /\ image.sound /\ config.base = image.start =>
        /\ vol.kind = image.kind /\ vol.base = image.zero
        /\ vol.kind = "HFS" => NameAt = image.name /\ BitmapAt = image.bitmap

\* A failed open impeaches the evidence only when it is bad: a sound volume,
\* however truncated its image, is never called corrupt, and a caller's wrong
\* offset is blamed on the offset.  What is called corrupt is so at the place
\* the error names (hfs.go:297-319, volume.go:181-187, 332-353).
OpenErrorsTell ==
    opening = "done" /\ vol = NotOpen =>
        /\ image.sound /\ config.base = image.start => ~IsCorrupt(openErr.kind)
        /\ openErr.kind = "short" /\ openErr.at = config.base => openErr.at + HeaderAt + Sector > image.size
        /\ IsCorrupt(openErr.kind) =>
               LET at == IF openErr.kind = "version" THEN openErr.at - 2 ELSE openErr.at
                   h  == HeaderIn(at)
               IN  at + Sector <= image.size /\
                   (h.sig = "none" \/ h.blockSize = 0 \/ h.total = 0 \/ h.version # h.sig)
=============================================================================
