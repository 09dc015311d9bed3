------------------------------ MODULE Decmpfs ------------------------------
(***************************************************************************)
(* Opening a compressed file (attributes.go: hydrateCompressedRecord,      *)
(* decompressRecord; decmpfs.go).  The decmpfs attribute is read twice     *)
(* (XAttrs): to complete the record, and to decode the contents.  A codec  *)
(* that is not built in comes from two registries, that of the volume and  *)
(* that of the process, each with its own lock, and other goroutines may   *)
(* register codecs at any time.  A byte of contents is a pair: the codec   *)
(* that produced it and its place in the file.                             *)
(***************************************************************************)
EXTENDS XAttrs

CONSTANTS ChunkSize,     \* decmpfsChunkSize: bytes in every chunk but the last
          Conventional,  \* resourceHeaderSize: where the chunk table usually is
          Limit,         \* Volume.maxAlloc
          Codecs,        \* codecs a caller may register
          MaxChanges     \* bound on registrations

(***************************************************************************)
(* vol.files: a file's dataSize, that of its data fork; its resource fork  *)
(* rsrc: size, where the table is (at) and is said to be (says), the chunk *)
(* count, whether the table fits in the fork, and the chunks.  A record of *)
(* the attribute holds cmp, the header and payload: form, "raw", "zlib" or *)
(* "lz"; whether the payload is in the fork; the declared size; raw, the   *)
(* payload.  A payload or chunk is a stream: form and bytes, or Outside.   *)
(* vol.codecs are the codecs registered before.  For the properties:       *)
(* whether a file is sound, and its contents (SoundAssumption).            *)
(***************************************************************************)
VARIABLES stage,    \* "idle", "hydrate", "find", "volume", "global", "fork" or "decode"
          file,     \* the file that is opened
          record,   \* what the catalog record says of it: [size, compressed]
          header,   \* the header and payload found
          codecs,   \* the codec of each scope, or NoCodec
          kept,     \* for the properties: that codec, if it was there all along
          codec,    \* the codec in use
          chunk, data,  \* chunks decoded, and the bytes so far
          opened,   \* what the open came to: [file, err, data, codec, record, kept]
          changes

decodeVars == <<stage, file, record, header, codecs, kept, codec, chunk, data, opened, changes>>
allVars == <<vars, decodeVars>>

NoCodec   == "none"
BuiltIn   == {"raw", "zlib"}
Scopes    == {"volume", "global"}
NoContent == [file |-> 0, err |-> "none", data |-> <<>>, codec |-> NoCodec,
              record |-> [size |-> 0, compressed |-> FALSE], kept |-> [s \in Scopes |-> NoCodec]]

ASSUME DecmpfsAssumption ==
    /\ ChunkSize \in Nat \ {0}
    /\ Codecs \intersect (BuiltIn \union {NoCodec}) = {}
    /\ \A v \in Volumes : v.codecs \in [Scopes -> Codecs \union {NoCodec}]

DecodeInit ==
    /\ stage = "idle" /\ file = 0 /\ record = NoContent.record /\ header = NoHeader
    /\ codecs = vol.codecs /\ kept = codecs
    /\ codec = NoCodec /\ chunk = 0 /\ data = <<>> /\ opened = NoContent /\ changes = 0

Ask == Begin([kind |-> "decmpfs", file |-> file', name |-> Decmpfs])

\* OpenFileByCNID: the record is completed first, if its data fork is empty.
OpenContents(f) ==
    /\ stage = "idle" /\ call = Idle
    /\ file' = f /\ Ask
    /\ stage' = IF vol.files[f].dataSize = 0 THEN "hydrate" ELSE "find"
    /\ record' = [size |-> vol.files[f].dataSize, compressed |-> FALSE]
    /\ kept' = codecs /\ opened' = NoContent
    /\ UNCHANGED <<header, codecs, codec, chunk, data, changes>>

\* hydrateCompressedRecord: an attribute that cannot be read leaves the record
\* as it is.  decompressRecord then asks again.
Hydrate ==
    /\ stage = "hydrate" /\ call = Idle
    /\ record' = IF last.err = "ok" THEN [size |-> last.value.size, compressed |-> TRUE] ELSE record
    /\ stage' = "find" /\ UNCHANGED file /\ Ask
    /\ UNCHANGED <<header, codecs, kept, codec, chunk, data, opened, changes>>

Done(err, bytes) ==
    /\ opened' = [file |-> file, err |-> err, data |-> bytes, codec |-> codec,
                  record |-> record, kept |-> kept]
    /\ stage' = "idle" /\ file' = 0 /\ record' = NoContent.record /\ header' = NoHeader
    /\ codec' = NoCodec /\ chunk' = 0 /\ data' = <<>>

Stage(s) == stage' = s /\ UNCHANGED <<file, record, data, chunk, opened>>

\* checkAlloc.
MayAlloc(n) == Limit = 0 \/ n <= Limit

\* Where the payload is decoded from.
Payload == IF header'.fork THEN "fork" ELSE "decode"

\* Without an attribute the fork is opened as it is.
Find ==
    /\ stage = "find" /\ call = Idle
    /\ \/ last.err = "notfound" /\ Done("plain", <<>>)
       \/ last.err = "ok" /\ ~MayAlloc(last.value.size) /\ Done("limit", <<>>)
       \/ last.err \notin {"ok", "notfound"} /\ Done("failed", <<>>)
       \/ /\ last.err = "ok" /\ MayAlloc(last.value.size) /\ header' = last.value
          /\ \/ last.value.form \in BuiltIn /\ codec' = last.value.form /\ Stage(Payload)
             \/ last.value.form \notin BuiltIn /\ Stage("volume") /\ UNCHANGED codec
    /\ UNCHANGED <<vars, codecs, kept, changes>>

\* Mutant: the codec of the process is preferred.
FirstScope_Global == "global"

\* lookupDecompressor asks the volume first, then, its lock released, the process.
FirstScope == "volume"

Asked == IF stage = "volume" THEN FirstScope ELSE IF FirstScope = "volume" THEN "global" ELSE "volume"

Look ==
    /\ stage \in Scopes
    /\ \/ codecs[Asked] # NoCodec /\ codec' = codecs[Asked] /\ UNCHANGED header /\ Stage(Payload)
       \/ codecs[Asked] = NoCodec /\ stage = "volume" /\ Stage("global") /\ UNCHANGED <<codec, header>>
       \/ codecs[Asked] = NoCodec /\ stage = "global" /\ Done("unsupported", <<>>)
    /\ UNCHANGED <<vars, codecs, kept, changes>>

\* Mutant: a remainder has no chunk of its own.
Chunks_Floor(size) == size \div ChunkSize

Chunks(size) == (size + ChunkSize - 1) \div ChunkSize

\* A header that points nowhere is passed over for the conventional place.
TableAt(fork) == IF fork.says > 0 /\ fork.says + 8 <= fork.size THEN fork.says ELSE Conventional

\* The checks of decodeDecmpfsResourceFork ahead of its loop.
TableGood(fork, size) ==
    /\ fork.size >= Conventional + 8 /\ TableAt(fork) + 8 <= fork.size
    /\ TableAt(fork) = fork.at
    /\ fork.count > 0 /\ fork.count = Chunks(size) /\ fork.fits

\* decodeResourceForkPayload reads the resource fork whole.
ReadFork ==
    /\ stage = "fork"
    /\ LET fork == vol.files[file].rsrc IN
       \/ fork.size = 0 /\ Done("missing", <<>>)
       \/ fork.size > 0 /\ ~MayAlloc(fork.size) /\ Done("limit", <<>>)
       \/ fork.size > 0 /\ MayAlloc(fork.size) /\ ~TableGood(fork, header.size) /\ Done("corrupt", <<>>)
       \/ /\ fork.size > 0 /\ MayAlloc(fork.size) /\ TableGood(fork, header.size)
          /\ Stage("decode") /\ UNCHANGED <<header, codec>>
       \/ Done("failed", <<>>)
    /\ UNCHANGED <<vars, codecs, kept, changes>>

\* What a codec makes of a stream, at most `want' bytes; a refusal is Outside.
Outside == [form |-> "outside", bytes |-> <<>>]
Reads(c) == CASE c = "raw" -> {"raw", "empty"} [] c = "zlib" -> {"zlib", "stored"} [] OTHER -> {"lz"}

Decoded(stream, want) ==
    IF stream.form \notin Reads(codec) THEN Outside
    ELSE [form |-> "contents",
          bytes |-> [i \in 1..Min({want, Len(stream.bytes)}) |-> <<codec, stream.bytes[i]>>]]

\* decodeInlinePayload; the length of what a registered codec wrote is not checked.
DecodeInline ==
    /\ stage = "decode" /\ ~header.fork
    /\ LET all == Decoded(header.raw, header.size) IN
       IF all = Outside THEN Done(IF codec \in Codecs THEN "codec" ELSE "corrupt", <<>>)
       ELSE IF codec \notin Codecs /\ Len(all.bytes) # header.size THEN Done("corrupt", <<>>)
       ELSE Done("ok", all.bytes)
    /\ UNCHANGED <<vars, codecs, kept, changes>>

\* One chunk of decodeDecmpfsResourceFork.
Want == Min({ChunkSize, header.size - Len(data)})

DecodeChunk ==
    /\ stage = "decode" /\ header.fork /\ chunk < Chunks(header.size) /\ Want > 0
    /\ LET one == Decoded(vol.files[file].rsrc.chunks[chunk + 1], Want) IN
       IF one = Outside THEN Done("corrupt", <<>>)
       ELSE /\ data' = data \o one.bytes /\ chunk' = chunk + 1
            /\ UNCHANGED <<stage, file, record, header, codec, opened>>
    /\ UNCHANGED <<vars, codecs, kept, changes>>

DecodeEnd ==
    /\ stage = "decode" /\ header.fork /\ (chunk = Chunks(header.size) \/ Want <= 0)
    /\ IF Len(data) = header.size THEN Done("ok", data) ELSE Done("corrupt", <<>>)
    /\ UNCHANGED <<vars, codecs, kept, changes>>

\* RegisterDecompressor, of the package or of the volume; nil removes.  One
\* between two calls is as good as one before the first.
Register(scope, c) ==
    /\ changes < MaxChanges /\ changes' = changes + 1
    /\ stage # "idle" /\ codecs[scope] # c
    /\ codecs' = [codecs EXCEPT ![scope] = c] /\ kept' = [kept EXCEPT ![scope] = NoCodec]
    /\ UNCHANGED <<vars, stage, file, record, header, codec, chunk, data, opened>>

OpenFile ==
    \/ \E f \in DOMAIN vol.files : OpenContents(f)
    \/ Hydrate \/ Find \/ Look \/ ReadFork \/ DecodeInline \/ DecodeChunk \/ DecodeEnd
    \/ \E s \in Scopes, c \in Codecs \union {NoCodec} : Register(s, c)

UseAttributes == (Work \/ (stage = "idle" /\ Call)) /\ UNCHANGED decodeVars

AllInit == Init /\ DecodeInit
AllNext == OpenFile \/ UseAttributes
AllSpec == AllInit /\ [][AllNext]_allVars

---------------------------------------------------------------------------
(* Properties *)

\* The attribute of a file that is found, if it has one.
PackedIn(v, f) == {i \in DOMAIN v.recs : v.recs[i].file = f /\ IsDecmpfs(v.recs[i])}
Packed(v, f)   == v.recs[Min(PackedIn(v, f))].cmp

\* The streams that hold bytes compressed as a header says.
Holds(stream, h, bytes) == stream.form \in Reads(h.form) /\ stream.bytes = bytes

\* A file that was compressed: the payload is the contents, whole or in chunks.
Written(v, f) ==
    LET c == v.files[f].content
        h == Packed(v, f)
        fork == v.files[f].rsrc
    IN  /\ v.based /\ PackedIn(v, f) # {} /\ h.size = Len(c)
        /\ IF h.fork
           THEN /\ fork.size > 0 /\ TableGood(fork, h.size)
                /\ \A i \in 1..Chunks(h.size) :
                      Holds(fork.chunks[i], h, SubSeq(c, ChunkSize * (i - 1) + 1, Min({ChunkSize * i, Len(c)})))
           ELSE Holds(h.raw, h, c)

ASSUME SoundAssumption ==
    \A v \in Volumes : \A f \in DOMAIN v.files :
        v.files[f].sound => v.files[f].content \in Seq(Nat) /\ Written(v, f)

\* The contents of a file are right, or there is an error.  A sound compressed
\* file opens as what was compressed, every byte of it by one codec, as long as
\* its record says, and is called neither corrupt nor, unless a query failed,
\* uncompressed.  Of a damaged one, what a built-in codec or the chunk table gives
\* is never shorter nor longer than declared (decmpfs.go:198-355, attributes.go:198-236).
ContentsExact ==
    opened.err # "none" =>
        LET f == vol.files[opened.file] IN
        /\ f.sound => /\ opened.err \notin {"corrupt", "missing", "codec"}
                      /\ opened.err = "plain" => faults > 0
        /\ f.sound /\ opened.err = "ok" =>
              opened.data = [i \in DOMAIN f.content |-> <<opened.codec, f.content[i]>>]
        /\ opened.err = "ok" /\ opened.record.compressed =>
              \/ Len(opened.data) = opened.record.size
              \/ opened.codec \in Codecs /\ ~Packed(vol, opened.file).fork

\* "A file needing an unavailable codec yields ErrUnsupportedCompression" (hfs.go:116-119),
\* and only that: a codec that is registered in one place all along is found,
\* however the other changes, and the volume's takes precedence (decmpfs.go:129-138).
CodecRight ==
    /\ opened.err = "unsupported" => opened.kept = [s \in Scopes |-> NoCodec]
    /\ opened.codec \in Codecs /\ opened.kept["volume"] # NoCodec =>
          opened.codec = opened.kept["volume"]
============================================================================
