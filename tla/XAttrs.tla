------------------------------- MODULE XAttrs -------------------------------
(***************************************************************************)
(* Extended attributes (xattr.go: ListXAttrs, GetXAttr, ReadXAttr,         *)
(* OpenXAttr, WalkXAttrs; attributes.go: readDecmpfsAttr).  The records of *)
(* one file come from a keyed query (BTreeSearch), which may degrade half  *)
(* way and start over along the leaf chain, or fail; WalkXAttrs follows the*)
(* leaf chain from the start.  ReadXAttr and OpenXAttr call one another.   *)
(***************************************************************************)
EXTENDS Integers, Sequences, FiniteSets, SequencesExt, FiniteSetsExt

CONSTANTS Volumes,
          Calls,      \* what may be asked: [kind, file, name]
          Decmpfs,    \* the name of the attribute of a compressed file
          MaxDepth,   \* calls of each other at which the stack is exhausted
          MaxFaults   \* bound on queries that fail or start over

(***************************************************************************)
(* A volume: whether its attributes file is present, having blocks, and    *)
(* based, having any in its first extent; and the records of its tree in   *)
(* key order.  A record: the file, name and start block of its key; type,  *)
(* "inline", "fork", "extension" or "other"; whether it is cut short before*)
(* its fixed fields; of an inline record the length it declares and the    *)
(* bytes it holds; of the others the size and extents; cmp, the decmpfs    *)
(* header and payload in those bytes, or NoHeader.                         *)
(***************************************************************************)
IsRecord(r) ==
    /\ r.type \in {"inline", "fork", "extension", "other"} /\ r.short \in BOOLEAN
    /\ {r.start, r.declared, r.held} \subseteq Nat /\ r.exts \in Seq(Nat)

ASSUME XAttrsAssumption ==
    /\ MaxDepth \in Nat \ {0} /\ MaxFaults \in Nat
    /\ \A c \in Calls : c.kind \in {"list", "read", "open", "walk", "decmpfs"}
    /\ \A v \in Volumes : /\ {v.present, v.based} \subseteq BOOLEAN /\ v.recs \in Seq(Range(v.recs))
                          /\ \A r \in Range(v.recs) : IsRecord(r)

VARIABLES vol,
          call, phase, pos, redone,
          table,      \* ListXAttrs: the attributes so far, by name
          pending,    \* WalkXAttrs: the fork-data attribute not yet flushed
          out,        \* what WalkXAttrs has given the callback
          depth,      \* how deep ReadXAttr and OpenXAttr are in each other
          last, faults

scan == <<pos, redone, table, pending, out>>
vars == <<vol, call, phase, scan, depth, last, faults>>

\* The records a query gives are those of its file, and all those of the volume a walk.
Given(c) == {i \in DOMAIN vol.recs : c.kind = "walk" \/ vol.recs[i].file = c.file}

Idle    == [kind |-> "idle", file |-> 0, name |-> ""]
None    == [storage |-> "none"]
NoHeader == [form |-> "none"]
NoReply == [call |-> Idle, err |-> "none", attrs |-> <<>>, value |-> None]

Init ==
    /\ vol \in Volumes /\ call = Idle /\ phase = "idle" /\ pos = 1 /\ redone = FALSE
    /\ table = <<>> /\ pending = None /\ out = <<>> /\ depth = 0
    /\ last = NoReply /\ faults = 0

---------------------------------------------------------------------------
\* Mutant: a record that declares more than it holds is believed.
InlineSize_Declared(r) == r.declared

\* A truncated inline value is as long as its record.
InlineSize(r) == Min({r.declared, r.held})

Attr(r, size, storage, exts) ==
    [file |-> r.file, name |-> r.name, size |-> size, storage |-> storage, exts |-> exts]
Inline(r) == Attr(r, InlineSize(r), "inline", <<>>)
Fork(r)   == Attr(r, r.size, "fork", r.exts)
Longer(a, r) == [a EXCEPT !.exts = @ \o r.exts]

Clear == pos' = 1 /\ redone' = FALSE /\ table' = <<>> /\ pending' = None

Reply(err, attrs, value) ==
    /\ last' = [call |-> call, err |-> err, attrs |-> attrs, value |-> value]
    /\ call' = Idle /\ phase' = "idle" /\ depth' = 0 /\ out' = <<>> /\ Clear

Error(e) == Reply(e, <<>>, None)
Fault == faults < MaxFaults /\ faults' = faults + 1

\* Another query begins.
Query(p) == phase' = p /\ Clear /\ UNCHANGED <<call, out, last>>

\* hasAttributes; readDecmpfsAttr goes by the first extent.
HasTree(c) == IF c.kind = "decmpfs" THEN vol.based ELSE vol.present

\* Without an attributes file nothing is listed, and nothing found.  The header,
\* which a query begins with, is in the first extent.
Begin(c) ==
    /\ call = Idle
    /\ IF HasTree(c) /\ vol.based
       THEN /\ call' = c /\ last' = NoReply /\ UNCHANGED <<scan, depth>>
            /\ phase' = CASE c.kind \in {"list", "open"} -> "list"
                          [] c.kind = "walk" -> "walk"
                          [] OTHER -> "read"
       ELSE /\ last' = [call |-> c, attrs |-> <<>>, value |-> None,
                        err |-> CASE HasTree(c) -> "failed"
                                  [] ~HasTree(c) /\ c.kind \in {"list", "walk"} -> "ok"
                                  [] OTHER -> "notfound"]
            /\ UNCHANGED <<call, phase, scan, depth>>
    /\ UNCHANGED <<vol, faults>>

\* A keyed query degrades and its records come again.
Again ==
    /\ phase \in {"list", "read"} /\ ~redone /\ Fault
    /\ pos' = 1 /\ redone' = TRUE
    /\ UNCHANGED <<vol, call, phase, table, pending, out, depth, last>>

\* Or it fails; readDecmpfsAttr takes missing extents of the tree for no attribute.
QueryFails ==
    /\ phase \in {"list", "read", "walk"} /\ Fault
    /\ Error("failed") \/ (call.kind = "decmpfs" /\ Error("notfound"))
    /\ UNCHANGED vol

Ahead == {i \in Given(call) : pos <= i}
More  == Ahead # {}
Here  == Min(Ahead)
This  == vol.recs[Here]

Put(a) == [n \in DOMAIN table \union {a.name} |-> IF n = a.name THEN a ELSE table[n]]

\* Mutant: a fork-data record that comes again is added to.
PutFork_Adds(r) ==
    IF r.name \in DOMAIN table THEN Put(Longer(table[r.name], r)) ELSE Put(Fork(r))

\* A fork-data record replaces what there was under its name.
PutFork(r) == Put(Fork(r))

\* One record of ListXAttrs.
ListRecord ==
    /\ phase = "list" /\ More
    /\ LET r == This IN
       table' = CASE r.short -> table
                  [] ~r.short /\ r.type = "inline" -> Put(Inline(r))
                  [] ~r.short /\ r.type = "fork"   -> PutFork(r)
                  [] ~r.short /\ r.type = "extension" ->
                       IF r.name \in DOMAIN table /\ table[r.name].storage = "fork"
                       THEN Put(Longer(table[r.name], r)) ELSE table
                  [] OTHER -> table
    /\ pos' = Here + 1
    /\ UNCHANGED <<vol, call, phase, redone, pending, out, depth, last, faults>>

\* GetXAttr.
Lookup == IF call.name \in DOMAIN table THEN table[call.name] ELSE None

Deeper(p) ==
    /\ depth < MaxDepth /\ depth' = depth + 1 /\ Query(p)

\* ListXAttrs ends, or GetXAttr has what OpenXAttr asked it for.
ListEnd ==
    /\ phase = "list" /\ ~More /\ UNCHANGED <<vol, faults>>
    /\ CASE call.kind = "list" ->
              Reply("ok", table, None)
         [] call.kind # "list" /\ Lookup = None -> Error("notfound")
         [] call.kind # "list" /\ Lookup.storage = "inline" -> Deeper("read")
         [] OTHER -> IF Lookup.exts = <<>> THEN Error("missing") ELSE Reply("ok", <<>>, Lookup)

Named(r, name) == ~r.short /\ r.type = "inline" /\ r.start = 0 /\ r.name = name

\* What readDecmpfsAttr takes for the attribute, and what ReadXAttr does.
IsDecmpfs(r) == Named(r, Decmpfs) /\ r.declared <= r.held /\ r.cmp # NoHeader
Matches(r)   == IF call.kind = "decmpfs" THEN IsDecmpfs(r) ELSE Named(r, call.name)

\* One record of ReadXAttr, whose value may be more than the caller lets it
\* allocate, or readDecmpfsAttr.
ReadRecord ==
    /\ phase = "read" /\ More /\ UNCHANGED <<vol, faults>>
    /\ IF Matches(This)
       THEN \/ Reply("ok", <<>>, IF call.kind = "decmpfs" THEN This.cmp ELSE Inline(This))
            \/ call.kind # "decmpfs" /\ InlineSize(This) > 0 /\ Error("limit")
       ELSE pos' = Here + 1 /\ UNCHANGED <<call, phase, redone, table, pending, out, depth, last>>

\* No inline record: ReadXAttr takes it to be fork-backed and opens it.
ReadEnd ==
    /\ phase = "read" /\ ~More /\ UNCHANGED <<vol, faults>>
    /\ IF call.kind = "decmpfs" THEN Error("notfound") ELSE Deeper("list")

\* Nothing bounds the two: the stack is exhausted, and the program ends.
Exhausted ==
    /\ depth = MaxDepth /\ phase \in {"list", "read"} /\ ~More
    /\ \/ phase = "read" /\ call.kind # "decmpfs"
       \/ phase = "list" /\ call.kind # "list" /\ Lookup.storage = "inline"
    /\ Error("exhausted")
    /\ UNCHANGED <<vol, faults>>

Flushed == IF pending = None THEN out ELSE Append(out, pending)

Walked(p, o) == pending' = p /\ out' = o /\ pos' = Here + 1
                /\ UNCHANGED <<call, phase, redone, table, depth, last>>

\* One record of WalkXAttrs.  The callback may stop the walk.
WalkRecord ==
    /\ phase = "walk" /\ More /\ UNCHANGED <<vol, faults>>
    /\ LET r == This IN
       CASE r.type = "inline" ->
              LET o == IF r.short THEN Flushed ELSE Append(Flushed, Inline(r))
              IN  Walked(None, o) \/ (o # out /\ Reply("stopped", o, None))
         [] r.type = "fork" ->
              \/ Walked(IF r.short THEN None ELSE Fork(r), Flushed)
              \/ pending # None /\ Reply("stopped", Flushed, None)
         [] r.type = "extension" ->
              IF r.short \/ pending = None THEN Walked(pending, out)
              ELSE IF <<pending.file, pending.name>> = <<r.file, r.name>>
                   THEN Walked(Longer(pending, r), out) ELSE Walked(pending, out)
         [] OTHER -> Walked(pending, out)

WalkEnd ==
    /\ phase = "walk" /\ ~More /\ UNCHANGED <<vol, faults>>
    /\ Reply("ok", Flushed, None)

Call == \E c \in Calls : Begin(c)

Work == \/ Again \/ QueryFails \/ ListRecord \/ ListEnd \/ ReadRecord \/ ReadEnd \/ Exhausted
        \/ WalkRecord \/ WalkEnd

Next == Call \/ Work

Spec == Init /\ [][Next]_vars

---------------------------------------------------------------------------
(* Properties *)

Recs    == DOMAIN vol.recs
Rec(i)  == vol.recs[i]
Key(i)  == <<Rec(i).file, Rec(i).name>>
Heads   == {i \in Recs : ~Rec(i).short /\ Rec(i).type \in {"inline", "fork"}}

\* A tree as the file system writes it: on its sound leaf chain a query that does
\* not fail gives every record (BTreeSearch); an attribute has one inline or fork-
\* data record, at block 0, its extensions follow that, and nothing comes between.
WellKeyed ==
    /\ \A i \in Recs : Rec(i).type \in {"inline", "fork"} => ~Rec(i).short /\ Rec(i).start = 0
    /\ \A i, j \in Heads : Key(i) = Key(j) => i = j
    /\ \A i, j, k \in Recs : i < j /\ j < k /\ Key(i) = Key(k) => Key(j) = Key(i)
    /\ \A i \in Recs : Rec(i).type = "extension" =>
          \E j \in Heads : j < i /\ Rec(j).type = "fork" /\ Key(j) = Key(i)

\* The attribute that a head record stands for: with a fork, as far as record k.
Extends(k, i) == Rec(k).type = "extension" /\ ~Rec(k).short /\ Key(k) = Key(i)

Grown(i) ==
    LET upTo[k \in 0..Len(vol.recs)] ==
            IF k <= i THEN Attr(Rec(i), Rec(i).size, "fork", Rec(i).exts)
            ELSE IF Extends(k, i) THEN Longer(upTo[k - 1], Rec(k)) ELSE upTo[k - 1]
    IN  upTo

Whole(i) ==
    IF Rec(i).type = "inline" THEN Attr(Rec(i), Min({Rec(i).declared, Rec(i).held}), "inline", <<>>)
    ELSE Grown(i)[Len(vol.recs)]

\* The attributes of the first k records, in order.
TreeUpTo ==
    LET upTo[k \in 0..Len(vol.recs)] ==
            IF k = 0 THEN <<>> ELSE IF k \in Heads THEN Append(upTo[k - 1], Whole(k)) ELSE upTo[k - 1]
    IN  upTo

InTree == TreeUpTo[Len(vol.recs)]

\* The two ways to the attributes agree, and with the tree: a listing has every
\* attribute of the file, whole, once, even when the query started over in the
\* middle of one; a walk of the volume reports every attribute, whole, once, in
\* key order, and one that is stopped a prefix of them (xattr.go:77-164, 283-357).
AttributesExact ==
    vol.present /\ WellKeyed =>
        /\ last.call.kind = "list" /\ last.err = "ok" =>
              {last.attrs[n] : n \in DOMAIN last.attrs}
              = {Whole(i) : i \in {i \in Heads : Rec(i).file = last.call.file}}
        /\ last.call.kind = "walk" /\ last.err = "ok" => last.attrs = InTree
        /\ last.call.kind = "walk" /\ last.err = "stopped" => IsPrefix(last.attrs, InTree)

\* Reading and opening give the attribute that is listed, and ErrNotFound only
\* when there is none: an inline one by one more call, never by a loop of them
\* (xattr.go:195-276).
ValueIsListed ==
    vol.present /\ WellKeyed /\ last.call.kind \in {"read", "open"} =>
        LET own == {i \in Heads : Key(i) = <<last.call.file, last.call.name>>}
        IN  /\ last.err = "ok" => \E i \in own : last.value = Whole(i)
            /\ last.err = "notfound" => own = {}
            /\ last.err # "exhausted"

\* "Inline attributes are served from memory" (xattr.go:252): opening or reading
\* one comes to an end on any volume.
OpenEnds == last.err # "exhausted"
============================================================================
