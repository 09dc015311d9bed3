------------------------------ MODULE PathWalk ------------------------------
(***************************************************************************)
(* WalkPaths (paths.go): every live file and folder with its path, from one*)
(* sweep of the catalog in key order.  The path of a record's parent comes *)
(* from a memo of directory paths or from climbing thread records to the   *)
(* root; the memo is bounded, keeps failures as well as paths, and evicts  *)
(* in insertion order (the discipline of FifoCache).  PathForCNID          *)
(* (catalog.go) is the same climb without a memo.                          *)
(*                                                                         *)
(* A path is the sequence of its names.  A thread or a record is what it   *)
(* leads to, [parent, name]; a name may be NoName.  No two records of a     *)
(* volume share a CNID.  Reads may fail, up to a bound.  What the callback *)
(* does is left open; Report says what one callback does.                  *)
(***************************************************************************)
EXTENDS FifoCache, Anomalies, FiniteSets, SequencesExt

CONSTANTS Cnids,      \* every number a record or a thread may mention
          Names,      \* every name, NoName among them
          Volumes,    \* [order, records, folders, threads], see IsVolume
          Bounds,     \* values of walkPathMemoMax
          MaxFaults,
          Root,       \* rootFolderCNID
          NoName,     \* the empty name
          NoPath,     \* "" in place of a path, and the error in a memo entry
          Nothing     \* no record

(***************************************************************************)
(* records: from CNIDs in use to what the record says; order: those CNIDs  *)
(* and those of records that do not decode, in catalog key order; folders: *)
(* which are folders; threads: from CNIDs to what the thread record says.  *)
(***************************************************************************)
IsVolume(v) ==
    /\ v.order \in Seq(Cnids) /\ IsInjective(v.order) /\ DOMAIN v.records \subseteq ToSet(v.order)
    /\ v.folders \subseteq DOMAIN v.records
    /\ DOMAIN v.records \union DOMAIN v.threads \subseteq Cnids
    /\ \A c \in DOMAIN v.records \ {Root} : v.records[c] \in [parent : Cnids, name : Names]
    /\ \A c \in DOMAIN v.threads : v.threads[c] \in [parent : Cnids, name : Names]

ASSUME PathWalkAssumption ==
    /\ \A v \in Volumes : IsVolume(v)
    /\ IsFiniteSet(Cnids) /\ Root \in Cnids
    /\ NoPath \notin Seq(Names) /\ Absent \notin Seq(Names) \union {NoPath}
    /\ Bounds \subseteq Nat \ {0} /\ MaxFaults \in Nat

VARIABLES vol, memo,
          phase,    \* "record", "climb", "keep" or "done"
          next,     \* the next record of the sweep
          rec,      \* the record whose parent is being climbed from
          cur,      \* where the climb is
          names, chain,  \* the names and the nodes passed, lowest first
          puts,     \* what the memo is still to keep: <<cnid, path>>
          path,     \* what the record is then reported with
          emitted,  \* what the callback was given: [cnid, path]
          outcome,  \* "none", "ok", "stopped" or "error"
          anomalies, faults

climb == <<rec, cur, names, chain>>
kept  == <<puts, path>>
vars  == <<vol, memo, phase, next, climb, kept, emitted, outcome, anomalies, faults>>

\* pathMemo.put: a known key keeps its place, the oldest ones are evicted.
PutPath(m, c, p) == Store(m, c, p)

Init ==
    /\ vol \in Volumes
    /\ \E max \in Bounds : memo = PutPath(Empty(Cnids, max), Root, <<>>)
    /\ phase = "record" /\ next = 1 /\ emitted = <<>> /\ outcome = "none"
    /\ rec = Nothing /\ cur = Root /\ names = <<>> /\ chain = <<>>
    /\ puts = <<>> /\ path = <<>> /\ anomalies = NoAnomalies /\ faults = 0

---------------------------------------------------------------------------
ReadFails == faults < MaxFaults /\ faults' = faults + 1

End(o) == phase' = "done" /\ outcome' = o /\ UNCHANGED <<memo, next, climb, kept, emitted>>

\* The climb is over: the memo is given what it found, then the record is
\* reported with p.
Keep(entries, p) ==
    /\ phase' = "keep" /\ puts' = entries /\ path' = p
    /\ cur' = Root /\ names' = <<>> /\ chain' = <<>>
    /\ UNCHANGED <<memo, next, rec, emitted, outcome>>

\* failPath: the failure is kept for every node of the climb, and the record is
\* reported without a path.
FailPath ==
    Keep(<<<<vol.records[rec].parent, NoPath>>>> \o [i \in DOMAIN chain |-> <<chain[i], NoPath>>],
         NoPath)

\* Mutant: what is above the climb is left out.
PathAt_NoBase(base, i) == Reverse(SubSeq(names, i, Len(names)))

\* Mutant: every node passed gets the path of the first.
PathAt_First(base, i) == base \o Reverse(names)

\* The path of the i-th node passed, once the climb has reached a known base.
PathAt(base, i) == base \o Reverse(SubSeq(names, i, Len(names)))

\* Mutant: the sweep does not add to the memo.
OwnPut_None(p) == <<>>

\* WalkPaths keeps the path of a folder it reports.
OwnPut(p) == IF rec \in vol.folders THEN <<<<rec, p>>>> ELSE <<>>

\* The end of pathUp: every node passed is kept, the highest first; then the
\* record itself.
Resolve(base) ==
    LET own == Append(PathAt(base, 1), vol.records[rec].name)
        up  == [i \in DOMAIN chain |-> <<chain[i], PathAt(base, i)>>]
    IN  Keep(Reverse(up) \o OwnPut(own), own)

PutNext ==
    /\ phase = "keep" /\ puts # <<>>
    /\ memo' = PutPath(memo, Head(puts)[1], Head(puts)[2]) /\ puts' = Tail(puts)
    /\ UNCHANGED <<vol, phase, next, climb, path, emitted, outcome, anomalies, faults>>

\* The callback takes a record and its path, and may end the walk.
Callback(c, p) ==
    /\ emitted' = Append(emitted, [cnid |-> c, path |-> p]) /\ next' = next + 1
    /\ \/ phase' = "record" /\ UNCHANGED outcome
       \/ phase' = "done" /\ outcome' = "stopped"

\* A record without a path is an anomaly, its parent what is remembered of it.
Emit ==
    /\ phase = "keep" /\ puts = <<>>
    /\ Callback(rec, path) /\ rec' = Nothing /\ path' = <<>>
    /\ anomalies' = IF path = NoPath THEN Note(anomalies, "walk_path", vol.records[rec].parent)
                                    ELSE anomalies
    /\ UNCHANGED <<vol, memo, cur, names, chain, puts, faults>>

\* A record that decodes: the root, one without a name, or one to climb from.
Decoded(c) ==
    \/ c = Root /\ Callback(c, <<>>) /\ UNCHANGED <<memo, climb, kept>>
    \/ /\ c # Root /\ vol.records[c].name = NoName /\ next' = next + 1
       /\ UNCHANGED <<memo, phase, climb, kept, emitted, outcome>>
    \/ /\ c # Root /\ vol.records[c].name # NoName
       /\ phase' = "climb" /\ rec' = c /\ cur' = vol.records[c].parent
       /\ UNCHANGED <<memo, next, names, chain, kept, emitted, outcome>>

\* One record of the sweep, or one that does not decode.  The leaf it is on may
\* fail to come.
Record ==
    /\ phase = "record" /\ UNCHANGED vol
    /\ \/ ReadFails /\ End("error") /\ UNCHANGED anomalies
       \/ /\ next > Len(vol.order)
          /\ End("ok") /\ UNCHANGED <<anomalies, faults>>
       \/ /\ next <= Len(vol.order) /\ vol.order[next] \notin DOMAIN vol.records
          /\ anomalies' = Note(anomalies, "catalog_decode", vol.order[next])
          /\ next' = next + 1
          /\ UNCHANGED <<memo, phase, climb, kept, emitted, outcome, faults>>
       \/ /\ next <= Len(vol.order) /\ vol.order[next] \in DOMAIN vol.records
          /\ Decoded(vol.order[next]) /\ UNCHANGED <<anomalies, faults>>

\* Mutant: the nodes passed are not looked at.
Looped_Never == FALSE

\* The climb is back where it has been.
Looped == cur \in ToSet(chain)

\* Where a link of the climb leads: a node with a name, passed on the way up.
Pass(link) ==
    \/ link.name = NoName /\ FailPath
    \/ /\ link.name # NoName
       /\ names' = Append(names, link.name) /\ chain' = Append(chain, cur)
       /\ cur' = link.parent
       /\ UNCHANGED <<memo, phase, next, rec, kept, emitted, outcome>>

\* Only the first node of a climb may do without a thread.
ByRecord == chain = <<>> /\ cur \in DOMAIN vol.records

\* Up one node, by its thread.
Up == \/ cur \in DOMAIN vol.threads /\ Pass(vol.threads[cur])
      \/ cur \notin DOMAIN vol.threads /\ ByRecord /\ Pass(vol.records[cur])
      \/ cur \notin DOMAIN vol.threads /\ ~ByRecord /\ FailPath

\* What the memo knows of where the climb is.
Remembered == cur # Root /\ Holds(memo, cur)

\* One iteration of the loop of pathUp.
Climb ==
    /\ phase = "climb" /\ UNCHANGED <<vol, anomalies>>
    /\ \/ cur = Root /\ Resolve(<<>>) /\ UNCHANGED faults
       \/ Remembered /\ memo.map[cur] # NoPath /\ Resolve(memo.map[cur]) /\ UNCHANGED faults
       \/ Remembered /\ memo.map[cur] = NoPath /\ FailPath /\ UNCHANGED faults
       \/ cur # Root /\ ~Remembered /\ Looped /\ FailPath /\ UNCHANGED faults
       \/ cur # Root /\ ~Remembered /\ ~Looped /\ ReadFails /\ FailPath
       \/ cur # Root /\ ~Remembered /\ ~Looped /\ Up /\ UNCHANGED faults

Next == Record \/ Climb \/ PutNext \/ Emit

Spec == Init /\ [][Next]_vars

---------------------------------------------------------------------------
(* PathForCNID *)

\* The climb by threads alone from a node, in at most so many steps.
Above[x \in (0..Cardinality(Cnids)) \X Cnids] ==
    LET n == x[1]
        c == x[2]
    IN  CASE c = Root -> <<>>
          [] c # Root /\ (n = 0 \/ c \notin DOMAIN vol.threads) -> NoPath
          [] OTHER -> LET up == Above[<<n - 1, vol.threads[c].parent>>]
                      IN  IF up = NoPath \/ vol.threads[c].name = NoName THEN NoPath
                          ELSE Append(up, vol.threads[c].name)

\* With as many steps as there are nodes.
ByThreads(c) == Above[<<Cardinality(Cnids), c>>]

\* pathUp without a memo: the first node may be passed by its record.
PathUp(c) ==
    CASE c \in DOMAIN vol.threads \union {Root} -> ByThreads(c)
      [] c \in DOMAIN vol.records \ (DOMAIN vol.threads \union {Root}) ->
           LET up == ByThreads(vol.records[c].parent)
           IN  IF up = NoPath \/ vol.records[c].name = NoName THEN NoPath
               ELSE Append(up, vol.records[c].name)
      [] OTHER -> NoPath

PathForCNID(c) == IF c = Root \/ c \in DOMAIN vol.records THEN PathUp(c) ELSE NoPath

---------------------------------------------------------------------------
(* Properties *)

\* What a volume says about where c is: its thread, or its record.
Says(c) == {vol.threads[x] : x \in {c} \intersect DOMAIN vol.threads}
           \union {vol.records[x] : x \in {c} \intersect DOMAIN vol.records}

\* The nodes at which p can end, each of its names said by the volume.
Ends(p) ==
    LET ends[i \in 0..Len(p)] ==
            IF i = 0 THEN {Root}
            ELSE {c \in Cnids : \E l \in Says(c) : l.parent \in ends[i-1] /\ l.name = p[i]}
    IN  ends[Len(p)]

\* "Inventing a path for it would be a claim the volume does not support"
\* (paths.go:208-212): whatever is damaged, unreadable, remembered or evicted,
\* a path that is reported is a chain of links found on the volume, from the
\* root to the record.
NothingInvented ==
    \A i \in DOMAIN emitted : emitted[i].path # NoPath => emitted[i].cnid \in Ends(emitted[i].path)

\* Threads and records tell the same, a parent that is there is a folder, and
\* every folder has its thread (TN1150); a file of a classic volume may do without.
Consistent ==
    /\ \A c \in DOMAIN vol.records \ {Root} :
          vol.records[c].name # NoName /\ (c \in DOMAIN vol.threads => vol.threads[c] = vol.records[c])
    /\ \A c \in DOMAIN vol.records \ {Root} :
          vol.records[c].parent \in DOMAIN vol.records => vol.records[c].parent \in vol.folders
    /\ vol.folders \ {Root} \subseteq DOMAIN vol.threads
    /\ DOMAIN vol.threads \subseteq DOMAIN vol.records

\* On a volume whose threads and records tell the same, cycles and orphans
\* included, the sweep reports what PathForCNID would, whatever its memo holds
\* or has evicted: two ways to a path agree (paths.go:86-160, catalog.go:900).
AgreesWithPathForCNID ==
    Consistent /\ faults = 0 =>
        \A i \in DOMAIN emitted : emitted[i].path = PathForCNID(emitted[i].cnid)

\* A climb passes no node twice, so it ends on every volume, cycles of parents
\* included (paths.go:91-109).
ClimbBounded == IsInjective(chain)

\* What is inside a folder that was reported at a path is reported below it.
ChildrenFollow ==
    \A i, j \in DOMAIN emitted :
        LET c == emitted[i]
            d == emitted[j]
        IN  i < j /\ c.cnid \in vol.folders /\ c.path # NoPath /\ d.cnid # Root
                /\ vol.records[d.cnid].parent = c.cnid
            => d.path = Append(c.path, vol.records[d.cnid].name)

\* With a memo that holds every folder that is so on any volume, whatever is
\* damaged and whichever reads fail: the walk and not the thread is what a
\* folder's contents are placed by.
ChildrenFollowUnevicted == memo.max >= Cardinality(Cnids) => ChildrenFollow

=============================================================================
