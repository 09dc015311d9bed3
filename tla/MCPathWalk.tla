----------------------------- MODULE MCPathWalk -----------------------------
(* Three folders and a file, each with any parent: the root, a folder, the  *)
(* folder itself or a node that does not exist.  At most one folder's thread*)
(* is missing, stale or without a name; the file may have none.  Reports of *)
(* volumes with a record that does not decode, folder 4 being the system's. *)
EXTENDS Report, TLC

Folders == {3, 4, 5}
File    == 6
Nodes   == Folders \union {File}
Missing == 9
Link(parent, name) == [parent |-> parent, name |-> name]

\* Catalog key order: by parent, then by name; a name is the CNID.
Before(recs, c, d) ==
    recs[c].parent < recs[d].parent \/ (recs[c].parent = recs[d].parent /\ c < d)

Volume(parent, unnamed, damage, filed) ==
    LET recs == [c \in Nodes \union {Root} |->
                    IF c = Root THEN Link(1, NoName)
                    ELSE Link(parent[c], IF c = unnamed THEN NoName ELSE c)]
        threads == [c \in (Folders \union (IF filed THEN {File} ELSE {}))
                            \ (IF damage[2] = "missing" THEN {damage[1]} ELSE {}) |->
                       CASE c = damage[1] /\ damage[2] = "stale"  -> Link(Root, c)
                         [] c = damage[1] /\ damage[2] = "unnamed" -> Link(parent[c], NoName)
                         [] OTHER -> Link(parent[c], c)]
    IN  [records |-> recs, threads |-> threads, folders |-> Folders \union {Root},
         order |-> SetToSortSeq(DOMAIN recs, LAMBDA c, d : Before(recs, c, d))]

Parents == [Nodes -> {Root, 3, 4, 5, Missing}]
NoDamage == <<Missing, "none">>
Damages  == Folders \X {"missing", "stale", "unnamed"}

Sweeps ==
    {Volume(p, Missing, NoDamage, filed) : p \in Parents, filed \in BOOLEAN}
    \union {Volume(p, Missing, d, TRUE) : p \in [Nodes -> {Root, 3, 4, 5}], d \in Damages}
    \union {Volume(p, c, NoDamage, TRUE) : p \in [Nodes -> {Root, 4, 5}], c \in {3, File}}

\* One more record, which does not decode.
WithDamaged(v) == [v EXCEPT !.order = InsertAt(@, 3, Missing)]
Reported ==
    {WithDamaged(Volume(p, Missing, NoDamage, TRUE)) : p \in [Nodes -> {Root, 4, Missing}]}

MCVolumes == Sweeps \union Reported
MCOptionsFor(v) ==
    {Plain} \union (IF v \notin Reported THEN {}
                    ELSE [files : {TRUE}, max : {-1, 0, 1, 2}, system : BOOLEAN]
                         \union [files : {FALSE}, max : {0}, system : {FALSE}])
=============================================================================
