---------------------------- MODULE MCHardLinks ----------------------------
(* Small volumes for HardLinks.  Stub 1 links to a file and stub 2 to a     *)
(* directory, both by the number 3; a damaged stub 1 links by its own CNID. *)
(* Either private store may be missing or not know the number, the inode may*)
(* or may not have it as its CNID, and an unrelated record may have it.     *)
EXTENDS HardLinks, TLC

CONSTANTS c1, c2

MCCallers == {c1, c2}
MCCnids   == 1..5
Stub(cnid, number, store) == [cnid |-> cnid, number |-> number, store |-> store]
MCLinks   == {Stub(1, 3, "fileLinks"), Stub(2, 3, "dirLinks"), Stub(1, 1, "fileLinks")}

Names(fileInodes, dirInodes) == [fileLinks |-> fileInodes, dirLinks |-> dirInodes]

MCVolumes ==
    {v \in [dirs : SUBSET Stores,
            inodes : {Names(f, d) : f \in {<<>>, 3 :> 4, 3 :> 3, 1 :> 4}, d \in {<<>>, 3 :> 5}},
            records : {{1, 2, 4, 5}, {1, 2, 3, 4, 5}}] :
        IsVolume(v) /\ \A s \in Stores \ v.dirs : v.inodes[s] = <<>>}

Symmetry == Permutations(MCCallers)
============================================================================
