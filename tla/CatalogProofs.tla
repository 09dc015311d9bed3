-------------------------- MODULE CatalogProofs --------------------------
(***************************************************************************)
(* Hard-link resolution is right for any number of callers and any volume: *)
(* a remembered directory is the right one whatever reads fail, and while  *)
(* none fails every answer is the inode the stub names (IInv).             *)
(*                                                                         *)
(* For any catalog, whatever queries degrade, fail or lose: a CNID leads to*)
(* a record that has it, or one the walk of the tree does not reach; a     *)
(* listing has every child that the search sees or that the walk does; and *)
(* a path ends where the listings on the way lead.  The invariant (CatInv) *)
(* says where a call is and what it holds there: a listing the children    *)
(* before pos (OnList), a path the folders that listings lead to (OnPath). *)
(* It rests on what sorting the entries does (SortedRight) and on a name   *)
(* standing for one child at most (NamedIsOne).                            *)
(***************************************************************************)
EXTENDS HardLinks, CatalogLookup, WellFoundedInduction, FiniteSetTheorems, TLAPS

\* While no read has failed, "not there" is the truth: in privDirs, in the
\* hand of a caller that searched, and of one about to look the CNID up.
AbsentIsRight ==
    readFaults = 0 =>
        /\ \A s \in Stores : privDirs[s] = Absent => s \notin disk.dirs
        /\ \A c \in Callers : stage[c] = "remember" /\ via[c] = Absent =>
                                 link[c].store \notin disk.dirs
        /\ \A c \in Callers : stage[c] = "cnid" =>
                ~(link[c].store \in disk.dirs /\ link[c].number \in DOMAIN disk.inodes[link[c].store])

\* A caller between check and answer follows a stub worth following.
Following == \A c \in Callers : stage[c] # "idle" => ~SelfNumbered(link[c])

IInv == LinkTypeOK /\ FoundIsRight /\ AbsentIsRight /\ Following /\ AnswersRight

LEMMA Vol == ASSUME disk \in LinkVolumes
             PROVE  /\ disk.dirs \subseteq Stores /\ disk.records \subseteq Cnids
                    /\ \A s \in Stores : \A n \in DOMAIN disk.inodes[s] : disk.inodes[s][n] \in disk.records
  BY HardLinksAssumption DEF IsVolume

LEMMA Stubs == \A l \in Links : l.cnid \in Cnids /\ l.number \in Cnids /\ l.store \in Stores
  BY HardLinksAssumption

\* A read, failing or not, leaves the counters well typed.
LEMMA ReadTypes ==
    ASSUME LinkTypeOK, NEW c \in Callers, ReadOK(c) \/ ReadFails(c)
    PROVE  readFaults' \in 0..MaxReadFaults /\ hit' \in [Callers -> BOOLEAN]
<1>1. readFaults' \in 0..MaxReadFaults
  BY HardLinksAssumption DEF LinkTypeOK, ReadOK, ReadFails
<1>2. hit' \in [Callers -> BOOLEAN]
  BY DEF LinkTypeOK, ReadOK, ReadFails
<1>. QED BY <1>1, <1>2

LEMMA InitInv == LinkInit => IInv
  BY HardLinksAssumption DEF LinkInit, IInv, LinkTypeOK, FoundIsRight, AbsentIsRight, Following,
     AnswersRight, Settled, Stores

LEMMA OpenInv == ASSUME IInv, NEW c \in Callers, NEW l \in Links, Open(c, l) PROVE IInv'
<1>. USE Stubs, HardLinksAssumption DEF IInv, Open, Move
<1>1. LinkTypeOK'
  BY DEF LinkTypeOK, Settled
<1>2. FoundIsRight'
  BY DEF LinkTypeOK, FoundIsRight
<1>3. AbsentIsRight'
  BY DEF LinkTypeOK, AbsentIsRight
<1>4. Following'
  BY DEF LinkTypeOK, Following, SelfNumbered
<1>5. AnswersRight'
  BY DEF LinkTypeOK, AnswersRight, Settled, SelfNumbered, Inode
<1>. QED BY <1>1, <1>2, <1>3, <1>4, <1>5

LEMMA CheckStoreInv == ASSUME IInv, NEW c \in Callers, CheckStore(c) PROVE IInv'
<1>. USE Stubs, HardLinksAssumption DEF IInv, CheckStore, Move, After
<1>0. link[c] \in Links
  BY DEF LinkTypeOK
<1>1. LinkTypeOK'
  BY <1>0 DEF LinkTypeOK, Settled
<1>2. FoundIsRight'
  BY <1>0 DEF LinkTypeOK, FoundIsRight
<1>3. AbsentIsRight'
  BY <1>0 DEF LinkTypeOK, AbsentIsRight
<1>4. Following'
  BY <1>0 DEF LinkTypeOK, Following, SelfNumbered
<1>5. AnswersRight'
  BY <1>0 DEF LinkTypeOK, AnswersRight, Settled, SelfNumbered, Inode
<1>. QED BY <1>1, <1>2, <1>3, <1>4, <1>5

LEMMA FindPrivateDirInv == ASSUME IInv, NEW c \in Callers, FindPrivateDir(c) PROVE IInv'
<1>. USE Stubs, HardLinksAssumption DEF IInv, FindPrivateDir, Move, Matches, ReadOK, ReadFails
<1>0. link[c] \in Links /\ disk.dirs \subseteq Stores
  BY Vol DEF LinkTypeOK
<1>a. /\ stage' = [stage EXCEPT ![c] = "remember"] /\ stage[c] = "find"
      /\ \E d \in Stores \union {Absent} : via' = [via EXCEPT ![c] = d]
      /\ UNCHANGED <<disk, privDirs, link, answer>>
  BY <1>0
<1>b. readFaults' \in 0..MaxReadFaults /\ hit' \in [Callers -> BOOLEAN]
  <2>1. ReadOK(c) \/ ReadFails(c)
    BY DEF FindPrivateDir
  <2>. QED BY <2>1, ReadTypes DEF IInv
<1>1. LinkTypeOK'
  <2>. HIDE DEF FindPrivateDir, ReadOK, ReadFails
  <2>1. via' \in [Callers -> Stores \union {Absent}]
    BY <1>a DEF LinkTypeOK
  <2>2. stage' \in [Callers -> {"idle", "check", "find", "remember", "inode", "cnid"}]
    BY <1>a DEF LinkTypeOK
  <2>3. \A d \in Callers : /\ stage'[d] # "idle" => link'[d] # Nothing
                           /\ stage'[d] = "inode" => via'[d] # Absent
                           /\ Settled(d)' <=> answer'[d] # Nothing
    BY <1>a, <2>2 DEF LinkTypeOK, Settled
  <2>. QED BY <1>a, <1>b, <2>1, <2>2, <2>3 DEF LinkTypeOK
<1>2. FoundIsRight'
  BY <1>0 DEF LinkTypeOK, FoundIsRight, Stores
<1>3. AbsentIsRight'
  BY <1>0 DEF LinkTypeOK, AbsentIsRight, Stores
<1>4. Following'
  BY <1>0 DEF LinkTypeOK, Following, SelfNumbered
<1>5. AnswersRight'
  BY <1>0 DEF LinkTypeOK, AnswersRight, Settled, SelfNumbered, Inode
<1>. QED BY <1>1, <1>2, <1>3, <1>4, <1>5

LEMMA RememberInv == ASSUME IInv, NEW c \in Callers, Remember(c) PROVE IInv'
<1>. USE Stubs, HardLinksAssumption DEF IInv, Remember, Move, After, Remembered
<1>0. link[c] \in Links
  BY DEF LinkTypeOK
<1>1. LinkTypeOK'
  BY <1>0 DEF LinkTypeOK, Settled
<1>2. FoundIsRight'
  BY <1>0 DEF LinkTypeOK, FoundIsRight
<1>3. AbsentIsRight'
  BY <1>0 DEF LinkTypeOK, AbsentIsRight
<1>4. Following'
  BY <1>0 DEF LinkTypeOK, Following, SelfNumbered
<1>5. AnswersRight'
  BY <1>0 DEF LinkTypeOK, AnswersRight, Settled, SelfNumbered, Inode
<1>. QED BY <1>1, <1>2, <1>3, <1>4, <1>5

LEMMA FindInodeInv == ASSUME IInv, NEW c \in Callers, FindInode(c) PROVE IInv'
<1>. USE Stubs, HardLinksAssumption DEF IInv, FindInode, Move, Answer, ReadOK, ReadFails
<1>0. /\ link[c] \in Links /\ via[c] = link[c].store /\ via[c] \in Stores /\ via[c] \in disk.dirs
      /\ \A n \in DOMAIN disk.inodes[via[c]] : disk.inodes[via[c]][n] \in Cnids
  BY Vol DEF LinkTypeOK, FoundIsRight
<1>1. LinkTypeOK'
  <2>1. readFaults' \in 0..MaxReadFaults /\ hit' \in [Callers -> BOOLEAN]
    <3>1. ReadOK(c) \/ ReadFails(c)
      BY DEF FindInode
    <3>. QED BY <3>1, ReadTypes
  <2>2. \/ /\ stage' = [stage EXCEPT ![c] = "idle"]
           /\ \E a \in Cnids : answer' = [answer EXCEPT ![c] = a]
        \/ stage' = [stage EXCEPT ![c] = "cnid"] /\ answer' = answer
    BY <1>0
  <2>3. stage[c] = "inode" /\ UNCHANGED <<disk, privDirs, link, via>>
    OBVIOUS
  <2>. HIDE DEF FindInode, ReadOK, ReadFails
  <2>4. stage' \in [Callers -> {"idle", "check", "find", "remember", "inode", "cnid"}]
        /\ answer' \in [Callers -> Cnids \union {NotFound, Nothing}]
    BY <2>2 DEF LinkTypeOK
  <2>5. \A d \in Callers : /\ stage'[d] # "idle" => link'[d] # Nothing
                           /\ stage'[d] = "inode" => via'[d] # Absent
                           /\ Settled(d)' <=> answer'[d] # Nothing
    BY <1>0, <2>2, <2>3 DEF LinkTypeOK, Settled
  <2>. QED BY <2>1, <2>3, <2>4, <2>5 DEF LinkTypeOK
<1>2. FoundIsRight'
  BY <1>0 DEF LinkTypeOK, FoundIsRight
<1>3. AbsentIsRight'
  BY <1>0 DEF LinkTypeOK, AbsentIsRight
<1>4. Following'
  BY <1>0 DEF LinkTypeOK, Following, SelfNumbered
<1>5. AnswersRight'
  BY <1>0 DEF LinkTypeOK, AnswersRight, Settled, SelfNumbered, Inode
<1>. QED BY <1>1, <1>2, <1>3, <1>4, <1>5

LEMMA LookupCNIDInv == ASSUME IInv, NEW c \in Callers, LookupCNID(c) PROVE IInv'
<1>. USE Stubs, HardLinksAssumption DEF IInv, LookupCNID, Move, Answer, ReadOK, ReadFails
<1>0. link[c] \in Links /\ disk.records \subseteq Cnids
  BY Vol DEF LinkTypeOK
<1>1. LinkTypeOK'
  <2>1. readFaults' \in 0..MaxReadFaults /\ hit' \in [Callers -> BOOLEAN]
    <3>1. ReadOK(c) \/ ReadFails(c)
      BY DEF LookupCNID
    <3>. QED BY <3>1, ReadTypes
  <2>2. /\ stage' = [stage EXCEPT ![c] = "idle"] /\ stage[c] = "cnid"
        /\ \E a \in Cnids \union {NotFound} : answer' = [answer EXCEPT ![c] = a]
        /\ UNCHANGED <<disk, privDirs, link, via>>
    BY <1>0
  <2>. HIDE DEF LookupCNID, ReadOK, ReadFails
  <2>4. stage' \in [Callers -> {"idle", "check", "find", "remember", "inode", "cnid"}]
        /\ answer' \in [Callers -> Cnids \union {NotFound, Nothing}]
    BY <2>2 DEF LinkTypeOK
  <2>5. \A d \in Callers : /\ stage'[d] # "idle" => link'[d] # Nothing
                           /\ stage'[d] = "inode" => via'[d] # Absent
                           /\ Settled(d)' <=> answer'[d] # Nothing
    BY <1>0, <2>2 DEF LinkTypeOK, Settled
  <2>. QED BY <2>1, <2>2, <2>4, <2>5 DEF LinkTypeOK
<1>2. FoundIsRight'
  BY <1>0 DEF LinkTypeOK, FoundIsRight
<1>3. AbsentIsRight'
  BY <1>0 DEF LinkTypeOK, AbsentIsRight
<1>4. Following'
  BY <1>0 DEF LinkTypeOK, Following, SelfNumbered
<1>5. AnswersRight'
  BY <1>0 DEF LinkTypeOK, AbsentIsRight, AnswersRight, Settled, SelfNumbered, Inode
<1>. QED BY <1>1, <1>2, <1>3, <1>4, <1>5

LEMMA StepInv == IInv /\ [LinkNext]_linkVars => IInv'
<1>. SUFFICES ASSUME IInv, [LinkNext]_linkVars PROVE IInv'
  OBVIOUS
<1>1. CASE UNCHANGED linkVars
  BY <1>1 DEF linkVars, caller, IInv, LinkTypeOK, FoundIsRight, AbsentIsRight, Following, AnswersRight,
     Settled, SelfNumbered, Inode
<1>2. ASSUME NEW c \in Callers, Step(c) PROVE IInv'
  BY <1>2, OpenInv, CheckStoreInv, FindPrivateDirInv, RememberInv, FindInodeInv, LookupCNIDInv
     DEF Step
<1>. QED BY <1>1, <1>2 DEF LinkNext

\* The state of every caller and of privDirs keeps the shape the code relies on.
THEOREM TypeCorrect == LinkSpec => []LinkTypeOK
<1>1. IInv => LinkTypeOK
  BY DEF IInv
<1>. QED BY <1>1, InitInv, StepInv, PTL DEF LinkSpec

\* A remembered private directory is the right one, however callers race and
\* whatever reads fail (privateDirCNID, findPrivateDir).
THEOREM DirectoriesAreRight == LinkSpec => []FoundIsRight
<1>1. IInv => FoundIsRight
  BY DEF IInv
<1>. QED BY <1>1, InitInv, StepInv, PTL DEF LinkSpec

\* While no read fails, every resolved stub leads to the inode it names
\* (resolveHardLinkRecord, lookupHardLinkInode).
THEOREM ResolutionIsRight == LinkSpec => []AnswersRight
<1>1. IInv => AnswersRight
  BY DEF IInv
<1>. QED BY <1>1, InitInv, StepInv, PTL DEF LinkSpec

---------------------------------------------------------------------------
(* Lookups and listings. *)

LEMMA Least ==
    ASSUME NEW T \in SUBSET Nat, T # {}
    PROVE  \E x \in T : \A y \in T : x <= y
<1>1. PICK x \in T : \A y \in T : ~ (<<y, x>> \in OpToRel(<,Nat))
  BY NatLessThanWellFounded, WFMin
<1>2. ASSUME NEW y \in T, y < x PROVE FALSE
  <2>1. <<y, x>> \in OpToRel(<,Nat)
    BY <1>2 DEF OpToRel
  <2>. QED BY <1>1, <2>1
<1>. QED BY <1>2

LEMMA LeastIn ==
    ASSUME NEW T \in SUBSET Nat, T # {}
    PROVE  Min(T) \in T /\ \A y \in T : Min(T) <= y
BY Least DEF Min

---------------------------------------------------------------------------
(* Records. *)

LEMMA CatalogTypes ==
    ASSUME vol \in Volumes
    PROVE  /\ Len(vol.recs) \in Nat /\ Recs = 1..Len(vol.recs) /\ Recs \subseteq Nat /\ 0 \notin Recs
           /\ \A i \in Recs : /\ Rec(i).cnid \in Nat /\ Rec(i).parent \in Nat /\ Rec(i).up \in Nat
                              /\ Rec(i).type \in Types
           /\ vol.searched \subseteq Recs /\ vol.walked \subseteq Recs
<1>1. IsCatalog(vol)
  BY CatalogAssumption
<1>. DEFINE S == [parent : Nat, name : STRING, type : Types, cnid : Nat, up : Nat,
                  empty : BOOLEAN, link : Nat]
<1>2. vol.recs \in Seq(S)
  BY <1>1 DEF IsCatalog
<1>3. \A r \in S : r.cnid \in Nat /\ r.parent \in Nat /\ r.up \in Nat /\ r.type \in Types
  OBVIOUS
<1>. HIDE DEF S
<1>4. Len(vol.recs) \in Nat /\ Recs = 1..Len(vol.recs) /\ \A i \in Recs : vol.recs[i] \in S
  BY <1>2 DEF Recs
<1>5. vol.searched \subseteq Recs /\ vol.walked \subseteq Recs
  BY <1>1 DEF IsCatalog, Recs
<1>. QED BY <1>3, <1>4, <1>5 DEF Rec

\* One of some records is picked, unless there are none.
LEMMA PickIn ==
    ASSUME vol \in Volumes, NEW s \in SUBSET Recs
    PROVE  /\ s # {} => Pick(s) \in s /\ Pick(s) # 0
           /\ s = {} => Pick(s) = 0
<1>. DEFINE real == {i \in s : ~Placeholder(i)}
<1>1. s \subseteq Nat /\ real \subseteq s /\ 0 \notin s
  BY CatalogTypes
<1>2. Pick(s) = IF real # {} THEN Min(real) ELSE IF s # {} THEN Min(s) ELSE 0
  BY DEF Pick
<1>. HIDE DEF real
<1>3. real # {} => Min(real) \in real
  BY <1>1, LeastIn
<1>4. s # {} => Min(s) \in s
  BY <1>1, LeastIn
<1>. QED BY <1>1, <1>2, <1>3, <1>4

\* A query for one of some records ends with one of them, or with none if not all
\* queries come by one.
LEMMA PicksIn ==
    ASSUME vol \in Volumes, NEW s \in SUBSET Recs, NEW i \in Picks(s)
    PROVE  /\ i # 0 => i \in s
           /\ i = 0 => s \intersect Plain = {}
<1>. DEFINE found  == s \intersect vol.searched
            walked == s \intersect vol.walked
<1>1. found \in SUBSET Recs /\ walked \in SUBSET Recs /\ found \subseteq s /\ walked \subseteq s
      /\ s \intersect Plain \subseteq found /\ s \intersect Plain \subseteq walked
  BY DEF Plain
<1>2. i = Pick(found) \/ i = Pick(walked) \/ (found # {} /\ i = Min(found))
  BY DEF Picks
<1>. HIDE DEF found, walked
<1>3. found # {} => Min(found) \in found
  <2>1. found \in SUBSET Nat
    BY <1>1, CatalogTypes
  <2>. QED BY <2>1, LeastIn
<1>4. 0 \notin found
  BY <1>1, CatalogTypes
<1>5. CASE i = Pick(found)
  BY <1>1, <1>5, PickIn
<1>6. CASE i = Pick(walked)
  BY <1>1, <1>6, PickIn
<1>7. CASE found # {} /\ i = Min(found)
  BY <1>1, <1>3, <1>4, <1>7
<1>. QED BY <1>2, <1>5, <1>6, <1>7

\* What a record resolves to, when it does: itself, or a record with the CNID of
\* its inode.
LEMMA TargetIn ==
    ASSUME vol \in Volumes, NEW i \in Recs, Resolves(i)
    PROVE  /\ Target(i) \in Recs /\ Resolved(i).cnid \in Nat /\ Resolved(i).name = Rec(i).name
           /\ Rec(i).link = 0 => Resolved(i).cnid = Rec(i).cnid
<1>1. Target(i) \in Recs
  <2>1. CASE Rec(i).link = 0
    BY <2>1 DEF Target
  <2>2. CASE Rec(i).link # 0
    <3>1. Having(Rec(i).link) \in SUBSET Recs
      BY DEF Having
    <3>2. Target(i) = Pick(Having(Rec(i).link)) /\ Target(i) # 0
      BY <2>2 DEF Target, Resolves
    <3>. QED BY <3>1, <3>2, PickIn
  <2>. QED BY <2>1, <2>2
<1>2. Rec(Target(i)).cnid \in Nat
  BY <1>1, CatalogTypes
<1>3. Rec(i).link = 0 => Target(i) = i
  BY DEF Target
<1>. QED BY <1>1, <1>2, <1>3 DEF Resolved

\* Sure and Certain once f reads have failed.
SureAt(i, f) == Rec(i).link = 0 \/ (Target(i) \in Plain /\ f = 0)
CertainAt(f) == {i \in Plain : SureAt(i, f)}

LEMMA SureNow == (\A i : Sure(i) <=> SureAt(i, faults)) /\ Certain = CertainAt(faults)
BY DEF Sure, Certain, SureAt, CertainAt

LEMMA CertainIn ==
    ASSUME vol \in Volumes, NEW f
    PROVE  CertainAt(f) \subseteq Plain /\ Plain \subseteq Recs
BY CatalogTypes DEF CertainAt, Plain

\* What depends on the volume alone stays.
LEMMA CatalogStays ==
    ASSUME vol' = vol
    PROVE  /\ Recs' = Recs
           /\ \A i : Rec(i)' = Rec(i)
           /\ \A c : Having(c)' = Having(c)
           /\ \A i : Target(i)' = Target(i)
           /\ \A i : Resolves(i)' <=> Resolves(i)
           /\ \A i : Resolved(i)' = Resolved(i)
           /\ \A i : Listed(i)' <=> Listed(i)
           /\ \A d, s : Children(d, s)' = Children(d, s)
           /\ \A d, s : Listing(d, s)' = Listing(d, s)
           /\ \A p, s : FollowTo(p, s)' = FollowTo(p, s)
           /\ \A p, s : Follow(p, s)' = Follow(p, s)
           /\ \A f : CertainAt(f)' = CertainAt(f)
           /\ \A i, f : SureAt(i, f)' <=> SureAt(i, f)
           /\ NamesDistinct' <=> NamesDistinct
           /\ \A p : Spoken(p)' <=> Spoken(p)
<1>1. Recs' = Recs /\ \A i : Rec(i)' = Rec(i)
  BY DEF Recs, Rec
<1>2. \A c : Having(c)' = Having(c)
  BY <1>1 DEF Having, IsNode
<1>3. \A s : Pick(s)' = Pick(s)
  BY <1>1 DEF Pick, Placeholder
<1>4. \A i : Target(i)' = Target(i)
  BY <1>1, <1>2, <1>3 DEF Target
<1>5. \A i : (Resolves(i)' <=> Resolves(i)) /\ Resolved(i)' = Resolved(i)
  BY <1>1, <1>4 DEF Resolves, Resolved
<1>6. \A i : Listed(i)' <=> Listed(i)
  BY <1>1 DEF Listed, IsNode
<1>7. \A d, s : Children(d, s)' = Children(d, s) /\ Listing(d, s)' = Listing(d, s)
  BY <1>1, <1>5, <1>6 DEF Children, Listing
<1>8. \A m, n : Same(m, n)' <=> Same(m, n)
  BY DEF Same
<1>9. \A p, s : FollowTo(p, s)' = FollowTo(p, s)
  <2>1. \A ds, n, s : Onward(ds, n, s)' = Onward(ds, n, s)
    BY <1>7, <1>8 DEF Onward
  <2>2. \A s : {Rec(i).cnid : i \in Having(Root) \intersect s}' = {Rec(i).cnid : i \in Having(Root) \intersect s}
    BY <1>1, <1>2
  <2>. QED BY <2>1, <2>2, Zenon DEF FollowTo
<1>10. \A p, s : Follow(p, s)' = Follow(p, s)
  BY <1>9 DEF Follow
<1>11. NamesDistinct' <=> NamesDistinct
  BY <1>1, <1>2, <1>8 DEF NamesDistinct, IsNode
<1>12. \A p : Spoken(p)' <=> Spoken(p)
  BY <1>8 DEF Spoken
<1>13. Plain' = Plain
  BY DEF Plain
<1>14. (\A i, f : SureAt(i, f)' <=> SureAt(i, f)) /\ \A f : CertainAt(f)' = CertainAt(f)
  BY <1>1, <1>4, <1>13 DEF SureAt, CertainAt
<1>. QED BY <1>1, <1>2, <1>4, <1>5, <1>6, <1>7, <1>9, <1>10, <1>11, <1>12, <1>14

LEMMA SureThen ==
    ASSUME vol' = vol
    PROVE  (\A i : Sure(i)' <=> SureAt(i, faults')) /\ Certain' = CertainAt(faults')
<1>1. Plain' = Plain
  BY DEF Plain
<1>2. (\A i : Rec(i)' = Rec(i)) /\ \A i : Target(i)' = Target(i)
  BY CatalogStays
<1>3. \A i : Sure(i)' <=> SureAt(i, faults')
  BY <1>1, <1>2 DEF Sure, SureAt
<1>. QED BY <1>1, <1>3 DEF Certain, CertainAt

\* What a recursive definition with these steps defines.
Unfolds(f, n, base, step) == f[0] = base /\ \A i \in 1..n : f[i] = step[i][f[i-1]]

\* There is such a function.
LEMMA RecursionExists ==
    ASSUME NEW n \in Nat, NEW S, NEW base \in S, NEW step \in [1..n -> [S -> S]]
    PROVE  \E f \in [0..n -> S] : Unfolds(f, n, base, step)
<1>. DEFINE Good(k) == \E f \in [0..k -> S] : Unfolds(f, k, base, step)
            T == {k \in 0..n : ~Good(k)}
<1>. SUFFICES ASSUME T # {} PROVE FALSE
  <2>. HIDE DEF Good
  <2>1. n \in 0..n /\ n \notin T => Good(n)
    OBVIOUS
  <2>. QED BY <2>1 DEF Good
<1>1. PICK k \in T : \A y \in T : k <= y
  <2>. HIDE DEF Good
  <2>1. T \in SUBSET Nat
    OBVIOUS
  <2>. QED BY <2>1, Least
<1>2. k # 0
  <2>1. [i \in 0..0 |-> base] \in [0..0 -> S] /\ Unfolds([i \in 0..0 |-> base], 0, base, step)
    BY DEF Unfolds
  <2>2. Good(0)
    BY <2>1
  <2>. HIDE DEF Good
  <2>. QED BY <1>1, <2>2
<1>3. k \in 1..n /\ Good(k - 1)
  <2>. HIDE DEF Good
  <2>1. k \in 0..n /\ k - 1 \in 0..n
    BY <1>1, <1>2
  <2>2. k - 1 \notin T
    BY <1>1, <2>1
  <2>. QED BY <1>2, <2>1, <2>2
<1>4. PICK f \in [0..(k-1) -> S] : Unfolds(f, k - 1, base, step)
  BY <1>3
<1>. DEFINE x == step[k][f[k-1]]
            g == [i \in 0..k |-> IF i = k THEN x ELSE f[i]]
<1>5. f[k-1] \in S /\ x \in S
  <2>1. f[k-1] \in S
    BY <1>3
  <2>. QED BY <1>3, <2>1
<1>6. g \in [0..k -> S]
  BY <1>3, <1>5
<1>7. Unfolds(g, k, base, step)
  <2>1. g[0] = base
    BY <1>3, <1>4 DEF Unfolds
  <2>2. ASSUME NEW i \in 1..k PROVE g[i] = step[i][g[i-1]]
    <3>1. CASE i = k
      <4>1. g[i-1] = f[k-1]
        BY <1>3, <3>1
      <4>. QED BY <1>3, <3>1, <4>1
    <3>2. CASE i # k
      <4>1. i \in 1..k-1 /\ g[i] = f[i] /\ g[i-1] = f[i-1]
        BY <1>3, <3>2
      <4>. QED BY <1>4, <4>1 DEF Unfolds
    <3>. QED BY <3>1, <3>2
  <2>. QED BY <2>1, <2>2 DEF Unfolds
<1>8. Good(k)
  BY <1>6, <1>7
<1>. HIDE DEF Good
<1>. QED BY <1>1, <1>8


---------------------------------------------------------------------------
(* Sorting. *)

\* Some finitely many have one that no other is ahead of.
LEMMA ForemostExists ==
    ASSUME NEW X, IsFiniteSet(X), X # {}, NEW R,
           \A a \in X : <<a, a>> \notin R,
           \A a, b, c \in X : <<a, b>> \in R /\ <<b, c>> \in R => <<a, c>> \in R
    PROVE  \E m \in X : \A a \in X : <<a, m>> \notin R
<1>. DEFINE Has(Y) == \E m \in Y : \A a \in Y : <<a, m>> \notin R
            T == {k \in Nat : \E Y \in SUBSET X : Y # {} /\ Cardinality(Y) = k /\ ~Has(Y)}
<1>1. \A Y \in SUBSET X : IsFiniteSet(Y) /\ Cardinality(Y) \in Nat
  BY FS_Subset, FS_CardinalityType
<1>. SUFFICES ASSUME ~Has(X) PROVE FALSE
  OBVIOUS
<1>2. T # {}
  <2>. HIDE DEF Has
  <2>1. X \in SUBSET X /\ Cardinality(X) \in Nat
    BY <1>1
  <2>2. Cardinality(X) \in T
    BY <2>1
  <2>. QED BY <2>2
<1>3. PICK k \in T : \A y \in T : k <= y
  <2>. HIDE DEF Has
  <2>1. T \in SUBSET Nat
    OBVIOUS
  <2>. QED BY <1>2, <2>1, Least
<1>4. PICK Y \in SUBSET X : Y # {} /\ Cardinality(Y) = k /\ ~Has(Y)
  <2>. HIDE DEF Has
  <2>. QED BY <1>3
<1>5. PICK x \in Y : TRUE
  BY <1>4
<1>6. Y \ {x} # {}
  <2>. SUFFICES ASSUME Y \ {x} = {} PROVE FALSE
    OBVIOUS
  <2>1. Y = {x} /\ <<x, x>> \notin R
    BY <1>5
  <2>. QED BY <1>4, <2>1
<1>7. Has(Y \ {x})
  <2>1. Cardinality(Y \ {x}) = k - 1 /\ k - 1 \in Nat
    <3>1. Cardinality(Y \ {x}) = k - 1
      BY <1>1, <1>4, <1>5, FS_RemoveElement
    <3>2. Y \ {x} \in SUBSET X
      OBVIOUS
    <3>3. Cardinality(Y \ {x}) \in Nat
      BY ONLY <1>1, <3>2
    <3>. QED BY <3>1, <3>3
  <2>2. k - 1 \notin T
    <3>. HIDE DEF T
    <3>1. k \in Nat
      BY DEF T
    <3>. QED BY <1>3, <3>1
  <2>. HIDE DEF Has
  <2>. QED BY <1>6, <2>1, <2>2
<1>8. PICK m \in Y \ {x} : \A a \in Y \ {x} : <<a, m>> \notin R
  BY <1>7
<1>9. CASE <<x, m>> \notin R
  BY <1>4, <1>8, <1>9
<1>10. CASE <<x, m>> \in R
  <2>1. ASSUME NEW a \in Y, <<a, x>> \in R PROVE FALSE
    <3>1. a \in X /\ x \in X /\ m \in X /\ a # x
      BY <1>4, <1>5, <1>8, <2>1
    <3>2. <<a, m>> \in R
      BY <1>10, <2>1, <3>1
    <3>. QED BY <1>8, <2>1, <3>1, <3>2
  <2>. QED BY <1>4, <1>5, <2>1
<1>. QED BY <1>9, <1>10

IsSeq(s) == \E S : s \in Seq(S)

\* The entries of a listing, as the sort takes them.
Comparable(es) ==
    /\ IsSeq(es)
    /\ \A i \in DOMAIN es : ~Ahead(es[i], es[i])
    /\ \A i, j, k \in DOMAIN es : Ahead(es[i], es[j]) /\ Ahead(es[j], es[k]) => Ahead(es[i], es[k])

LEMMA ForemostIn ==
    ASSUME NEW es, Comparable(es), NEW X \in SUBSET (DOMAIN es), IsFiniteSet(X), X # {}
    PROVE  Foremost(es, X) \in X /\ \A j \in X : ~Ahead(es[j], es[Foremost(es, X)])
<1>. DEFINE R == {r \in X \X X : Ahead(es[r[1]], es[r[2]])}
<1>1. \A i, j \in X : <<i, j>> \in R <=> Ahead(es[i], es[j])
  OBVIOUS
<1>. HIDE DEF R
<1>2. \A a \in X : <<a, a>> \notin R
  BY <1>1 DEF Comparable
<1>3. \A a, b, c \in X : <<a, b>> \in R /\ <<b, c>> \in R => <<a, c>> \in R
  BY <1>1 DEF Comparable
<1>4. \E m \in X : \A a \in X : <<a, m>> \notin R
  BY <1>2, <1>3, ForemostExists
<1>5. \E m \in X : \A a \in X : ~Ahead(es[a], es[m])
  BY <1>1, <1>4
<1>. QED BY <1>5 DEF Foremost

\* One after the other is taken away, each the foremost of what is there.
Taken(es, ps, rest, n) ==
    /\ n = Cardinality(ps) /\ rest \in [0..n -> SUBSET ps] /\ rest[0] = ps
    /\ \A k \in 1..n : rest[k] = rest[k-1] \ {Foremost(es, rest[k-1])}

\* What Sorted does.
LEMMA SortedTakes ==
    ASSUME NEW es, NEW ps, Cardinality(ps) \in Nat
    PROVE  \E rest : /\ Taken(es, ps, rest, Cardinality(ps))
                     /\ Sorted(es, ps) = [n \in 1..Cardinality(ps) |-> es[Foremost(es, rest[n-1])]]
<1>. DEFINE n == Cardinality(ps)
            F(f) == [i \in 0..n |-> IF i = 0 THEN ps ELSE f[i-1] \ {Foremost(es, f[i-1])}]
            step == [i \in 1..n |-> [X \in SUBSET ps |-> X \ {Foremost(es, X)}]]
<1>1. n \in Nat
  OBVIOUS
<1>. HIDE DEF n
<1>2. step \in [1..n -> [SUBSET ps -> SUBSET ps]] /\ ps \in SUBSET ps
  OBVIOUS
<1>3. PICK f \in [0..n -> SUBSET ps] : Unfolds(f, n, ps, step)
  <2>. HIDE DEF step
  <2>. QED BY <1>1, <1>2, RecursionExists
<1>4. f[0] = ps /\ \A i \in 1..n : f[i] = f[i-1] \ {Foremost(es, f[i-1])}
  <2>1. ASSUME NEW i \in 1..n PROVE step[i][f[i-1]] = f[i-1] \ {Foremost(es, f[i-1])}
    <3>1. f[i-1] \in SUBSET ps
      BY <1>1
    <3>. QED BY <3>1
  <2>. QED BY <1>3, <2>1 DEF Unfolds
<1>5. f = F(f)
  <2>1. \A i \in 0..n : f[i] = IF i = 0 THEN ps ELSE f[i-1] \ {Foremost(es, f[i-1])}
    BY <1>1, <1>4
  <2>. QED BY <1>3, <2>1
<1>. DEFINE u == CHOOSE g : g = F(g)
<1>6. u = F(u)
  <2>. HIDE DEF F
  <2>. QED BY <1>5
<1>7. Sorted(es, ps) = [i \in 1..n |-> es[Foremost(es, u[i-1])]]
  BY DEF Sorted, n
<1>. HIDE DEF u
<1>8. u[0] = ps /\ \A i \in 1..n : u[i] = u[i-1] \ {Foremost(es, u[i-1])}
  <2>1. \A i \in 0..n : u[i] = F(u)[i]
    <3>. HIDE DEF F
    <3>. QED BY <1>6
  <2>2. \A i \in 0..n : u[i] = IF i = 0 THEN ps ELSE u[i-1] \ {Foremost(es, u[i-1])}
    BY <2>1
  <2>3. 0 \in 0..n /\ \A i \in 1..n : i \in 0..n /\ i # 0
    BY <1>1
  <2>. QED BY ONLY <2>2, <2>3
<1>9. u \in [0..n -> SUBSET ps]
  <2>1. \A i \in 0..n : u[i] \in SUBSET ps
    <3>. DEFINE T == {i \in 0..n : u[i] \notin SUBSET ps}
    <3>. SUFFICES ASSUME T # {} PROVE FALSE
      OBVIOUS
    <3>1. PICK k \in T : \A y \in T : k <= y
      <4>1. T \in SUBSET Nat
        OBVIOUS
      <4>. QED BY <4>1, Least
    <3>2. k \in 1..n /\ k - 1 \in 0..n /\ k - 1 \notin T
      BY <1>1, <1>8, <3>1
    <3>. QED BY <1>8, <3>1, <3>2
  <2>2. u = [i \in 0..n |-> u[i]]
    <3>1. DOMAIN u = 0..n
      BY <1>6
    <3>. QED BY <1>6, <3>1
  <2>. HIDE DEF F
  <2>. QED BY <2>1, <2>2
<1>. QED BY <1>7, <1>8, <1>9 DEF Taken, n

LEMMA TakenLeaves ==
    ASSUME NEW es, Comparable(es), NEW ps \in SUBSET (DOMAIN es), IsFiniteSet(ps),
           NEW rest, NEW n \in Nat, Taken(es, ps, rest, n)
    PROVE  /\ \A k \in 0..n : IsFiniteSet(rest[k]) /\ Cardinality(rest[k]) = n - k
           /\ \A k \in 1..n : /\ Foremost(es, rest[k-1]) \in rest[k-1]
                              /\ \A j \in rest[k-1] : ~Ahead(es[j], es[Foremost(es, rest[k-1])])
           /\ \A i \in 0..n : \A j \in i..n : rest[j] \subseteq rest[i]
<1>0. /\ n = Cardinality(ps) /\ rest[0] = ps /\ \A k \in 0..n : rest[k] \in SUBSET ps
      /\ \A k \in 1..n : rest[k] = rest[k-1] \ {Foremost(es, rest[k-1])}
  BY DEF Taken
<1>1. \A k \in 0..n : IsFiniteSet(rest[k])
  BY <1>0, FS_Subset
<1>2. ASSUME NEW X \in SUBSET ps, X # {}, IsFiniteSet(X)
      PROVE  Foremost(es, X) \in X /\ \A j \in X : ~Ahead(es[j], es[Foremost(es, X)])
  <2>1. X \in SUBSET (DOMAIN es)
    OBVIOUS
  <2>. QED BY ONLY Comparable(es), <2>1, <1>2, ForemostIn
<1>3. \A k \in 0..n : Cardinality(rest[k]) = n - k
  <2>. DEFINE T == {k \in 0..n : Cardinality(rest[k]) # n - k}
  <2>. SUFFICES ASSUME T # {} PROVE FALSE
    OBVIOUS
  <2>1. PICK k \in T : \A y \in T : k <= y
    <3>1. T \in SUBSET Nat
      OBVIOUS
    <3>. QED BY <3>1, Least
  <2>2. k # 0
    BY <1>0, <2>1
  <2>3. k \in 1..n /\ k - 1 \in 0..n /\ k - 1 \notin T
    BY <2>1, <2>2
  <2>4. Cardinality(rest[k-1]) = n - k + 1 /\ n - k + 1 > 0
    BY <2>3
  <2>5. PICK X : X = rest[k-1] /\ X \in SUBSET ps /\ IsFiniteSet(X) /\ Cardinality(X) = n - k + 1
    BY <1>0, <1>1, <2>3, <2>4
  <2>6. X # {}
    <3>1. Cardinality({}) = 0 /\ Cardinality(X) > 0
      BY <2>4, <2>5, FS_EmptySet
    <3>. QED BY <3>1
  <2>7. PICK m : m \in X /\ m = Foremost(es, X)
    BY <1>2, <2>5, <2>6
  <2>8. Cardinality(X \ {m}) = Cardinality(X) - 1
    <3>1. IsFiniteSet(X) /\ m \in X
      BY <2>5, <2>7
    <3>. QED BY ONLY <3>1, FS_RemoveElement, Zenon
  <2>9. rest[k] = X \ {m}
    BY <1>0, <2>3, <2>5, <2>7
  <2>10. Cardinality(rest[k]) = n - k
    BY <2>3, <2>5, <2>8, <2>9
  <2>. QED BY <2>1, <2>10
<1>4. ASSUME NEW k \in 1..n
      PROVE  /\ Foremost(es, rest[k-1]) \in rest[k-1]
             /\ \A j \in rest[k-1] : ~Ahead(es[j], es[Foremost(es, rest[k-1])])
  <2>1. k - 1 \in 0..n
    OBVIOUS
  <2>2. rest[k-1] \in SUBSET ps /\ IsFiniteSet(rest[k-1]) /\ Cardinality(rest[k-1]) > 0
    BY <1>0, <1>1, <1>3, <2>1
  <2>3. rest[k-1] # {}
    BY <2>2, FS_EmptySet
  <2>. QED BY <1>2, <2>2, <2>3
<1>5. ASSUME NEW i \in 0..n PROVE \A j \in i..n : rest[j] \subseteq rest[i]
  <2>. DEFINE T == {j \in i..n : ~(rest[j] \subseteq rest[i])}
  <2>. SUFFICES ASSUME T # {} PROVE FALSE
    OBVIOUS
  <2>1. PICK k \in T : \A y \in T : k <= y
    <3>1. T \in SUBSET Nat
      OBVIOUS
    <3>. QED BY <3>1, Least
  <2>2. k # i
    BY <2>1
  <2>3. k \in 1..n /\ k - 1 \in i..n /\ k - 1 \notin T
    BY <2>1, <2>2
  <2>4. rest[k-1] \subseteq rest[i] /\ rest[k] \subseteq rest[k-1]
    BY <1>0, <2>3
  <2>. QED BY <2>1, <2>4
<1>. QED BY <1>1, <1>3, <1>4, <1>5

\* The sort keeps every entry it is given, and puts none before one that is
\* ahead of it.
LEMMA SortedRight ==
    ASSUME NEW es, Comparable(es), NEW ps \in SUBSET (DOMAIN es), IsFiniteSet(ps)
    PROVE  /\ Range(Sorted(es, ps)) = {es[p] : p \in ps}
           /\ \A i, j \in DOMAIN Sorted(es, ps) : i < j =>
                 \E p, q \in ps : /\ p # q /\ Sorted(es, ps)[i] = es[p] /\ Sorted(es, ps)[j] = es[q]
                                  /\ ~Ahead(es[q], es[p])
<1>1. Cardinality(ps) \in Nat
  BY FS_CardinalityType
<1>. PICK n \in Nat : n = Cardinality(ps)
  BY <1>1
<1>2. PICK rest : /\ n = Cardinality(ps) /\ Taken(es, ps, rest, n)
                  /\ Sorted(es, ps) = [i \in 1..n |-> es[Foremost(es, rest[i-1])]]
  BY <1>1, SortedTakes
<1>3. /\ rest[0] = ps /\ \A k \in 0..n : rest[k] \in SUBSET ps
      /\ \A k \in 1..n : rest[k] = rest[k-1] \ {Foremost(es, rest[k-1])}
  BY <1>2 DEF Taken
<1>4. /\ \A k \in 0..n : IsFiniteSet(rest[k]) /\ Cardinality(rest[k]) = n - k
      /\ \A k \in 1..n : /\ Foremost(es, rest[k-1]) \in rest[k-1]
                         /\ \A j \in rest[k-1] : ~Ahead(es[j], es[Foremost(es, rest[k-1])])
      /\ \A i \in 0..n : \A j \in i..n : rest[j] \subseteq rest[i]
  BY <1>2, TakenLeaves
<1>5. PICK f : f = [i \in 1..n |-> Foremost(es, rest[i-1])]
  OBVIOUS
<1>6. /\ DOMAIN Sorted(es, ps) = 1..n
      /\ \A i \in 1..n : Sorted(es, ps)[i] = es[f[i]]
  BY <1>2, <1>5
<1>7. \A k \in 1..n : /\ f[k] \in rest[k-1] /\ rest[k] = rest[k-1] \ {f[k]}
                      /\ \A j \in rest[k-1] : ~Ahead(es[j], es[f[k]])
  BY <1>3, <1>4, <1>5
<1>8. \A k \in 1..n : f[k] \in ps
  <2>1. \A k \in 1..n : k - 1 \in 0..n
    OBVIOUS
  <2>. QED BY <1>3, <1>7, <2>1
<1>9. ASSUME NEW p \in ps PROVE \E k \in 1..n : f[k] = p
  <2>. DEFINE T == {k \in 0..n : p \notin rest[k]}
  <2>1. rest[n] = {}
    <3>1. n \in 0..n
      OBVIOUS
    <3>2. IsFiniteSet(rest[n]) /\ Cardinality(rest[n]) = 0
      BY <1>4, <3>1
    <3>. QED BY ONLY <3>2, FS_EmptySet
  <2>2. n \in T
    BY <2>1
  <2>3. PICK k \in T : \A y \in T : k <= y
    <3>1. T \in SUBSET Nat
      OBVIOUS
    <3>. QED BY <2>2, <3>1, Least
  <2>4. k # 0
    BY <1>3, <2>3
  <2>5. k \in 1..n /\ k - 1 \in 0..n /\ k - 1 \notin T
    BY <2>3, <2>4
  <2>6. p \in rest[k-1] /\ p \notin rest[k]
    BY <2>3, <2>5
  <2>. QED BY <1>7, <2>5, <2>6
<1>10. Range(Sorted(es, ps)) = {es[p] : p \in ps}
  <2>1. Range(Sorted(es, ps)) = {es[f[i]] : i \in 1..n}
    BY <1>6 DEF Range
  <2>. QED BY <1>8, <1>9, <2>1
<1>11. ASSUME NEW i \in 1..n, NEW j \in 1..n, i < j
       PROVE  f[i] # f[j] /\ ~Ahead(es[f[j]], es[f[i]])
  <2>1. i \in 0..n /\ j - 1 \in i..n
    BY <1>11
  <2>2. f[j] \in rest[i]
    BY <1>4, <1>7, <2>1
  <2>3. f[j] \in rest[i-1] /\ f[j] # f[i]
    BY <1>7, <2>2
  <2>. QED BY <1>7, <2>3
<1>. QED BY <1>6, <1>8, <1>10, <1>11

\* One position for each entry that occurs.
LEMMA DistinctRight ==
    ASSUME NEW es, IsSeq(es)
    PROVE  /\ Distinct(es) \in SUBSET (DOMAIN es) /\ IsFiniteSet(Distinct(es))
           /\ \A p, q \in Distinct(es) : p # q => es[p] # es[q]
           /\ {es[p] : p \in Distinct(es)} = Range(es)
<1>1. Len(es) \in Nat /\ DOMAIN es = 1..Len(es)
  BY DEF IsSeq
<1>2. Distinct(es) \in SUBSET (DOMAIN es)
  BY DEF Distinct
<1>3. IsFiniteSet(Distinct(es))
  <2>1. IsFiniteSet(1..Len(es))
    BY <1>1, FS_Interval
  <2>. QED BY <1>1, <1>2, <2>1, FS_Subset
<1>4. ASSUME NEW p \in Distinct(es), NEW q \in Distinct(es), p # q PROVE es[p] # es[q]
  <2>1. p \in Nat /\ q \in Nat /\ p >= 1 /\ q >= 1
    BY <1>1, <1>2
  <2>2. CASE p < q
    BY <2>1, <2>2 DEF Distinct
  <2>3. CASE q < p
    BY <2>1, <2>3 DEF Distinct
  <2>. QED BY <1>4, <2>1, <2>2, <2>3
<1>5. ASSUME NEW i \in DOMAIN es PROVE \E p \in Distinct(es) : es[p] = es[i]
  <2>. DEFINE T == {j \in DOMAIN es : es[j] = es[i]}
  <2>1. PICK p \in T : \A y \in T : p <= y
    <3>1. T \in SUBSET Nat /\ i \in T
      BY <1>1
    <3>. QED BY <3>1, Least
  <2>2. p \in 1..Len(es) /\ es[p] = es[i]
    BY <1>1, <2>1
  <2>3. ASSUME NEW j \in 1..(p - 1) PROVE es[j] # es[p]
    <3>1. j \in DOMAIN es /\ ~(p <= j)
      BY <1>1, <2>2
    <3>. QED BY <2>1, <2>2, <3>1
  <2>4. p \in Distinct(es)
    BY <1>1, <2>2, <2>3 DEF Distinct
  <2>. QED BY <2>2, <2>4
<1>6. {es[p] : p \in Distinct(es)} = Range(es)
  BY <1>2, <1>5 DEF Range
<1>. QED BY <1>2, <1>3, <1>4, <1>6

---------------------------------------------------------------------------
(* Following a path. *)

\* Where FollowTo starts and how it goes on.
LEMMA FollowUnfolds ==
    ASSUME NEW path, NEW s, Len(path) \in Nat
    PROVE  /\ FollowTo(path, s)[0] = {Rec(i).cnid : i \in Having(Root) \intersect s}
           /\ \A n \in 1..Len(path) : FollowTo(path, s)[n] = Onward(FollowTo(path, s)[n-1], path[n], s)
<1>. DEFINE n == Len(path)
            base == {Rec(i).cnid : i \in Having(Root) \intersect s}
            U == base \union {Resolved(i).cnid : i \in s}
            F(f) == [k \in 0..n |-> IF k = 0 THEN base ELSE Onward(f[k-1], path[k], s)]
            step == [k \in 1..n |-> [X \in SUBSET U |-> Onward(X, path[k], s)]]
<1>1. n \in Nat
  OBVIOUS
<1>2. \A X, m : Onward(X, m, s) \in SUBSET U
  BY DEF Onward, Listing, Children
<1>3. base \in SUBSET U
  OBVIOUS
<1>. HIDE DEF n, base, U
<1>4. step \in [1..n -> [SUBSET U -> SUBSET U]]
  BY <1>2
<1>5. PICK f \in [0..n -> SUBSET U] : Unfolds(f, n, base, step)
  <2>. HIDE DEF step
  <2>. QED BY <1>1, <1>3, <1>4, RecursionExists
<1>6. f[0] = base /\ \A k \in 1..n : f[k] = Onward(f[k-1], path[k], s)
  <2>1. ASSUME NEW k \in 1..n PROVE step[k][f[k-1]] = Onward(f[k-1], path[k], s)
    <3>1. f[k-1] \in SUBSET U
      BY <1>1
    <3>. QED BY <3>1
  <2>. QED BY <1>5, <2>1 DEF Unfolds
<1>7. f = F(f)
  <2>1. \A k \in 0..n : f[k] = IF k = 0 THEN base ELSE Onward(f[k-1], path[k], s)
    BY <1>1, <1>6
  <2>. QED BY <1>5, <2>1
<1>. DEFINE u == FollowTo(path, s)
<1>8. u = F(u)
  <2>1. u = CHOOSE g : g = F(g)
    BY DEF FollowTo, n, base
  <2>. HIDE DEF F, u
  <2>. QED BY <1>7, <2>1
<1>. HIDE DEF u
<1>9. u[0] = base /\ \A k \in 1..n : u[k] = Onward(u[k-1], path[k], s)
  <2>1. \A k \in 0..n : u[k] = F(u)[k]
    <3>. HIDE DEF F
    <3>. QED BY <1>8
  <2>2. \A k \in 0..n : u[k] = IF k = 0 THEN base ELSE Onward(u[k-1], path[k], s)
    BY <2>1
  <2>3. 0 \in 0..n /\ \A k \in 1..n : k \in 0..n /\ k # 0
    BY <1>1
  <2>. QED BY ONLY <2>2, <2>3
<1>. QED BY <1>9 DEF u, n, base

\* A path that leads nowhere half way leads nowhere.
LEMMA FollowEnds ==
    ASSUME NEW path, NEW s, Len(path) \in Nat, NEW k \in 0..Len(path), FollowTo(path, s)[k] = {}
    PROVE  Follow(path, s) = {}
<1>. DEFINE n == Len(path)
            T == {j \in k..n : FollowTo(path, s)[j] # {}}
<1>1. n \in T \/ Follow(path, s) = {}
  BY DEF Follow
<1>. SUFFICES ASSUME T # {} PROVE FALSE
  <2>. HIDE DEF T
  <2>. QED BY <1>1
<1>2. PICK j \in T : \A y \in T : j <= y
  <2>1. T \in SUBSET Nat
    OBVIOUS
  <2>. QED BY <2>1, Least
<1>3. j # k
  BY <1>2
<1>4. j \in 1..n /\ j - 1 \in k..n /\ j - 1 \notin T
  BY <1>2, <1>3
<1>5. FollowTo(path, s)[j-1] = {}
  BY <1>4
<1>6. FollowTo(path, s)[j] = Onward({}, path[j], s)
  <2>1. FollowTo(path, s)[j] = Onward(FollowTo(path, s)[j-1], path[j], s)
    BY <1>4, FollowUnfolds
  <2>. QED BY <1>5, <2>1
<1>7. Onward({}, path[j], s) = {}
  BY DEF Onward
<1>. QED BY <1>2, <1>6, <1>7

\* The children findChild compares with a name.
Named(d, n) == {i \in Recs : /\ Rec(i).parent = d /\ Parent(i) = d
                             /\ Rec(i).type # "bad" /\ Same(Rec(i).name, n)}

\* They are folders and files, and there is one at most.
LEMMA NamedIsOne ==
    ASSUME vol \in Volumes, NamesDistinct, NEW d, NEW n, NEW i \in Named(d, n)
    PROVE  IsNode(i) /\ Named(d, n) = {i}
<1>1. \A j \in Named(d, n) : IsNode(j)
  BY CatalogTypes DEF Named, NamesDistinct, Parent, IsNode, Types
<1>2. \A j \in Named(d, n) : j = i
  BY <1>1 DEF Named, NamesDistinct, Same
<1>. QED BY <1>1, <1>2

\* A child that is listed is compared with the name.
LEMMA ListedIsNamed ==
    ASSUME NEW d, NEW n, NEW i \in Recs, Rec(i).parent = d, Listed(i), Same(Rec(i).name, n)
    PROVE  i \in Named(d, n)
BY DEF Named, Listed, IsNode, Parent

\* A name leads to what it is found to stand for,
LEMMA NameLeads ==
    ASSUME vol \in Volumes, NamesDistinct, NEW ds, NEW d \in ds, NEW n, ~Same("", n),
           NEW i \in Named(d, n), Resolves(i)
    PROVE  Resolved(i).cnid \in Onward(ds, n, Recs)
<1>1. IsNode(i)
  BY NamedIsOne
<1>2. i \in Recs /\ Rec(i).parent = d /\ Same(Rec(i).name, n)
  BY DEF Named
<1>3. Listed(i)
  BY <1>1, <1>2 DEF Listed, Same
<1>4. Resolved(i) \in Listing(d, Recs) /\ Resolved(i).name = Rec(i).name
  <2>1. i \in {j \in Children(d, Recs) : Resolves(j)}
    BY <1>2, <1>3 DEF Children
  <2>. QED BY <1>2, <2>1, TargetIn DEF Listing
<1>5. Resolved(i) \in UNION {Listing(c, Recs) : c \in ds} /\ Same(Resolved(i).name, n)
  BY <1>2, <1>4
<1>. QED BY <1>5 DEF Onward

\* and nowhere else,
LEMMA NameBounds ==
    ASSUME vol \in Volumes, NamesDistinct, NEW d, NEW ds, ds \subseteq {d}, NEW n,
           NEW s, s \subseteq Recs, NEW i \in Named(d, n)
    PROVE  Onward(ds, n, s) \subseteq (IF i \in s THEN {Resolved(i).cnid} ELSE {})
<1>1. ASSUME NEW e \in Listing(d, s), Same(e.name, n) PROVE e = Resolved(i) /\ i \in s
  <2>1. PICK j \in s : Rec(j).parent = d /\ Listed(j) /\ Resolves(j) /\ e = Resolved(j)
    BY DEF Listing, Children
  <2>2. Same(Rec(j).name, n) /\ j \in Recs
    BY <1>1, <2>1, TargetIn
  <2>3. j \in Named(d, n)
    BY <2>1, <2>2, ListedIsNamed
  <2>4. j = i
    BY <2>3, NamedIsOne
  <2>. QED BY <2>1, <2>4
<1>. QED BY <1>1 DEF Onward

\* and nowhere if nothing is found.
LEMMA NameMissed ==
    ASSUME vol \in Volumes, NEW d, NEW ds, ds \subseteq {d}, NEW n,
           NEW s, s \subseteq Recs, Named(d, n) \intersect s = {}
    PROVE  Onward(ds, n, s) = {}
<1>1. ASSUME NEW e \in Listing(d, s), Same(e.name, n) PROVE FALSE
  <2>1. PICK j \in s : Rec(j).parent = d /\ Listed(j) /\ Resolves(j) /\ e = Resolved(j)
    BY DEF Listing, Children
  <2>2. Same(Rec(j).name, n) /\ j \in Recs
    BY <1>1, <2>1, TargetIn
  <2>. QED BY <2>1, <2>2, ListedIsNamed
<1>. QED BY <1>1 DEF Onward

---------------------------------------------------------------------------
(* The entries of a listing. *)

\* What is listed can be sorted.
LEMMA ListedCompares ==
    ASSUME vol \in Volumes, NEW es, IsSeq(es), NEW d, Range(es) \subseteq Listing(d, Recs)
    PROVE  Comparable(es)
<1>1. ASSUME NEW i \in DOMAIN es
      PROVE  es[i].cnid \in Nat /\ Fold(es[i].name) \in {Fold(vol.recs[k].name) : k \in DOMAIN vol.recs}
  <2>1. es[i] \in Listing(d, Recs)
    BY DEF Range
  <2>2. PICK j \in Recs : Resolves(j) /\ es[i] = Resolved(j)
    BY <2>1 DEF Listing, Children
  <2>3. es[i].cnid \in Nat /\ es[i].name = Rec(j).name
    BY <2>2, TargetIn
  <2>. QED BY <2>3 DEF Rec, Recs
<1>. DEFINE S == {Fold(vol.recs[k].name) : k \in DOMAIN vol.recs}
<1>2. \A l, m, n \in S : ~Less(m, m) /\ (Less(l, m) /\ Less(m, n) => Less(l, n))
  BY CatalogAssumption
<1>. HIDE DEF S
<1>3. \A i \in DOMAIN es : es[i].cnid \in Nat /\ Fold(es[i].name) \in S
  BY <1>1 DEF S
<1>4. \A i \in DOMAIN es : ~Ahead(es[i], es[i])
  BY <1>2, <1>3 DEF Ahead
<1>5. ASSUME NEW i \in DOMAIN es, NEW j \in DOMAIN es, NEW k \in DOMAIN es,
             Ahead(es[i], es[j]), Ahead(es[j], es[k])
      PROVE  Ahead(es[i], es[k])
  BY <1>2, <1>3, <1>5 DEF Ahead
<1>. QED BY <1>4, <1>5 DEF Comparable

\* What ReadDirCNID gives of a walk.
LEMMA SortedListing ==
    ASSUME vol \in Volumes, NEW es, IsSeq(es), NEW d, Range(es) \subseteq Listing(d, Recs),
           NEW s, s = Sorted(es, Distinct(es))
    PROVE  /\ Range(s) = Range(es)
           /\ \A i, j \in DOMAIN s : i < j => s[i] # s[j] /\ ~Ahead(s[j], s[i])
<1>1. Comparable(es)
  BY ListedCompares
<1>2. PICK ps : ps = Distinct(es)
  OBVIOUS
<1>3. /\ ps \in SUBSET (DOMAIN es) /\ IsFiniteSet(ps)
      /\ \A p, q \in ps : p # q => es[p] # es[q]
      /\ {es[p] : p \in ps} = Range(es)
  BY <1>2, DistinctRight
<1>4. /\ Range(s) = {es[p] : p \in ps}
      /\ \A i, j \in DOMAIN s : i < j =>
            \E p, q \in ps : /\ p # q /\ s[i] = es[p] /\ s[j] = es[q]
                             /\ ~Ahead(es[q], es[p])
  BY <1>1, <1>2, <1>3, SortedRight
<1>. QED BY <1>3, <1>4

---------------------------------------------------------------------------
(* The inductive invariant of the lookups. *)

Seeking == {"lookup", "thread", "children", "linear"}

\* Where a call is, and what it holds there.
Underway ==
    /\ phase \in Seeking \union {"idle", "hydrate", "child", "list"}
    /\ phase # "idle" => call \in Calls /\ last = NoReply
    /\ phase \in Seeking => at = (IF call.kind = "path" THEN Root ELSE call.cnid) /\ todo = call.path
    /\ phase # "list" => pos = 1 /\ entries = <<>>
    /\ phase = "hydrate" => rec \in Recs /\ (call.kind # "path" => rec \in Having(call.cnid))
    /\ phase = "child" => call.kind = "path" /\ todo # <<>>
    /\ phase = "list" => call.kind \in {"list", "walk"}

\* What is left of a path is its end.
Rest ==
    /\ todo \in Seq(STRING) /\ Len(todo) <= Len(call.path)
    /\ \A j \in 1..Len(todo) : todo[j] = call.path[Len(call.path) - Len(todo) + j]

\* How many names have been followed.
Followed == Len(call.path) - Len(todo)

\* The volume and the path are such as the property speaks of.
Clear == NamesDistinct /\ Spoken(call.path)

LEMMA ClearStays == ASSUME vol' = vol, call' = call PROVE Clear' <=> Clear
<1>1. NamesDistinct' <=> NamesDistinct
  BY CatalogStays
<1>2. Spoken(call.path)' <=> Spoken(call.path)
  BY DEF Spoken, Same
<1>. QED BY <1>1, <1>2 DEF Clear

\* Where the listings lead, and where they do by what every query comes by, once f
\* reads have failed.
May     == FollowTo(call.path, Recs)
Must(f) == FollowTo(call.path, CertainAt(f))

LEMMA LeadsStay == ASSUME vol' = vol, call' = call PROVE May' = May /\ \A f : Must(f)' = Must(f)
BY CatalogStays DEF May, Must

\* The listings lead to where OpenPath is, and what every query comes by leads to
\* nowhere else.
OnPath ==
    phase \in {"hydrate", "child"} /\ call.kind = "path" =>
        /\ Rest
        /\ Clear =>
             /\ phase = "hydrate" =>
                  /\ Resolves(rec) => Resolved(rec).cnid \in May[Followed]
                  /\ \A f \in Nat : Must(f)[Followed] \subseteq
                                       (IF SureAt(rec, f) THEN {Resolved(rec).cnid} ELSE {})
             /\ phase = "child" =>
                  at \in May[Followed] /\ \A f \in Nat : Must(f)[Followed] \subseteq {at}

\* The listing has every child before pos that its source delivers, and nothing but
\* children.
OnList ==
    phase = "list" =>
        /\ \E i \in Having(call.cnid) : Resolves(i) /\ Resolved(i).cnid = at
        /\ pos \in Nat /\ IsSeq(entries) /\ Range(entries) \subseteq Listing(at, Recs)
        /\ \A i \in Source : i < pos /\ Rec(i).parent = at /\ Listed(i) =>
              Resolves(i) /\ Resolved(i) \in Range(entries)

CacheRight == \A c \in DOMAIN cache : cache[c] \in Having(c)

CatInv ==
    /\ vol \in Volumes /\ faults \in Nat /\ CacheRight
    /\ Underway /\ OnPath /\ OnList
    /\ LookupRight /\ ListingExact /\ PathsFollowListings

LEMMA CatInit == Init => CatInv
<1>. SUFFICES ASSUME Init PROVE CatInv
  OBVIOUS
<1>1. CacheRight
  BY DEF Init, CacheRight
<1>2. Underway /\ OnPath /\ OnList
  BY DEF Init, Underway, OnPath, OnList, Seeking
<1>3. LookupRight /\ ListingExact /\ PathsFollowListings
  BY <1>1 DEF Init, LookupRight, ListingExact, PathsFollowListings, Asked, NoReply, Idle, CacheRight
<1>. QED BY <1>1, <1>2, <1>3 DEF Init, CatInv

\* What the properties ask of an answer to the call under way, after f faults.
Right(err, es, f) ==
    /\ call.kind = "open" =>
         /\ err = "ok" => rec \in Having(call.cnid)
         /\ err = "notfound" => \/ Having(call.cnid) \intersect vol.walked = {}
                                \/ \E i \in Having(call.cnid) : ~SureAt(i, f)
         /\ err = "failed" => f > 0
    /\ call.kind = "list" /\ err = "ok" =>
         /\ \E i \in Having(call.cnid), s \in {vol.searched, vol.walked} :
              /\ Resolves(i) /\ Range(es) \subseteq Listing(Resolved(i).cnid, Recs)
              /\ \A k \in Children(Resolved(i).cnid, s) : Resolves(k) /\ Resolved(k) \in Range(es)
         /\ \A i, j \in DOMAIN es : i < j => es[i] # es[j] /\ ~Ahead(es[j], es[i])
    /\ call.kind = "path" /\ Clear =>
         /\ err = "ok" => Resolved(rec).cnid \in Follow(call.path, Recs)
         /\ err = "notfound" => Follow(call.path, CertainAt(f)) = {}

LEMMA ReplyStep ==
    ASSUME CatInv, vol' = vol, faults' \in Nat, CacheRight', NEW err, NEW es, Reply(err, es),
           Right(err, es, faults')
    PROVE  CatInv'
<1>1. /\ call' = Idle /\ phase' = "idle" /\ pos' = 1 /\ entries' = <<>>
      /\ last' = [call |-> call, err |-> err, raw |-> rec, entries |-> es]
  BY DEF Reply
<1>2. Underway' /\ OnPath' /\ OnList'
  BY <1>1 DEF Underway, OnPath, OnList, Seeking
<1>3. LookupRight'
  <2>1. \A c : Having(c)' = Having(c)
    BY CatalogStays
  <2>2. \A i : Sure(i)' <=> SureAt(i, faults')
    BY SureThen
  <2>. QED BY <1>1, <2>1, <2>2 DEF LookupRight, Asked, Right, CacheRight
<1>4. ListingExact'
  <2>1. /\ \A c : Having(c)' = Having(c)
        /\ \A i : Resolves(i)' <=> Resolves(i)
        /\ \A i : Resolved(i)' = Resolved(i)
        /\ \A d, s : Listing(d, s)' = Listing(d, s)
        /\ \A d, s : Children(d, s)' = Children(d, s)
        /\ Recs' = Recs
    BY CatalogStays
  <2>. QED BY <1>1, <2>1 DEF ListingExact, Asked, Right
<1>5. PathsFollowListings'
  <2>1. /\ \A i : Resolved(i)' = Resolved(i)
        /\ \A p, s : Follow(p, s)' = Follow(p, s)
        /\ NamesDistinct' <=> NamesDistinct
        /\ \A p : Spoken(p)' <=> Spoken(p)
        /\ Recs' = Recs /\ Certain' = CertainAt(faults')
    BY CatalogStays, SureThen
  <2>. QED BY <1>1, <2>1 DEF PathsFollowListings, Asked, Right, Clear
<1>6. vol' \in Volumes
  BY DEF CatInv
<1>. QED BY <1>2, <1>3, <1>4, <1>5, <1>6 DEF CatInv

\* A step that answers nothing.
LEMMA LastStays ==
    ASSUME CatInv, vol' = vol, CacheRight', last' = NoReply
    PROVE  LookupRight' /\ ListingExact' /\ PathsFollowListings'
BY DEF LookupRight, ListingExact, PathsFollowListings, Asked, NoReply, Idle, CacheRight

\* A cache that is left alone stays right, and so does one with a new record.
LEMMA CacheStays ==
    ASSUME CacheRight, vol' = vol, cache' = cache PROVE CacheRight'
BY CatalogStays DEF CacheRight

LEMMA StoreKeeps ==
    ASSUME CacheRight, vol' = vol, NEW c, NEW i \in Having(c), Store(c, i) PROVE CacheRight'
<1>1. PICK kept \in SUBSET (DOMAIN cache \ {c}) :
         cache' = [x \in kept \union {c} |-> IF x = c THEN i ELSE cache[x]]
  BY DEF Store
<1>2. \A d : Having(d)' = Having(d)
  BY CatalogStays
<1>. QED BY <1>1, <1>2 DEF CacheRight

LEMMA FaultCounts ==
    ASSUME faults \in Nat, Fault PROVE faults' \in Nat /\ faults' > 0 /\ faults' >= faults
BY DEF Fault

LEMMA CallTypes ==
    ASSUME NEW c \in Calls
    PROVE  /\ c.kind \in {"open", "path", "list", "walk"}
           /\ c.path \in Seq(STRING) /\ Len(c.path) \in Nat /\ DOMAIN c.path = 1..Len(c.path)
<1>1. /\ c.kind \in {"open", "path", "list", "walk"} /\ c.path \in Seq(STRING)
  BY CatalogAssumption
<1>2. PICK p : p = c.path
  OBVIOUS
<1>3. p \in Seq(STRING)
  BY <1>1, <1>2
<1>4. Len(p) \in Nat /\ DOMAIN p = 1..Len(p)
  BY ONLY <1>3
<1>. QED BY <1>1, <1>2, <1>4

\* From one way of looking a CNID up to the next.
LEMMA SeekOn ==
    ASSUME CatInv, phase \in Seeking, phase' \in Seeking, UNCHANGED <<vol, call, at, todo, scan, last>>
    PROVE  Underway' /\ OnPath' /\ OnList'
BY DEF CatInv, Underway, OnPath, OnList, Seeking, scan

\* All of a path is left to be followed at the root, to which the listings lead.
LEMMA PathBegins ==
    ASSUME vol \in Volumes, call \in Calls, todo = call.path, NEW i \in Having(Root)
    PROVE  /\ Rest /\ Followed = 0
           /\ NamesDistinct =>
                /\ Resolved(i).cnid \in May[0]
                /\ \A f : SureAt(i, f) /\ Must(f)[0] \subseteq {Resolved(i).cnid}
<1>1. call.path \in Seq(STRING) /\ Len(call.path) \in Nat
  BY CallTypes
<1>2. Rest /\ Followed = 0
  BY <1>1 DEF Rest, Followed
<1>3. ASSUME NamesDistinct
      PROVE  /\ Resolved(i).cnid \in May[0]
             /\ \A f : SureAt(i, f) /\ Must(f)[0] \subseteq {Resolved(i).cnid}
  <2>1. \A j \in Having(Root) : j \in Recs /\ Rec(j).cnid = Root /\ Rec(j).link = 0
    BY <1>3 DEF Having, NamesDistinct
  <2>2. Resolves(i)
    BY <2>1, CatalogTypes DEF Resolves, Target
  <2>3. Resolved(i).cnid = Root
    BY <2>1, <2>2, TargetIn
  <2>4. May[0] = {Rec(j).cnid : j \in Having(Root) \intersect Recs}
    BY <1>1, FollowUnfolds DEF May
  <2>5. \A f : Must(f)[0] = {Rec(j).cnid : j \in Having(Root) \intersect CertainAt(f)}
    BY <1>1, FollowUnfolds DEF Must
  <2>6. \A f : SureAt(i, f)
    BY <2>1 DEF SureAt
  <2>. QED BY <2>1, <2>3, <2>4, <2>5, <2>6
<1>. QED BY <1>2, <1>3

\* A record with the CNID is at hand.
LEMMA FirstFound ==
    ASSUME CatInv, phase \in Seeking, NEW i \in Having(at),
           phase' = "hydrate", rec' = i, UNCHANGED <<vol, call, todo, scan, last>>
    PROVE  Underway' /\ OnPath' /\ OnList'
<1>1. /\ call \in Calls /\ todo = call.path /\ at = (IF call.kind = "path" THEN Root ELSE call.cnid)
      /\ vol \in Volumes /\ pos = 1 /\ entries = <<>> /\ last = NoReply
  BY DEF CatInv, Underway, Seeking
<1>2. \A c : Having(c)' = Having(c) /\ Recs' = Recs
  BY CatalogStays
<1>3. i \in Recs
  BY DEF Having
<1>4. Underway'
  BY <1>1, <1>2, <1>3 DEF Underway, Seeking, scan
<1>5. OnList'
  BY DEF OnList
<1>6. OnPath'
  <2>. SUFFICES ASSUME call.kind = "path" PROVE OnPath'
    BY DEF OnPath
  <2>1. /\ Rest /\ Followed = 0
        /\ NamesDistinct =>
             /\ Resolved(i).cnid \in May[0]
             /\ \A f : SureAt(i, f) /\ Must(f)[0] \subseteq {Resolved(i).cnid}
    BY <1>1, PathBegins
  <2>2. Rest' /\ Followed' = 0
    BY <2>1 DEF Rest, Followed
  <2>3. /\ Clear' => NamesDistinct
        /\ May' = May /\ \A f : Must(f)' = Must(f)
        /\ Resolved(rec)' = Resolved(i) /\ \A f : SureAt(rec, f)' <=> SureAt(i, f)
    BY CatalogStays, ClearStays, LeadsStay DEF Clear
  <2>. QED BY <2>1, <2>2, <2>3 DEF OnPath
<1>. QED BY <1>4, <1>5, <1>6

LEMMA BeginStep == ASSUME CatInv, NEW c \in Calls, Begin(c) PROVE CatInv'
<1>1. phase = "idle"
  <2>1. call \notin Calls
    BY CallTypes DEF Begin, Idle
  <2>. QED BY <2>1 DEF CatInv, Underway
<1>2. /\ vol' = vol /\ faults' = faults /\ cache' = cache /\ last' = NoReply
      /\ phase' = "lookup" /\ call' = c /\ todo' = c.path /\ UNCHANGED <<pos, entries>>
      /\ at' = IF c.kind = "path" THEN Root ELSE c.cnid
  BY DEF Begin, scan
<1>3. Underway' /\ OnPath' /\ OnList'
  BY <1>1, <1>2 DEF CatInv, Underway, OnPath, OnList, Seeking
<1>4. vol \in Volumes /\ faults \in Nat /\ CacheRight
  BY DEF CatInv
<1>5. CacheRight'
  BY <1>2, <1>4, CacheStays
<1>6. LookupRight' /\ ListingExact' /\ PathsFollowListings'
  BY <1>2, <1>4, <1>5, LastStays
<1>. QED BY <1>2, <1>3, <1>4, <1>5, <1>6 DEF CatInv

LEMMA NoCollationStep == ASSUME CatInv, NoCollation PROVE CatInv'
<1>1. /\ call.kind = "path" /\ Fault /\ Reply("failed", <<>>) /\ vol' = vol /\ cache' = cache
      /\ vol \in Volumes /\ faults \in Nat /\ CacheRight
  BY DEF NoCollation, CatInv, Fail
<1>2. Right("failed", <<>>, faults')
  BY <1>1 DEF Right
<1>. QED BY <1>1, <1>2, FaultCounts, CacheStays, ReplyStep

LEMMA LookUpStep == ASSUME CatInv, LookUp PROVE CatInv'
<1>1. /\ phase \in Seeking /\ vol' = vol /\ cache' = cache /\ last' = NoReply /\ faults' = faults
      /\ UNCHANGED <<vol, call, at, todo, scan, last>>
  BY DEF LookUp, Goto, Seeking, CatInv, Underway
<1>2. vol \in Volumes /\ faults \in Nat /\ CacheRight
  BY DEF CatInv
<1>3. CacheRight'
  BY <1>1, <1>2, CacheStays
<1>4. Underway' /\ OnPath' /\ OnList'
  <2>1. CASE at \in DOMAIN cache
    <3>1. cache[at] \in Having(at) /\ phase' = "hydrate" /\ rec' = cache[at]
      BY <1>2, <2>1 DEF LookUp, Goto, CacheRight
    <3>. QED BY <1>1, <3>1, FirstFound
  <2>2. CASE at \notin DOMAIN cache
    <3>1. phase' \in Seeking
      BY <2>2 DEF LookUp, Goto, Seeking
    <3>. QED BY <1>1, <3>1, SeekOn
  <2>. QED BY <2>1, <2>2
<1>5. LookupRight' /\ ListingExact' /\ PathsFollowListings'
  BY <1>1, <1>2, <1>3, LastStays
<1>. QED BY <1>1, <1>2, <1>3, <1>4, <1>5 DEF CatInv

LEMMA FindThreadStep == ASSUME CatInv, FindThread PROVE CatInv'
<1>1. /\ phase \in Seeking /\ phase' \in Seeking /\ vol' = vol /\ cache' = cache /\ last' = NoReply
      /\ UNCHANGED <<vol, call, at, todo, scan, last>>
  BY DEF FindThread, Goto, Seeking, CatInv, Underway
<1>2. vol \in Volumes /\ faults \in Nat /\ CacheRight
  BY DEF CatInv
<1>3. faults' \in Nat /\ faults' >= faults
  <2>1. Fault \/ faults' = faults
    BY DEF FindThread
  <2>. QED BY <1>2, <2>1, FaultCounts
<1>4. CacheRight'
  BY <1>1, <1>2, CacheStays
<1>5. Underway' /\ OnPath' /\ OnList'
  BY <1>1, SeekOn
<1>6. LookupRight' /\ ListingExact' /\ PathsFollowListings'
  BY <1>1, <1>3, <1>4, LastStays
<1>. QED BY <1>1, <1>2, <1>3, <1>4, <1>5, <1>6 DEF CatInv

\* A record is found and remembered.
LEMMA FoundStep ==
    ASSUME CatInv, phase \in Seeking, vol' = vol, faults' = faults, NEW i \in Having(at), Found(i)
    PROVE  CatInv'
<1>1. /\ phase' = "hydrate" /\ rec' = i /\ Store(at, i) /\ last' = NoReply
      /\ UNCHANGED <<vol, call, todo, scan, last>>
  BY DEF Found, Goto, CatInv, Underway, Seeking
<1>2. vol \in Volumes /\ faults \in Nat /\ CacheRight
  BY DEF CatInv
<1>3. CacheRight'
  BY <1>1, <1>2, StoreKeeps
<1>4. Underway' /\ OnPath' /\ OnList'
  BY <1>1, FirstFound
<1>5. LookupRight' /\ ListingExact' /\ PathsFollowListings'
  BY <1>1, <1>2, <1>3, LastStays
<1>. QED BY <1>2, <1>3, <1>4, <1>5 DEF CatInv

LEMMA FindAmongChildrenStep == ASSUME CatInv, FindAmongChildren PROVE CatInv'
<1>. DEFINE s == {i \in Having(at) : Rec(i).parent = dir}
<1>1. phase \in Seeking /\ vol' = vol /\ vol \in Volumes /\ faults \in Nat /\ CacheRight
  BY DEF FindAmongChildren, Seeking, CatInv
<1>2. CASE Missed /\ (Fault \/ faults' = faults)
  <2>1. /\ phase' \in Seeking /\ cache' = cache /\ last' = NoReply
        /\ UNCHANGED <<vol, call, at, todo, scan, last>>
    BY <1>1, <1>2 DEF Missed, Goto, Seeking, place, CatInv, Underway
  <2>2. faults' \in Nat /\ faults' >= faults
    BY <1>1, <1>2, FaultCounts
  <2>3. CacheRight'
    BY <1>1, <2>1, CacheStays
  <2>4. Underway' /\ OnPath' /\ OnList'
    BY <1>1, <2>1, SeekOn
  <2>5. LookupRight' /\ ListingExact' /\ PathsFollowListings'
    BY <1>1, <2>1, <2>2, <2>3, LastStays
  <2>. QED BY <1>1, <2>2, <2>3, <2>4, <2>5 DEF CatInv
<1>3. CASE ~(Missed /\ (Fault \/ faults' = faults))
  <2>1. PICK i \in Picks(s) : faults' = faults /\ i # 0 /\ Found(i)
    BY <1>3 DEF FindAmongChildren
  <2>2. i \in Having(at)
    <3>1. s \in SUBSET Recs /\ s \subseteq Having(at)
      BY DEF Having
    <3>. QED BY <1>1, <2>1, <3>1, PicksIn
  <2>. QED BY <1>1, <2>1, <2>2, FoundStep
<1>. QED BY <1>2, <1>3

LEMMA ScanCatalogStep == ASSUME CatInv, ScanCatalog PROVE CatInv'
<1>1. /\ phase \in Seeking /\ vol' = vol /\ vol \in Volumes /\ faults \in Nat /\ CacheRight
      /\ at = (IF call.kind = "path" THEN Root ELSE call.cnid) /\ call \in Calls
  BY DEF ScanCatalog, Seeking, CatInv, Underway
<1>2. CASE Fault /\ Fail /\ UNCHANGED cache
  <2>1. Right("failed", <<>>, faults')
    BY <1>1, <1>2, FaultCounts DEF Right
  <2>2. CacheRight' /\ faults' \in Nat
    BY <1>1, <1>2, CacheStays, FaultCounts
  <2>. QED BY <1>1, <1>2, <2>1, <2>2, ReplyStep DEF Fail
<1>. PICK s : s = Having(at) \intersect vol.walked
  OBVIOUS
<1>a. s \in SUBSET Recs /\ s \subseteq Having(at)
  BY DEF Having
<1>3. CASE faults' = faults /\ Pick(s) = 0 /\ Reply("notfound", <<>>) /\ UNCHANGED cache
  <2>1. Having(at) \intersect vol.walked = {}
    BY <1>1, <1>3, <1>a, PickIn
  <2>2. ASSUME call.kind = "path" PROVE Follow(call.path, CertainAt(faults')) = {}
    <3>1. Len(call.path) \in Nat
      BY <1>1, CallTypes
    <3>2. Having(Root) \intersect CertainAt(faults') = {}
      BY <1>1, <2>1, <2>2, CertainIn DEF Plain
    <3>3. FollowTo(call.path, CertainAt(faults'))[0] = {}
      BY <3>1, <3>2, FollowUnfolds
    <3>4. 0 \in 0..Len(call.path)
      BY <3>1
    <3>. QED BY <3>1, <3>3, <3>4, FollowEnds
  <2>3. Right("notfound", <<>>, faults')
    BY <1>1, <2>1, <2>2 DEF Right
  <2>4. CacheRight'
    BY <1>1, <1>3, CacheStays
  <2>. QED BY <1>1, <1>3, <2>3, <2>4, ReplyStep
<1>4. CASE faults' = faults /\ Pick(s) # 0 /\ Found(Pick(s))
  <2>1. Pick(s) \in Having(at)
    BY <1>1, <1>4, <1>a, PickIn
  <2>. QED BY <1>1, <1>4, <2>1, FoundStep
<1>. QED BY <1>2, <1>3, <1>4 DEF ScanCatalog

\* A failing query fails the call.
LEMMA FailStep ==
    ASSUME CatInv, UNCHANGED <<vol, cache>>, Fail, Fault
    PROVE  CatInv'
<1>1. faults \in Nat /\ CacheRight
  BY DEF CatInv
<1>2. faults' \in Nat /\ Right("failed", <<>>, faults')
  BY <1>1, FaultCounts DEF Right
<1>. QED BY <1>1, <1>2, CacheStays, ReplyStep DEF Fail

\* Without an inode the call ends, and no listing is sure of the link.
LEMMA NoInodeStep ==
    ASSUME CatInv, UNCHANGED <<vol, cache>>, NEW i, NoInode(i),
           call.kind = "open" => i \in Having(call.cnid),
           call.kind = "path" => phase = "hydrate" /\ i = rec
    PROVE  CatInv'
<1>1. faults \in Nat /\ CacheRight /\ vol \in Volumes
  BY DEF CatInv
<1>2. Reply("notfound", <<>>) /\ faults' \in Nat /\ ~SureAt(i, faults')
  <2>1. CASE ~Sure(i) /\ faults' = faults
    BY <1>1, <2>1, SureNow DEF NoInode
  <2>2. CASE Rec(i).link # 0 /\ Fault
    BY <1>1, <2>2, FaultCounts DEF NoInode, SureAt
  <2>. QED BY <2>1, <2>2 DEF NoInode
<1>3. ASSUME call.kind = "path", Clear PROVE Follow(call.path, CertainAt(faults')) = {}
  <2>1. call \in Calls /\ Rest /\ Must(faults')[Followed] = {}
    BY <1>2, <1>3 DEF CatInv, Underway, OnPath
  <2>2. Len(call.path) \in Nat /\ todo \in Seq(STRING) /\ Len(todo) <= Len(call.path)
    BY <2>1, CallTypes DEF Rest
  <2>3. Len(todo) \in Nat
    BY ONLY <2>2
  <2>4. Followed \in 0..Len(call.path)
    BY <2>2, <2>3 DEF Followed
  <2>. QED BY <2>1, <2>2, <2>4, FollowEnds DEF Must
<1>4. Right("notfound", <<>>, faults')
  BY <1>2, <1>3 DEF Right
<1>. QED BY <1>1, <1>2, <1>4, CacheStays, ReplyStep

LEMMA HydrateStep == ASSUME CatInv, Hydrate PROVE CatInv'
<1>1. /\ phase = "hydrate" /\ UNCHANGED <<vol, cache>> /\ vol \in Volumes /\ faults \in Nat /\ CacheRight
      /\ rec \in Recs /\ (call.kind # "path" => rec \in Having(call.cnid)) /\ call \in Calls
      /\ pos = 1 /\ entries = <<>> /\ last = NoReply
  BY DEF Hydrate, CatInv, Underway
<1>2. CacheRight'
  BY <1>1, CacheStays
<1>3. CASE Fault /\ Fail
  BY <1>1, <1>3, FailStep
<1>4. CASE NoInode(rec)
  <2>1. call.kind = "open" => rec \in Having(call.cnid)
    BY <1>1
  <2>. QED BY <1>1, <1>4, <2>1, NoInodeStep
<1>5. CASE faults' = faults /\ Resolves(rec) /\ call.kind = "open" /\ Reply("ok", <<>>)
  <2>1. Right("ok", <<>>, faults')
    BY <1>1, <1>5 DEF Right
  <2>. QED BY <1>1, <1>2, <1>5, <2>1, ReplyStep
<1>6. CASE /\ faults' = faults /\ Resolves(rec) /\ call.kind = "path" /\ todo = <<>> /\ Reply("ok", <<>>)
  <2>1. Clear => Resolved(rec).cnid \in Follow(call.path, Recs)
    <3>1. Len(call.path) \in Nat
      BY <1>1, CallTypes
    <3>2. Followed = Len(call.path)
      BY <1>6, <3>1 DEF Followed
    <3>. QED BY <1>1, <1>6, <3>2 DEF CatInv, OnPath, May, Follow
  <2>2. Right("ok", <<>>, faults')
    BY <1>6, <2>1 DEF Right
  <2>. QED BY <1>1, <1>2, <1>6, <2>2, ReplyStep
<1>7. CASE /\ faults' = faults /\ Resolves(rec) /\ call.kind = "path" /\ todo # <<>>
           /\ Goto("child") /\ at' = Into(rec) /\ UNCHANGED <<dir, rec, todo>>
  <2>1. phase' = "child" /\ UNCHANGED <<vol, call, todo, scan, last>> /\ at' = Resolved(rec).cnid
    BY <1>1, <1>7 DEF Goto, Into
  <2>2. Underway' /\ OnList'
    BY <1>1, <1>7, <2>1 DEF Underway, OnList, Seeking, scan
  <2>3. OnPath'
    <3>1. Rest /\ (Clear => at' \in May[Followed] /\ \A f \in Nat : Must(f)[Followed] \subseteq {at'})
      BY <1>1, <1>7, <2>1 DEF CatInv, OnPath
    <3>2. Rest' /\ Followed' = Followed
      BY <2>1, <3>1 DEF Rest, Followed
    <3>3. (Clear' <=> Clear) /\ May' = May /\ \A f : Must(f)' = Must(f)
      BY <2>1, LeadsStay, ClearStays
    <3>. QED BY <2>1, <3>1, <3>2, <3>3 DEF OnPath
  <2>4. LookupRight' /\ ListingExact' /\ PathsFollowListings'
    BY <1>1, <1>2, <1>7, <2>1, LastStays
  <2>. QED BY <1>1, <1>2, <1>7, <2>2, <2>3, <2>4 DEF CatInv
<1>8. CASE faults' = faults /\ call.kind \in {"list", "walk"} /\ Reply("notdir", <<>>)
  <2>1. Right("notdir", <<>>, faults')
    BY <1>8 DEF Right
  <2>. QED BY <1>1, <1>2, <1>8, <2>1, ReplyStep
<1>9. CASE /\ faults' = faults /\ Resolves(rec) /\ call.kind \in {"list", "walk"}
           /\ Goto("list") /\ at' = Into(rec) /\ UNCHANGED <<dir, rec, todo>>
  <2>1. phase' = "list" /\ UNCHANGED <<vol, call, todo, scan, last>> /\ at' = Resolved(rec).cnid
    BY <1>1, <1>9 DEF Goto, Into
  <2>2. Underway' /\ OnPath'
    BY <1>1, <1>9, <2>1 DEF Underway, OnPath, Seeking, scan
  <2>3. OnList'
    <3>1. rec \in Having(call.cnid) /\ pos' = 1 /\ entries' = <<>>
      BY <1>1, <1>9, <2>1 DEF scan
    <3>2. \E i \in Having(call.cnid)' : Resolves(i)' /\ Resolved(i)'.cnid = at'
      BY <1>9, <2>1, <3>1, CatalogStays
    <3>3. IsSeq(entries') /\ Range(entries') = {}
      BY <3>1 DEF IsSeq, Range
    <3>4. \A i \in Source' : ~(i < pos')
      <4>1. Source' \subseteq Recs
        BY <1>1, CatalogTypes DEF Source
      <4>. QED BY <1>1, <3>1, <4>1, CatalogTypes
    <3>. QED BY <2>1, <3>1, <3>2, <3>3, <3>4 DEF OnList
  <2>4. LookupRight' /\ ListingExact' /\ PathsFollowListings'
    BY <1>1, <1>2, <1>9, <2>1, LastStays
  <2>. QED BY <1>1, <1>2, <1>9, <2>2, <2>3, <2>4 DEF CatInv
<1>. QED
  <2>1. call.kind \in {"open", "path", "list", "walk"}
    BY <1>1, CallTypes
  <2>. QED BY <1>3, <1>4, <1>5, <1>6, <1>7, <1>8, <1>9, <2>1 DEF Hydrate

LEMMA FindChildStep == ASSUME CatInv, FindChild PROVE CatInv'
<1>. DEFINE n == Head(todo)
            k == Followed
<1>1. /\ phase = "child" /\ UNCHANGED <<vol, cache>> /\ vol \in Volumes /\ faults \in Nat /\ CacheRight
      /\ call.kind = "path" /\ todo # <<>> /\ call \in Calls /\ pos = 1 /\ entries = <<>>
      /\ last = NoReply
  BY DEF FindChild, CatInv, Underway
<1>2. CacheRight'
  BY <1>1, CacheStays
<1>3. Rest /\ (Clear => at \in May[k] /\ \A f \in Nat : Must(f)[k] \subseteq {at})
  BY <1>1 DEF CatInv, OnPath
<1>4. Len(call.path) \in Nat /\ Len(todo) \in Nat \ {0} /\ todo \in Seq(STRING)
  <2>1. todo \in Seq(STRING)
    BY <1>3 DEF Rest
  <2>2. Len(todo) \in Nat \ {0}
    BY ONLY <1>1, <2>1
  <2>. QED BY <1>1, <2>1, <2>2, CallTypes
<1>5. k + 1 \in 1..Len(call.path) /\ k \in Nat /\ n = call.path[k + 1]
  <2>1. Len(todo) <= Len(call.path) /\ todo[1] = call.path[Len(call.path) - Len(todo) + 1] /\ n = todo[1]
    BY <1>3, <1>4 DEF Rest
  <2>2. k = Len(call.path) - Len(todo)
    BY DEF Followed
  <2>. QED BY <1>4, <2>1, <2>2
<1>6. Clear => ~Same("", n)
  <2>1. k + 1 \in DOMAIN call.path /\ n = call.path[k + 1]
    BY <1>1, <1>5, CallTypes
  <2>. QED BY <2>1 DEF Clear, Spoken
<1>7. \A s : FollowTo(call.path, s)[k + 1] = Onward(FollowTo(call.path, s)[k], n, s)
  <2>1. \A s : FollowTo(call.path, s)[k + 1] = Onward(FollowTo(call.path, s)[k + 1 - 1], call.path[k + 1], s)
    BY ONLY <1>4, <1>5, FollowUnfolds
  <2>2. k + 1 - 1 = k
    BY <1>5
  <2>. QED BY <1>5, <2>1, <2>2
<1>8. CASE Fault /\ Fail
  BY <1>1, <1>8, FailStep
<1>9. Named(at, n) \in SUBSET Recs
  BY DEF Named
<1>10. CASE faults' = faults /\ 0 \in Picks(Named(at, n)) /\ Reply("notfound", <<>>)
  <2>. DEFINE s == CertainAt(faults')
  <2>1. Named(at, n) \intersect s = {} /\ s \subseteq Recs
    BY <1>1, <1>9, <1>10, PicksIn, CertainIn
  <2>2. Clear => Follow(call.path, s) = {}
    <3>. SUFFICES ASSUME Clear PROVE Follow(call.path, s) = {}
      OBVIOUS
    <3>0. FollowTo(call.path, s)[k] \subseteq {at}
      BY <1>1, <1>3, <1>10 DEF Must
    <3>. HIDE DEF s
    <3>1. FollowTo(call.path, s)[k + 1] = {}
      BY <1>1, <1>7, <2>1, <3>0, NameMissed
    <3>2. k + 1 \in 0..Len(call.path)
      BY <1>4, <1>5
    <3>. QED BY ONLY <1>4, <3>1, <3>2, FollowEnds
  <2>3. Right("notfound", <<>>, faults')
    BY <1>1, <2>2 DEF Right
  <2>. QED BY <1>1, <1>2, <1>10, <2>3, ReplyStep
<1>11. ASSUME NEW i \in Picks(Named(at, n)), i # 0, faults' = faults, Goto("hydrate"), rec' = i,
              todo' = Tail(todo), UNCHANGED <<at, dir>>
       PROVE  CatInv'
  <2>1. phase' = "hydrate" /\ UNCHANGED <<vol, call, scan, last>>
    BY <1>1, <1>11 DEF Goto
  <2>2. i \in Named(at, n) /\ i \in Recs
    BY <1>1, <1>9, <1>11, PicksIn
  <2>3. Recs' = Recs /\ (Clear' <=> Clear) /\ May' = May /\ \A f : Must(f)' = Must(f)
    BY <2>1, CatalogStays, LeadsStay, ClearStays
  <2>4. Underway' /\ OnList'
    BY <1>1, <1>11, <2>1, <2>2, <2>3 DEF Underway, OnList, Seeking, scan
  <2>5. Rest' /\ Followed' = k + 1
    <3>1. todo' \in Seq(STRING) /\ Len(todo') = Len(todo) - 1 /\ \A j \in 1..Len(todo') : todo'[j] = todo[j + 1]
      BY <1>4, <1>11
    <3>2. \A j \in 1..Len(todo') : j + 1 \in 1..Len(todo)
      BY <1>4, <3>1
    <3>3. \A j \in 1..Len(todo') : todo'[j] = call.path[Len(call.path) - Len(todo) + (j + 1)]
      BY <1>3, <3>1, <3>2 DEF Rest
    <3>4. \A j \in 1..Len(todo') : Len(call.path) - Len(todo) + (j + 1) = Len(call.path) - Len(todo') + j
      <4>1. PICK a \in Nat, b \in Nat : a = Len(call.path) /\ b = Len(todo)
        BY <1>4
      <4>2. \A j \in 1..(b - 1) : a - b + (j + 1) = a - (b - 1) + j
        OBVIOUS
      <4>3. Len(todo') = b - 1
        BY <3>1, <4>1
      <4>. QED BY ONLY <4>1, <4>2, <4>3
    <3>5. \A j \in 1..Len(todo') : todo'[j] = call.path[Len(call.path) - Len(todo') + j]
      BY <3>3, <3>4
    <3>6. Len(todo') <= Len(call.path) /\ Len(call.path) - Len(todo') = Len(call.path) - Len(todo) + 1
      BY <1>3, <1>4, <3>1 DEF Rest
    <3>. QED BY <2>1, <3>1, <3>5, <3>6 DEF Rest, Followed
  <2>6. Clear /\ Resolves(i) => Resolved(i).cnid \in May[k + 1]
    BY <1>1, <1>3, <1>6, <1>7, <2>2, NameLeads DEF Clear, May
  <2>7. ASSUME Clear, NEW f \in Nat
        PROVE  Must(f)[k + 1] \subseteq (IF SureAt(i, f) THEN {Resolved(i).cnid} ELSE {})
    <3>. DEFINE s == CertainAt(f)
    <3>1. s \subseteq Recs /\ (i \in s => SureAt(i, f)) /\ FollowTo(call.path, s)[k] \subseteq {at}
      BY <1>1, <1>3, <2>7, CertainIn DEF CertainAt, Must
    <3>. HIDE DEF s
    <3>2. Onward(FollowTo(call.path, s)[k], n, s) \subseteq (IF i \in s THEN {Resolved(i).cnid} ELSE {})
      BY <1>1, <2>2, <2>7, <3>1, NameBounds DEF Clear
    <3>3. Must(f)[k + 1] = Onward(FollowTo(call.path, s)[k], n, s)
      BY <1>7 DEF Must, s
    <3>. QED BY <3>1, <3>2, <3>3
  <2>8. OnPath'
    <3>. HIDE DEF k
    <3>1. (Resolves(rec)' <=> Resolves(i)) /\ Resolved(rec)' = Resolved(i)
          /\ \A f : SureAt(rec, f)' <=> SureAt(i, f)
      BY <1>11, <2>1, CatalogStays
    <3>. QED BY <2>1, <2>3, <2>5, <2>6, <2>7, <3>1 DEF OnPath
  <2>9. LookupRight' /\ ListingExact' /\ PathsFollowListings'
    BY <1>1, <1>2, <1>11, <2>1, LastStays
  <2>. QED BY <1>1, <1>2, <1>11, <2>4, <2>8, <2>9 DEF CatInv
<1>. QED BY <1>1, <1>8, <1>10, <1>11 DEF FindChild, Named

LEMMA AppendKeeps ==
    ASSUME NEW s, IsSeq(s), NEW x
    PROVE  IsSeq(Append(s, x)) /\ Range(Append(s, x)) = Range(s) \union {x}
<1>1. PICK S : s \in Seq(S)
  BY DEF IsSeq
<1>2. s \in Seq(S \union {x})
  BY <1>1
<1>3. Append(s, x) \in Seq(S \union {x})
  BY <1>2
<1>4. /\ Len(s) \in Nat /\ DOMAIN s = 1..Len(s) /\ DOMAIN Append(s, x) = 1..(Len(s) + 1)
      /\ Append(s, x)[Len(s) + 1] = x /\ \A i \in 1..Len(s) : Append(s, x)[i] = s[i]
  BY <1>2
<1>5. DOMAIN Append(s, x) = DOMAIN s \union {Len(s) + 1}
  BY <1>4
<1>. QED BY <1>3, <1>4, <1>5 DEF IsSeq, Range

\* A listing that goes on.
LEMMA ListOn ==
    ASSUME CatInv, phase = "list", UNCHANGED <<vol, cache, call, phase, place, last, faults>>,
           pos' \in Nat, IsSeq(entries'), Range(entries') \subseteq Listing(at, Recs),
           \A i \in Source' : i < pos' /\ Rec(i).parent = at /\ Listed(i) =>
              Resolves(i) /\ Resolved(i) \in Range(entries')
    PROVE  CatInv'
<1>1. vol \in Volumes /\ CacheRight /\ Underway /\ OnList
  BY DEF CatInv
<1>2. CacheRight'
  BY <1>1, CacheStays
<1>3. UNCHANGED <<vol, call, phase, at, todo, last, faults>> /\ last' = NoReply
  BY <1>1 DEF place, Underway
<1>4. Underway' /\ OnPath'
  BY <1>1, <1>3 DEF Underway, OnPath, Seeking
<1>5. OnList'
  <2>1. \E i \in Having(call.cnid)' : Resolves(i)' /\ Resolved(i)'.cnid = at'
    BY <1>1, <1>3, CatalogStays DEF OnList
  <2>2. Range(entries') \subseteq Listing(at, Recs)'
    BY <1>3, CatalogStays
  <2>3. \A i \in Source' : i < pos' /\ Rec(i)'.parent = at /\ Listed(i)' =>
              Resolves(i)' /\ Resolved(i)' \in Range(entries')
    BY <1>3, CatalogStays
  <2>. QED BY <1>3, <2>1, <2>2, <2>3 DEF OnList
<1>6. LookupRight' /\ ListingExact' /\ PathsFollowListings'
  BY <1>2, <1>3, LastStays
<1>. QED BY <1>1, <1>2, <1>3, <1>4, <1>5, <1>6 DEF CatInv

LEMMA LeftFirst ==
    ASSUME vol \in Volumes, Left # {}
    PROVE  /\ Min(Left) \in Recs /\ Min(Left) \in Nat /\ Rec(Min(Left)).parent = at
           /\ \A j \in Source : Rec(j).parent = at /\ j >= pos => j >= Min(Left)
<1>1. Left \in SUBSET Nat /\ Left \subseteq Recs
  BY CatalogTypes DEF Left, Source
<1>2. Min(Left) \in Left /\ \A j \in Left : Min(Left) <= j
  BY <1>1, LeastIn
<1>3. \A j \in Source : j \in Nat
  BY CatalogTypes DEF Source
<1>4. \A j \in Source : Rec(j).parent = at /\ j >= pos => j >= Min(Left)
  BY <1>1, <1>2, <1>3 DEF Left
<1>. QED BY <1>1, <1>2, <1>4 DEF Left

LEMMA ListEntryStep == ASSUME CatInv, ListEntry PROVE CatInv'
<1>1. /\ phase = "list" /\ Left # {} /\ UNCHANGED <<vol, cache>> /\ vol \in Volumes
      /\ faults \in Nat /\ CacheRight /\ call.kind \in {"list", "walk"}
      /\ pos \in Nat /\ IsSeq(entries) /\ Range(entries) \subseteq Listing(at, Recs)
      /\ \A j \in Source : j < pos /\ Rec(j).parent = at /\ Listed(j) =>
            Resolves(j) /\ Resolved(j) \in Range(entries)
  BY DEF ListEntry, CatInv, Underway, OnList
<1>. PICK i : i = Min(Left)
  OBVIOUS
<1>2. /\ i \in Recs /\ i \in Nat /\ Rec(i).parent = at
      /\ \A j \in Source : Rec(j).parent = at /\ j >= pos => j >= i
  BY <1>1, LeftFirst
<1>3. ASSUME NEW j \in Source, j < i + 1, Rec(j).parent = at PROVE j < pos \/ j = i
  <2>1. j \in Nat
    BY <1>1, CatalogTypes DEF Source
  <2>. QED BY <1>1, <1>2, <1>3, <2>1
<1>4. CASE /\ ~Listed(i)
           /\ pos' = i + 1 /\ UNCHANGED <<call, phase, place, entries, redone, last, faults>>
  <2>1. \A j \in Source : j < pos' /\ Rec(j).parent = at /\ Listed(j) =>
           Resolves(j) /\ Resolved(j) \in Range(entries')
    BY <1>1, <1>3, <1>4
  <2>2. UNCHANGED <<vol, cache, call, phase, place, last, faults>> /\ pos' \in Nat /\ Source' = Source
    BY <1>1, <1>2, <1>4 DEF Source
  <2>3. IsSeq(entries') /\ Range(entries') \subseteq Listing(at, Recs)
    BY <1>1, <1>4
  <2>. QED BY ONLY CatInv, <1>1, <2>1, <2>2, <2>3, ListOn
<1>5. CASE NoInode(i)
  BY <1>1, <1>5, NoInodeStep
<1>6. CASE /\ Listed(i) /\ Resolves(i) /\ pos' = i + 1 /\ entries' = Append(entries, Resolved(i))
           /\ UNCHANGED <<call, phase, place, redone, last, faults>>
  <2>1. IsSeq(entries') /\ Range(entries') = Range(entries) \union {Resolved(i)}
    BY <1>1, <1>6, AppendKeeps
  <2>2. Resolved(i) \in Listing(at, Recs)
    <3>1. i \in {j \in Children(at, Recs) : Resolves(j)}
      BY <1>2, <1>6 DEF Children
    <3>. QED BY <3>1 DEF Listing
  <2>3. \A j \in Source : j < pos' /\ Rec(j).parent = at /\ Listed(j) =>
           Resolves(j) /\ Resolved(j) \in Range(entries')
    BY <1>1, <1>3, <1>6, <2>1
  <2>4. UNCHANGED <<vol, cache, call, phase, place, last, faults>> /\ pos' \in Nat /\ Source' = Source
    BY <1>1, <1>2, <1>6 DEF Source
  <2>5. Range(entries') \subseteq Listing(at, Recs)
    BY <1>1, <2>1, <2>2
  <2>. QED BY ONLY CatInv, <1>1, <2>1, <2>3, <2>4, <2>5, ListOn
<1>7. CASE call.kind = "walk" /\ Reply("ok", Append(entries, Resolved(i))) /\ faults' = faults
  <2>1. Right("ok", Append(entries, Resolved(i)), faults')
    BY <1>7 DEF Right
  <2>2. CacheRight' /\ faults' \in Nat
    BY <1>1, <1>7, CacheStays
  <2>. QED BY <1>1, <1>7, <2>1, <2>2, ReplyStep
<1>. QED BY <1>4, <1>5, <1>6, <1>7 DEF ListEntry

LEMMA ListAgainStep == ASSUME CatInv, ListAgain PROVE CatInv'
<1>1. /\ phase = "list" /\ vol \in Volumes
      /\ IsSeq(entries) /\ Range(entries) \subseteq Listing(at, Recs)
      /\ pos' = 1 /\ UNCHANGED <<vol, cache, call, phase, place, entries, last, faults>>
  BY DEF ListAgain, CatInv, OnList
<1>2. \A j \in Source' : ~(j < pos')
  <2>1. Source' \subseteq Recs
    BY <1>1, CatalogTypes DEF Source
  <2>. QED BY <1>1, <2>1, CatalogTypes
<1>. QED BY <1>1, <1>2, ListOn

LEMMA ListFailsStep == ASSUME CatInv, ListFails PROVE CatInv'
BY FailStep DEF ListFails

LEMMA ListEndStep == ASSUME CatInv, ListEnd PROVE CatInv'
<1>1. /\ phase = "list" /\ Left = {} /\ UNCHANGED <<vol, cache, faults>> /\ vol \in Volumes
      /\ faults \in Nat /\ CacheRight /\ call.kind \in {"list", "walk"}
      /\ pos \in Nat /\ IsSeq(entries) /\ Range(entries) \subseteq Listing(at, Recs)
      /\ \A j \in Source : j < pos /\ Rec(j).parent = at /\ Listed(j) =>
            Resolves(j) /\ Resolved(j) \in Range(entries)
      /\ \E i \in Having(call.cnid) : Resolves(i) /\ Resolved(i).cnid = at
  BY DEF ListEnd, CatInv, Underway, OnList
<1>2. /\ Source \in {vol.searched, vol.walked}
      /\ \A k \in Children(at, Source) : Resolves(k) /\ Resolved(k) \in Range(entries)
  <2>1. ASSUME NEW k \in Children(at, Source) PROVE k < pos
    <3>1. k \in Nat /\ k \notin Left /\ k \in Source /\ Rec(k).parent = at
      BY <1>1, CatalogTypes DEF Children, Source
    <3>. QED BY <1>1, <3>1 DEF Left
  <2>2. Source \in {vol.searched, vol.walked}
    BY DEF Source
  <2>. QED BY <1>1, <2>1, <2>2 DEF Children
<1>3. PICK es : /\ es = (IF call.kind = "walk" THEN entries ELSE Sorted(entries, Distinct(entries)))
                /\ Reply("ok", es)
  BY DEF ListEnd
<1>4. Right("ok", es, faults')
  <2>1. CASE call.kind = "walk"
    BY <2>1 DEF Right
  <2>2. CASE call.kind = "list"
    <3>1. es = Sorted(entries, Distinct(entries))
      BY <1>3, <2>2
    <3>2. /\ Range(es) = Range(entries)
          /\ \A i, j \in DOMAIN es : i < j => es[i] # es[j] /\ ~Ahead(es[j], es[i])
      BY <1>1, <3>1, SortedListing
    <3>. QED BY <1>1, <1>2, <2>2, <3>2 DEF Right
  <2>. QED BY <1>1, <2>1, <2>2
<1>5. CacheRight'
  BY <1>1, CacheStays
<1>. QED BY <1>1, <1>3, <1>4, <1>5, ReplyStep

LEMMA CatStep == ASSUME CatInv, [Next]_vars PROVE CatInv'
<1>1. CASE UNCHANGED vars
  <2>1. UNCHANGED <<vol, cache, call, phase, at, rec, todo, pos, entries, redone, last, faults>>
    BY <1>1 DEF vars, place, scan
  <2>2. vol \in Volumes /\ faults \in Nat /\ CacheRight /\ Underway /\ OnPath /\ OnList
    BY DEF CatInv
  <2>3. CacheRight'
    BY <2>1, <2>2, CacheStays
  <2>4. LookupRight' /\ ListingExact' /\ PathsFollowListings'
    <3>1. Recs' = Recs /\ Certain' = Certain /\ \A i : Sure(i)' <=> Sure(i)
      BY <2>1, SureNow, SureThen, CatalogStays
    <3>2. LookupRight /\ ListingExact /\ PathsFollowListings
      BY DEF CatInv
    <3>3. LookupRight'
      BY <2>1, <3>1, <3>2, CatalogStays DEF LookupRight, Asked
    <3>4. ListingExact'
      BY <2>1, <3>1, <3>2, CatalogStays DEF ListingExact, Asked
    <3>5. PathsFollowListings'
      BY <2>1, <3>1, <3>2, CatalogStays DEF PathsFollowListings, Asked
    <3>. QED BY <3>3, <3>4, <3>5
  <2>5. Underway'
    BY <2>1, <2>2, CatalogStays DEF Underway, Seeking
  <2>6. OnPath'
    <3>1. (Rest' <=> Rest) /\ Followed' = Followed
      BY <2>1 DEF Rest, Followed
    <3>2. /\ Clear' <=> Clear
          /\ May' = May /\ \A f : Must(f)' = Must(f)
          /\ (Resolves(rec)' <=> Resolves(rec)) /\ Resolved(rec)' = Resolved(rec)
          /\ \A f : SureAt(rec, f)' <=> SureAt(rec, f)
      BY <2>1, CatalogStays, LeadsStay, ClearStays
    <3>. QED BY <2>1, <2>2, <3>1, <3>2 DEF OnPath
  <2>7. OnList'
    <3>1. Source' = Source
      BY <2>1 DEF Source
    <3>. QED BY <2>1, <2>2, <3>1, CatalogStays DEF OnList
  <2>. QED BY <2>1, <2>2, <2>3, <2>4, <2>5, <2>6, <2>7 DEF CatInv
<1>2. CASE Next
  BY <1>2, BeginStep, NoCollationStep, LookUpStep, FindThreadStep, FindAmongChildrenStep, ScanCatalogStep,
     HydrateStep, FindChildStep, ListEntryStep, ListAgainStep, ListFailsStep, ListEndStep DEF Next
<1>. QED BY <1>1, <1>2

\* A CNID leads to a record that has it or to an error, whatever the threads say
\* and the cache holds and whatever the searches lose; and to ErrNotFound only if
\* the walk of the tree reaches no record that has it, or for a link without an
\* inode (lookupCNIDRaw, lookupCNIDLinear).
THEOREM LookupsAreRight == Spec => []LookupRight
<1>1. CatInv => LookupRight
  BY DEF CatInv
<1>2. CatInv /\ [Next]_vars => CatInv'
  BY CatStep
<1>. QED BY <1>1, <1>2, CatInit, PTL DEF Spec

\* A listing that ends well has children of the folder only, each once and in order,
\* and all that the search comes by or all that the walk of the tree reaches, after
\* a search that degraded and through a directory link as well (WalkDirCNID,
\* ReadDirCNID).
THEOREM ListingsAreExact == Spec => []ListingExact
<1>1. CatInv => ListingExact
  BY DEF CatInv
<1>2. CatInv /\ [Next]_vars => CatInv'
  BY CatStep
<1>. QED BY <1>1, <1>2, CatInit, PTL DEF Spec

\* OpenPath ends where following the listings of the folders on the way ends, and
\* finds nothing only where listings by the records that every query comes by lead
\* nowhere (OpenPath, findChild).
THEOREM PathsAgreeWithListings == Spec => []PathsFollowListings
<1>1. CatInv => PathsFollowListings
  BY DEF CatInv
<1>2. CatInv /\ [Next]_vars => CatInv'
  BY CatStep
<1>. QED BY <1>1, <1>2, CatInit, PTL DEF Spec
============================================================================
