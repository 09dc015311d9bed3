----------------------------- MODULE HardLinks -----------------------------
(***************************************************************************)
(* Resolution of hard links by concurrent callers of one Volume            *)
(* (catalog.go: resolveHardLinkRecord, lookupHardLinkInode,                *)
(* findInodeByName, privateDirCNID, findPrivateDir).                       *)
(*                                                                         *)
(* A stub carries a number; its inode is the record of that name in the    *)
(* private directory for the stub's kind, or, failing that, the record with*)
(* that CNID.  Where the two directories are is cached in privDirs, read   *)
(* and written under v.mu, which is not held while the root is searched.   *)
(* A read fault is one that defeats keyed descent and its fallback.        *)
(***************************************************************************)
EXTENDS Integers, FiniteSets

CONSTANTS Callers,
          Cnids,         \* CNIDs, and the numbers stubs carry
          Links,         \* stubs: [cnid, number, store]
          LinkVolumes,   \* volumes: [dirs, inodes, records]
          MaxReadFaults, \* bound on failing reads
          Unlooked, Absent, NotFound, Nothing

Stores == {"fileLinks", "dirLinks"}

(***************************************************************************)
(* dirs: the private directories the root holds; inodes[s]: what the names *)
(* in s lead to, from numbers to CNIDs; records: the CNIDs in use.         *)
(***************************************************************************)
IsVolume(v) ==
    /\ v.dirs \subseteq Stores /\ v.records \subseteq Cnids
    /\ \A s \in Stores : \A n \in DOMAIN v.inodes[s] : v.inodes[s][n] \in v.records

ASSUME HardLinksAssumption ==
    /\ \A v \in LinkVolumes : IsVolume(v)
    /\ Links \subseteq [cnid : Cnids, number : Cnids, store : Stores]
    /\ MaxReadFaults \in Nat
    /\ Absent \notin Stores \union {Unlooked} /\ Unlooked \notin Stores
    /\ NotFound \notin Cnids /\ Nothing \notin Cnids \union {NotFound} /\ Nothing \notin Links

VARIABLES disk,
          privDirs,    \* privDirs[s]: Unlooked, Absent or the directory found
          stage, link, \* where each caller is, and the stub it opens
          via,         \* via[c]: the directory, or Absent, it goes by
          answer,      \* answer[c]: the CNID its last open resolved to
          hit,         \* hit[c]: a read failed during this open
          readFaults

caller   == <<stage, link, via, answer, hit>>
linkVars == <<disk, privDirs, caller, readFaults>>

LinkInit ==
    /\ disk \in LinkVolumes
    /\ privDirs = [s \in Stores |-> Unlooked]
    /\ stage = [c \in Callers |-> "idle"] /\ link = [c \in Callers |-> Nothing]
    /\ via = [c \in Callers |-> Absent] /\ answer = [c \in Callers |-> Nothing]
    /\ hit = [c \in Callers |-> FALSE]
    /\ readFaults = 0

---------------------------------------------------------------------------
Move(c, from, to) == stage[c] = from /\ stage' = [stage EXCEPT ![c] = to]

Answer(c, from, a) == Move(c, from, "idle") /\ answer' = [answer EXCEPT ![c] = a]

ReadOK(c)    == UNCHANGED <<readFaults, hit>>
ReadFails(c) == readFaults < MaxReadFaults /\ readFaults' = readFaults + 1 /\ hit' = [hit EXCEPT ![c] = TRUE]

\* Mutant: that there is no directory is not noticed.
After_Always(d) == "inode"

\* Mutant: the number of a stub is taken for the CNID of its inode.
After_Cnid(d) == "cnid"

\* With a directory the inode is looked up by name, without one by CNID.
After(d) == IF d = Absent THEN "cnid" ELSE "inode"

\* resolveHardLinkRecord: a stub whose number is its own CNID is not followed.
Open(c, l) ==
    /\ link' = [link EXCEPT ![c] = l]
    /\ hit' = [hit EXCEPT ![c] = FALSE]
    /\ IF l.number = l.cnid
       THEN stage[c] = "idle" /\ answer' = [answer EXCEPT ![c] = l.cnid] /\ UNCHANGED stage
       ELSE Move(c, "idle", "check") /\ answer' = [answer EXCEPT ![c] = Nothing]
    /\ UNCHANGED <<disk, privDirs, via, readFaults>>

\* privateDirCNID, under the read lock.
CheckStore(c) ==
    /\ stage[c] = "check"
    /\ LET known == privDirs[link[c].store] IN
       IF known = Unlooked
       THEN Move(c, "check", "find") /\ UNCHANGED via
       ELSE /\ Move(c, "check", After(known))
            /\ via' = [via EXCEPT ![c] = known]
    /\ UNCHANGED <<disk, privDirs, link, answer, hit, readFaults>>

\* Mutant: either directory's name will do for the file store.
Matches_AnyPrivate(s, d) == s = "dirLinks" => d = "dirLinks"

\* Both names contain "HFS+ Private": the file store is the one that is not
\* the directory store.
Matches(s, d) == d = "dirLinks" <=> s = "dirLinks"

\* findPrivateDir: a failing search says "not there".
FindPrivateDir(c) ==
    /\ Move(c, "find", "remember")
    /\ LET found == {d \in disk.dirs : Matches(link[c].store, d)} IN
       \/ ReadOK(c) /\ \/ found = {} /\ via' = [via EXCEPT ![c] = Absent]
                       \/ \E d \in found : via' = [via EXCEPT ![c] = d]
       \/ ReadFails(c) /\ via' = [via EXCEPT ![c] = Absent]
    /\ UNCHANGED <<disk, privDirs, link, answer>>

\* What privDirs keeps of a search.
Remembered(s, d) == d

\* privateDirCNID, under the write lock: the last searcher's result stands.
Remember(c) ==
    /\ Move(c, "remember", After(via[c]))
    /\ privDirs' = [privDirs EXCEPT ![link[c].store] = Remembered(link[c].store, via[c])]
    /\ UNCHANGED <<disk, link, via, answer, hit, readFaults>>

\* findInodeByName: a failing search falls back like a missing name.
FindInode(c) ==
    /\ stage[c] = "inode"
    /\ LET names == disk.inodes[via[c]]
           n     == link[c].number
       IN \/ ReadOK(c) /\ n \in DOMAIN names /\ Answer(c, "inode", names[n])
          \/ /\ (ReadOK(c) /\ n \notin DOMAIN names) \/ ReadFails(c)
             /\ Move(c, "inode", "cnid") /\ UNCHANGED answer
    /\ UNCHANGED <<disk, privDirs, link, via>>

\* lookupCNIDRaw.
LookupCNID(c) ==
    /\ stage[c] = "cnid"
    /\ LET n == link[c].number IN
       \/ ReadOK(c) /\ Answer(c, "cnid", IF n \in disk.records THEN n ELSE NotFound)
       \/ ReadFails(c) /\ Answer(c, "cnid", NotFound)
    /\ UNCHANGED <<disk, privDirs, link, via>>

Step(c) ==
    \/ \E l \in Links : Open(c, l)
    \/ CheckStore(c) \/ FindPrivateDir(c) \/ Remember(c) \/ FindInode(c) \/ LookupCNID(c)

LinkNext == \E c \in Callers : Step(c)

LinkSpec == LinkInit /\ [][LinkNext]_linkVars

---------------------------------------------------------------------------
(* Properties *)

\* The inode a stub names: by name in the store of its kind, else by CNID.
Inode(l) ==
    IF l.store \in disk.dirs /\ l.number \in DOMAIN disk.inodes[l.store]
    THEN disk.inodes[l.store][l.number]
    ELSE IF l.number \in disk.records THEN l.number ELSE NotFound

Settled(c) == stage[c] = "idle" /\ link[c] # Nothing
SelfNumbered(l) == l.number = l.cnid

\* A caller is past the check only with a stub and what the check or the
\* search gave it.
LinkTypeOK ==
    /\ disk \in LinkVolumes
    /\ privDirs \in [Stores -> Stores \union {Unlooked, Absent}]
    /\ stage \in [Callers -> {"idle", "check", "find", "remember", "inode", "cnid"}]
    /\ link \in [Callers -> Links \union {Nothing}]
    /\ via \in [Callers -> Stores \union {Absent}]
    /\ answer \in [Callers -> Cnids \union {NotFound, Nothing}]
    /\ hit \in [Callers -> BOOLEAN]
    /\ readFaults \in 0..MaxReadFaults
    /\ \A c \in Callers : /\ stage[c] # "idle" => link[c] # Nothing
                          /\ stage[c] = "inode" => via[c] # Absent
                          /\ Settled(c) <=> answer[c] # Nothing

\* However callers race, a directory that is remembered, or that a caller goes
\* by, is the one for the kind of link (catalog.go:586-590), even when reads
\* fail.
FoundIsRight ==
    /\ \A s \in Stores : privDirs[s] \in Stores => privDirs[s] = s /\ s \in disk.dirs
    /\ \A c \in Callers : stage[c] \in {"remember", "inode"} /\ via[c] \in Stores =>
                             via[c] = link[c].store /\ via[c] \in disk.dirs

\* While no read fails, every open resolves its stub by name first and by CNID
\* second (catalog.go:457-476), whoever filled privDirs.
AnswersRight ==
    readFaults = 0 => \A c \in Callers : Settled(c) /\ ~SelfNumbered(link[c]) =>
                                        answer[c] = Inode(link[c])

\* "Since the volume is read-only, cached data cannot go stale" (README.md):
\* an open none of whose reads failed resolves the stub as a fresh volume
\* would.
HealthyOpenRight ==
    \A c \in Callers : Settled(c) /\ ~hit[c] /\ ~SelfNumbered(link[c]) =>
                          answer[c] = Inode(link[c])

============================================================================
