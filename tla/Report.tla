------------------------------- MODULE Report -------------------------------
(***************************************************************************)
(* A volume's report (report.go: ReportContext, fileSummaries): a path walk *)
(* whose callback lists files up to a bound, then the anomalies of the     *)
(* volume, which other goroutines may be adding to.  Composed with PathWalk:*)
(* with a plain callback the steps are PathWalk's alone.  What a summary   *)
(* copies from its record and from the volume header is left out.          *)
(***************************************************************************)
EXTENDS PathWalk

CONSTANTS OptionsFor(_), \* what is asked of a volume: Plain, or [files, max, system]
          Plain,         \* a callback that may end the walk whenever it likes
          DefaultMax,    \* DefaultReportMaxFiles
          System,        \* the names isSystemFile knows
          MaxNotes,      \* bounds what other goroutines note
          NoReport

ASSUME ReportAssumption ==
    /\ DefaultMax \in Nat
    /\ \A v \in Volumes : \A o \in OptionsFor(v) :
          o # Plain => o \in [files : BOOLEAN, max : Int, system : BOOLEAN]

VARIABLES opts,
          stage,      \* "walk", "list", "total" or "done"
          listing,    \* the files so far: [cnid, path]
          truncated, ctxDone,
          seen,       \* the anomalies read, before the total is
          report, notes

reportVars == <<opts, stage, listing, truncated, ctxDone, seen, report, notes>>

IsReport == opts # Plain

\* MaxFiles: zero stands for the default, less for no bound.
MaxFiles == IF opts.max = 0 THEN DefaultMax ELSE opts.max

\* Mutant: the bound is found out one file late.
Full_Late == MaxFiles >= 0 /\ Len(listing) > MaxFiles

Full == MaxFiles >= 0 /\ Len(listing) >= MaxFiles

Excluded(c) == vol.records[c].name \in System /\ ~opts.system

ReportInit ==
    /\ Init /\ opts \in OptionsFor(vol)
    /\ stage = (IF opts = Plain \/ opts.files THEN "walk" ELSE "list")
    /\ listing = <<>> /\ truncated = FALSE /\ ctxDone = FALSE
    /\ seen = <<>> /\ report = NoReport /\ notes = 0

\* The callback, of WalkPathsContext and then of fileSummaries: a cancelled
\* context and a full list end the walk, nothing else does.
Summarise(e) ==
    \/ ctxDone /\ phase' = "done" /\ UNCHANGED <<listing, truncated>>
    \/ ~ctxDone /\ Excluded(e.cnid) /\ phase' # "done" /\ UNCHANGED <<listing, truncated>>
    \/ /\ ~ctxDone /\ ~Excluded(e.cnid) /\ Full
       /\ phase' = "done" /\ truncated' = TRUE /\ UNCHANGED listing
    \/ /\ ~ctxDone /\ ~Excluded(e.cnid) /\ ~Full
       /\ phase' # "done" /\ listing' = Append(listing, e) /\ UNCHANGED truncated

\* A step of the walk, with the callback if it comes to that.
Walk ==
    /\ stage = "walk" /\ Next
    /\ IF IsReport /\ emitted' # emitted THEN Summarise(Last(emitted'))
                                         ELSE UNCHANGED <<listing, truncated>>
    /\ UNCHANGED <<opts, stage, ctxDone, seen, report, notes>>

\* A walk that failed, or whose context was cancelled, leaves no report.
Walked ==
    /\ stage = "walk" /\ IsReport /\ phase = "done"
    /\ stage' = IF outcome = "ok" \/ truncated THEN "list" ELSE "done"
    /\ UNCHANGED <<vars, opts, listing, truncated, ctxDone, seen, report, notes>>

\* Anomalies and AnomalyCount, each under its own lock.
ReadAnomalies ==
    /\ stage = "list" /\ stage' = "total" /\ seen' = anomalies.list
    /\ UNCHANGED <<vars, opts, listing, truncated, ctxDone, report, notes>>

ReadTotal ==
    /\ stage = "total" /\ stage' = "done"
    /\ report' = [files |-> listing, truncated |-> truncated,
                  anomalies |-> seen, total |-> anomalies.total]
    /\ UNCHANGED <<vars, opts, listing, truncated, ctxDone, seen, notes>>

Cancel ==
    /\ IsReport /\ ~ctxDone /\ stage # "done" /\ ctxDone' = TRUE
    /\ UNCHANGED <<vars, opts, stage, listing, truncated, seen, report, notes>>

\* Another goroutine, reading the same volume, comes upon something.
OtherNotes ==
    /\ IsReport /\ stage # "done" /\ notes < MaxNotes /\ notes' = notes + 1
    /\ \E op \in {"catalog_decode", "xattr_inline"} : anomalies' = Note(anomalies, op, 0)
    /\ UNCHANGED <<vol, memo, phase, next, climb, kept, emitted, outcome, faults>>
    /\ UNCHANGED <<opts, stage, listing, truncated, ctxDone, seen, report>>

ReportNext == Walk \/ Walked \/ ReadAnomalies \/ ReadTotal \/ Cancel \/ OtherNotes

ReportSpec == ReportInit /\ [][ReportNext]_<<vars, reportVars>>

---------------------------------------------------------------------------
(* Properties *)

\* What the listing is asked for: the sweep without the records that have no
\* name or do not decode and, unless asked for, the system's.
Wanted(c) ==
    /\ c \in DOMAIN vol.records
    /\ c = Root \/ vol.records[c].name # NoName
    /\ ~Excluded(c)

\* What is swept of it in so many records, and in all.
SweptTo[k \in 0..Len(vol.order)] ==
    IF k = 0 THEN <<>>
    ELSE IF Wanted(vol.order[k]) THEN Append(SweptTo[k-1], vol.order[k]) ELSE SweptTo[k-1]

Swept == SweptTo[Len(vol.order)]

\* The first files of the sweep, as many as the bound allows, and cut just when
\* there is one more.
ListsExactly(files, cut) ==
    LET bound == IF MaxFiles < 0 THEN Len(Swept) ELSE MaxFiles
    IN  /\ [i \in DOMAIN files |-> files[i].cnid]
              = SubSeq(Swept, 1, IF bound < Len(Swept) THEN bound ELSE Len(Swept))
        /\ cut <=> Len(Swept) > bound

\* "FilesTruncated says the listing stopped at the bound rather than at the end
\* of the catalog" (report.go:82-83).  A report lists the first files of the sweep
\* in order, as many as the bound allows, and says truncated just when there is
\* one more; a cancellation or a failing read that
\* gets in the way leaves no report, never a short one.
ListsTheSweep ==
    report # NoReport /\ opts.files => ListsExactly(report.files, report.truncated)

\* The records reported without a path.
Orphans == {i \in DOMAIN emitted : emitted[i].path = NoPath}

\* What a list of anomalies and a total say of them.
Announces(list, total) ==
    /\ Cardinality(Orphans) <= total
    /\ Orphans # {} /\ Len(list) < Tracked => \E i \in DOMAIN list : list[i].op = "walk_path"
    /\ \A i, j \in DOMAIN list : list[i].op = list[j].op => i = j
    /\ Len(list) <= total /\ Len(list) <= Tracked

\* "The condition is recorded through Volume.Anomalies" (paths.go:208-212), and
\* "AnomalyTotal counts every occurrence including repeats" (report.go:65-66),
\* whoever else notes anomalies meanwhile: every record without a path is counted
\* and, unless the list is full, one of them is listed; the anomalies listed are
\* distinct, and never more than the total says.
OrphansAnnounced == report # NoReport => Announces(report.anomalies, report.total)
=============================================================================
