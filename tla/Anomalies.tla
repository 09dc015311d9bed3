----------------------------- MODULE Anomalies -----------------------------
(***************************************************************************)
(* The anomalies of a volume (cache.go: noteAnomaly, Anomalies,            *)
(* AnomalyCount): a bounded list of distinct ones, and how often any was   *)
(* noted.  Operators only.  An anomaly is [op, offset]; op stands for the  *)
(* pair of operation and detail that tells anomalies apart.                *)
(***************************************************************************)
EXTENDS Naturals, Sequences

CONSTANT Tracked  \* maxTrackedAnomalies

ASSUME AnomaliesAssumption == Tracked \in Nat

NoAnomalies == [list |-> <<>>, total |-> 0]

\* Mutant: a repeated anomaly is not counted either.
Count_Distinct(a, op) == IF \E i \in DOMAIN a.list : a.list[i].op = op THEN a.total ELSE a.total + 1

Count(a, op) == a.total + 1

\* noteAnomaly: the first of its kind is listed, unless the list is full.
Note(a, op, offset) ==
    [list  |-> IF Len(a.list) >= Tracked \/ \E i \in DOMAIN a.list : a.list[i].op = op
               THEN a.list
               ELSE Append(a.list, [op |-> op, offset |-> offset]),
     total |-> Count(a, op)]
============================================================================
