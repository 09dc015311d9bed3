------------------------- MODULE ParallelMapSpec -------------------------
(***************************************************************************)
(* What parallelMap (workers.go) promises its caller, whatever the number  *)
(* of goroutines: one call over the indices of a job ends with every       *)
(* result, or with the error of one index whose function failed, or with   *)
(* the context error of a caller who really cancelled.  There is no partial*)
(* success and no error of another origin.                                 *)
(***************************************************************************)
EXTENDS Integers

CONSTANTS MaxTasks,    \* largest n a call is made with
          MaxWorkers,  \* largest worker count a call is made with
          Pending,     \* the call has not returned
          Done,        \* it returned (out, nil)
          Canceled     \* it returned (nil, ctx.Err())

VARIABLES job,         \* [n, workers, failing]: the arguments of the call
          ctxDone,     \* the caller's context has been cancelled
          result       \* Pending, Done, Canceled or the index whose fn failed

Jobs == [n : 0..MaxTasks, workers : 0..MaxWorkers, failing : SUBSET (0..MaxTasks-1)]

Init ==
    /\ job \in Jobs
    /\ job.failing \subseteq 0..job.n-1
    /\ ctxDone = FALSE
    /\ result = Pending

Cancel ==
    /\ ~ctxDone
    /\ ctxDone' = TRUE
    /\ UNCHANGED <<job, result>>

Succeed ==
    /\ result = Pending
    /\ job.failing = {}
    /\ result' = Done
    /\ UNCHANGED <<job, ctxDone>>

Fail ==
    /\ result = Pending
    /\ \E i \in job.failing : result' = i
    /\ UNCHANGED <<job, ctxDone>>

GiveUp ==
    /\ result = Pending
    /\ ctxDone
    /\ result' = Canceled
    /\ UNCHANGED <<job, ctxDone>>

Next == Cancel \/ Succeed \/ Fail \/ GiveUp

vars == <<job, ctxDone, result>>

Spec == Init /\ [][Next]_vars
==========================================================================
