---------------------------- MODULE WorkerPool ----------------------------
(***************************************************************************)
(* parallelMap of workers.go: the caller's goroutine feeds indices to a    *)
(* pool over an unbuffered channel, the first failure cancels a derived    *)
(* context, and every goroutine is joined before the call returns.  With   *)
(* fewer than two workers, or one task, the caller runs everything itself. *)
(*                                                                         *)
(* The function mapped over the indices is carveBlockRange (deleted.go):   *)
(* it fails for a fixed set of indices, and it looks at its context, so    *)
(* that a task already running may come back with the context error.       *)
(***************************************************************************)
EXTENDS Integers

CONSTANTS MaxTasks,    \* bound on n
          MaxWorkers,  \* bound on the worker count asked for
          Pending, Done, Canceled,  \* outcomes, as in ParallelMapSpec
          None         \* no task, no error

ASSUME PoolAssumption ==
    /\ MaxTasks \in Nat /\ MaxWorkers \in Nat
    /\ {Pending, Done, Canceled, None} \cap Int = {}
    /\ Pending \notin {Done, Canceled, None}
    /\ Done \notin {Canceled, None}
    /\ Canceled # None

VARIABLES job,       \* [n, workers, failing]: the call's arguments
          ctxDone,   \* the caller's context is cancelled
          runDone,   \* the derived context runCtx is cancelled
          main,      \* where the caller's goroutine is
          next,      \* the index it feeds, or runs, next
          pc,        \* where each worker goroutine is
          task,      \* the index each worker received
          once,      \* errOnce: "unused", "running" or "done"
          firstErr,  \* the error errOnce recorded
          out,       \* the indices whose slot of the result is written
          result     \* what the call returned

poolVars == <<pc, task, once, firstErr>>
vars == <<job, ctxDone, runDone, main, next, pc, task, once, firstErr, out, result>>

Workers == 1..MaxWorkers
Tasks == 0..MaxTasks-1
Jobs == [n : 0..MaxTasks, workers : 0..MaxWorkers, failing : SUBSET Tasks]

\* The goroutines a call spawns: never more than it has tasks.
Size == IF job.workers > job.n THEN job.n ELSE job.workers
Pool == 1..Size

Sequential == job.workers < 2 \/ job.n = 1

Init ==
    /\ job \in Jobs /\ job.failing \subseteq 0..job.n-1
    /\ ctxDone = FALSE /\ runDone = FALSE
    /\ main = "start" /\ next = 0
    /\ pc = [w \in Workers |-> "absent"] /\ task = [w \in Workers |-> None]
    /\ once = "unused" /\ firstErr = None
    /\ out = {} /\ result = Pending

---------------------------------------------------------------------------
\* The caller's context may be cancelled at any time, by another goroutine.
CallerCancel ==
    /\ ~ctxDone
    /\ ctxDone' = TRUE
    /\ UNCHANGED <<job, runDone, main, next, poolVars, out, result>>

\* context.WithCancel: the derived context follows its parent, a moment later.
Propagate ==
    /\ ctxDone /\ ~runDone
    /\ main \in {"feed", "drain"}
    /\ runDone' = TRUE
    /\ UNCHANGED <<job, ctxDone, main, next, poolVars, out, result>>

Return(r) ==
    /\ main' = "returned"
    /\ result' = r

---------------------------------------------------------------------------
\* The calling goroutine.

Start ==
    /\ main = "start"
    /\ \/ job.n = 0 /\ Return(Done) /\ UNCHANGED pc
       \/ job.n # 0 /\ Sequential /\ main' = "check" /\ UNCHANGED <<pc, result>>
       \/ /\ job.n # 0 /\ ~Sequential
          /\ main' = "feed"
          /\ pc' = [w \in Workers |-> IF w \in Pool THEN "idle" ELSE "absent"]
          /\ UNCHANGED result
    /\ UNCHANGED <<job, ctxDone, runDone, next, task, once, firstErr, out>>

\* The context is looked at between two tasks, never during one.
SeqCheck ==
    /\ main = "check"
    /\ \/ next = job.n /\ Return(Done)
       \/ next < job.n /\ ctxDone /\ Return(Canceled)
       \/ next < job.n /\ ~ctxDone /\ main' = "run" /\ UNCHANGED result
    /\ UNCHANGED <<job, ctxDone, runDone, next, poolVars, out>>

SeqRun ==
    /\ main = "run"
    /\ \/ next \in job.failing /\ Return(next) /\ UNCHANGED <<next, out>>
       \/ ctxDone /\ Return(Canceled) /\ UNCHANGED <<next, out>>
       \/ /\ next \notin job.failing
          /\ out' = out \union {next}
          /\ next' = next + 1
          /\ main' = "check"
          /\ UNCHANGED result
    /\ UNCHANGED <<job, ctxDone, runDone, poolVars>>

\* Mutant: one index is handed out again.
Send_Twice(w) ==
    /\ main = "feed" /\ next < job.n
    /\ pc[w] = "idle"
    /\ pc' = [pc EXCEPT ![w] = "check"]
    /\ task' = [task EXCEPT ![w] = next]
    /\ \E skip \in {0, 1} : next' = next + skip
    /\ UNCHANGED <<job, ctxDone, runDone, main, once, firstErr, out, result>>

\* tasks <- i: the send completes only together with a worker's receive.
Send(w) ==
    /\ main = "feed" /\ next < job.n
    /\ pc[w] = "idle"
    /\ pc' = [pc EXCEPT ![w] = "check"]
    /\ task' = [task EXCEPT ![w] = next]
    /\ next' = next + 1
    /\ UNCHANGED <<job, ctxDone, runDone, main, once, firstErr, out, result>>

\* All fed, or break feed on runCtx.Done(): either way the channel is closed.
CloseTasks ==
    /\ main = "feed"
    /\ next = job.n \/ runDone
    /\ main' = "drain"
    /\ UNCHANGED <<job, ctxDone, runDone, next, poolVars, out, result>>

\* Mutant: wg.Done() before the error is dealt with.
AllExited_DoneEarly == \A w \in Pool : pc[w] \in {"exited", "cancel"}

\* wg.Wait() is over when the last goroutine of the pool has left.
AllExited == \A w \in Pool : pc[w] = "exited"

\* Mutant: the caller's context is not looked at again after the join.
Verdict_NoRecheck == IF firstErr # None THEN firstErr ELSE Done

\* The error a worker recorded first, else the caller's own, else all results.
Verdict == IF firstErr # None THEN firstErr ELSE IF ctxDone THEN Canceled ELSE Done

JoinAndReturn ==
    /\ main = "drain"
    /\ AllExited
    /\ Return(Verdict)
    /\ runDone' = TRUE   \* the deferred cancel()
    /\ UNCHANGED <<job, ctxDone, next, poolVars, out>>

---------------------------------------------------------------------------
\* A worker goroutine.

\* range tasks ends once the channel is closed.
Exit(w) ==
    /\ pc[w] = "idle" /\ main = "drain"
    /\ pc' = [pc EXCEPT ![w] = "exited"]
    /\ UNCHANGED <<job, ctxDone, runDone, main, next, task, once, firstErr, out, result>>

\* errOnce.Do: the first caller records its error and then cancels; a later
\* caller waits until the first is through.
EnterOnce(w, err) ==
    /\ once = "unused"
    /\ once' = "running" /\ firstErr' = err
    /\ pc' = [pc EXCEPT ![w] = "cancel"]

LoseOnce(w) ==
    /\ once = "done"
    /\ pc' = [pc EXCEPT ![w] = "exited"]
    /\ UNCHANGED <<once, firstErr>>

\* Mutant: no sync.Once, the last error wins.
FailWith_LastWins(w, err) ==
    \/ EnterOnce(w, err)
    \/ /\ once = "done" /\ firstErr' = err
       /\ pc' = [pc EXCEPT ![w] = "exited"]
       /\ UNCHANGED once

FailWith(w, err) == EnterOnce(w, err) \/ LoseOnce(w)

Check(w) ==
    /\ pc[w] = "check"
    /\ \/ runDone /\ FailWith(w, Canceled)
       \/ ~runDone /\ pc' = [pc EXCEPT ![w] = "run"] /\ UNCHANGED <<once, firstErr>>
    /\ UNCHANGED <<job, ctxDone, runDone, main, next, task, out, result>>

RunFails(w) ==
    /\ pc[w] = "run"
    /\ \/ task[w] \in job.failing /\ FailWith(w, task[w])
       \/ runDone /\ FailWith(w, Canceled)
    /\ UNCHANGED <<job, ctxDone, runDone, main, next, task, out, result>>

\* out[i] = v, and back to the range loop.
RunSucceeds(w) ==
    /\ pc[w] = "run"
    /\ task[w] \notin job.failing
    /\ out' = out \union {task[w]}
    /\ pc' = [pc EXCEPT ![w] = "idle"]
    /\ UNCHANGED <<job, ctxDone, runDone, main, next, task, once, firstErr, result>>

\* Mutant: the failure is recorded but the pool is not cancelled.
CancelRun_NoCancel(w) ==
    /\ pc[w] = "cancel"
    /\ once' = "done"
    /\ pc' = [pc EXCEPT ![w] = "exited"]
    /\ UNCHANGED <<job, ctxDone, runDone, main, next, task, firstErr, out, result>>

\* cancel() inside errOnce.Do, then the worker leaves.
CancelRun(w) ==
    /\ pc[w] = "cancel"
    /\ runDone' = TRUE /\ once' = "done"
    /\ pc' = [pc EXCEPT ![w] = "exited"]
    /\ UNCHANGED <<job, ctxDone, main, next, task, firstErr, out, result>>

---------------------------------------------------------------------------
Caller == Start \/ SeqCheck \/ SeqRun \/ CloseTasks \/ JoinAndReturn

Worker(w) ==
    Send(w) \/ Exit(w) \/ Check(w) \/ RunFails(w) \/ RunSucceeds(w) \/ CancelRun(w)

Next == CallerCancel \/ Propagate \/ Caller \/ \E w \in Workers : Worker(w)

\* Go schedules every runnable goroutine, and a task's reads return: each
\* goroutine that can move does move.  Nobody is obliged to cancel the call.
Fairness ==
    /\ WF_vars(Caller) /\ WF_vars(Propagate)
    /\ \A w \in Workers : WF_vars(Worker(w))

Spec == Init /\ [][Next]_vars
FairSpec == Spec /\ Fairness

---------------------------------------------------------------------------
(* Properties *)

\* Indices a worker has received and not yet disposed of.
Holding(w) == pc[w] \in {"check", "run"}

\* Every variable stays within what the Go declarations and the control flow
\* of parallelMap allow; in particular the feed never runs past n.
TypeOK ==
    /\ job \in Jobs /\ job.failing \subseteq 0..job.n-1
    /\ ctxDone \in BOOLEAN /\ runDone \in BOOLEAN
    /\ main \in {"start", "check", "run", "feed", "drain", "returned"}
    /\ next \in 0..job.n
    /\ pc \in [Workers -> {"absent", "idle", "check", "run", "cancel", "exited"}]
    /\ task \in [Workers -> Tasks \union {None}]
    /\ once \in {"unused", "running", "done"}
    /\ firstErr \in Tasks \union {Canceled, None}
    /\ out \subseteq 0..job.n-1
    /\ result \in Tasks \union {Pending, Done, Canceled}

\* A nil error means that every slot of the result was written by the function
\* and none failed: a feed cut short by a cancellation that no worker got to
\* notice must not look like success (workers.go:106-112).
NoPartialSuccess ==
    result = Done => out = 0..job.n-1 /\ job.failing = {}

\* The cancellation the pool raises to stop itself never surfaces as the
\* error of the call: a context error is the caller's own (workers.go:60-70).
CancelIsCallers ==
    Canceled \in {firstErr, result} => ctxDone

\* out[i] = v needs no lock because no two goroutines ever hold one index, and
\* an index still held has not been written (workers.go:88).
OneOwner ==
    \A v, w \in Workers : Holding(v) =>
        /\ task[v] \notin out
        /\ v # w /\ Holding(w) => task[v] # task[w]

\* Every goroutine is joined before the call returns: none is left to write to
\* the result or to touch the volume afterwards (workers.go:20-26).
Joined ==
    main = "returned" => \A w \in Workers : pc[w] \in {"absent", "exited"}

\* The pool implements the abstract call: all results, or the error of an
\* index that fails, or the caller's cancellation.
Abs == INSTANCE ParallelMapSpec WITH job <- job, ctxDone <- ctxDone, result <- result
RefinesSpec == Abs!Spec

\* Feeder and workers never wait on each other for ever: the call returns,
\* cancelled or not, whatever fails and in whatever order (workers.go:93-104).
Returns == <>(main = "returned")
===========================================================================
