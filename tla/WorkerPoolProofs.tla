------------------------- MODULE WorkerPoolProofs -------------------------
(***************************************************************************)
(* Proofs about WorkerPool, for every number of tasks and of workers.      *)
(***************************************************************************)
EXTENDS WorkerPool, TLAPS

(* The inductive invariant. *)

\* Which goroutines exist at which point of the call.
PhaseInv ==
    /\ main \in {"start", "check", "run"} =>
          /\ once = "unused" /\ \A w \in Workers : pc[w] = "absent"
    /\ main = "run" => next < job.n
    /\ main = "start" => next = 0 /\ out = {}
    /\ main = "drain" /\ next < job.n => runDone
    /\ main = "returned" => \A w \in Workers : pc[w] \in {"absent", "exited"}
    /\ \A w \in Workers : pc[w] # "absent" => w \in Pool

\* The derived context is cancelled for a reason, and the reason is known
\* before the cancellation can be seen.
OnceInv ==
    /\ once = "unused" <=> firstErr = None
    /\ runDone /\ main # "returned" => ctxDone \/ once = "done"
    /\ firstErr = Canceled => ctxDone
    /\ firstErr \in Tasks => firstErr \in job.failing
    /\ \A w \in Workers : pc[w] = "cancel" => once = "running"
    /\ \A v, w \in Workers : pc[v] = "cancel" /\ pc[w] = "cancel" => v = w

\* Where each index handed out is, as long as nothing failed.
TaskInv ==
    /\ out \cap job.failing = {}
    /\ \A i \in out : i < next
    /\ \A w \in Workers : Holding(w) => task[w] \in 0..next-1 /\ task[w] \notin out
    /\ \A v, w \in Workers : Holding(v) /\ Holding(w) /\ v # w => task[v] # task[w]
    /\ once = "unused" /\ result \in {Pending, Done} =>
          \A i \in 0..next-1 : i \in out \/ \E w \in Workers : Holding(w) /\ task[w] = i

ResultInv ==
    /\ main # "returned" <=> result = Pending
    /\ result = Done => out = 0..job.n-1
    /\ result = Canceled => ctxDone
    /\ result \in Tasks => result \in job.failing

IInv == TypeOK /\ PhaseInv /\ OnceInv /\ TaskInv /\ ResultInv

---------------------------------------------------------------------------
LEMMA InitInv == Init => IInv
<1>. SUFFICES ASSUME Init PROVE IInv
  OBVIOUS
<1>. USE PoolAssumption DEF Init
<1>1. TypeOK
  <2>1. task \in [Workers -> Tasks \union {None}]
    OBVIOUS
  <2>2. pc \in [Workers -> {"absent", "idle", "check", "run", "cancel", "exited"}]
    OBVIOUS
  <2>. QED
    BY <2>1, <2>2 DEF TypeOK, Jobs, Tasks
<1>2. PhaseInv /\ OnceInv /\ TaskInv /\ ResultInv
  BY DEF PhaseInv, OnceInv, TaskInv, ResultInv, Holding, Tasks, Jobs
<1>. QED
  BY <1>1, <1>2 DEF IInv

\* CallerCancel preserves the inductive invariant.
LEMMA CallerCancelInv ==
    ASSUME IInv, CallerCancel
    PROVE  IInv'
<1>. USE PoolAssumption DEF IInv, CallerCancel, poolVars
<1>1. TypeOK'
  BY DEF TypeOK, Jobs, Tasks, Workers, PhaseInv, OnceInv, TaskInv, Holding
<1>2. PhaseInv'
  BY DEF TypeOK, PhaseInv, Workers, Tasks, Jobs, Pool, Size, Holding
<1>3. OnceInv'
  BY DEF TypeOK, PhaseInv, OnceInv, ResultInv, Workers, Tasks, Jobs
<1>4. TaskInv'
  BY DEF TypeOK, PhaseInv, OnceInv, TaskInv, ResultInv, Workers, Tasks, Jobs, Holding
<1>5. ResultInv'
  BY DEF TypeOK, PhaseInv, OnceInv, TaskInv, ResultInv, Workers, Tasks, Jobs, Holding
<1>. QED
  BY <1>1, <1>2, <1>3, <1>4, <1>5

\* Propagate preserves the inductive invariant.
LEMMA PropagateInv ==
    ASSUME IInv, Propagate
    PROVE  IInv'
<1>. USE PoolAssumption DEF IInv, Propagate, poolVars
<1>1. TypeOK'
  BY DEF TypeOK, Jobs, Tasks, Workers, PhaseInv, OnceInv, TaskInv, Holding
<1>2. PhaseInv'
  BY DEF TypeOK, PhaseInv, Workers, Tasks, Jobs, Pool, Size, Holding
<1>3. OnceInv'
  BY DEF TypeOK, PhaseInv, OnceInv, ResultInv, Workers, Tasks, Jobs
<1>4. TaskInv'
  BY DEF TypeOK, PhaseInv, OnceInv, TaskInv, ResultInv, Workers, Tasks, Jobs, Holding
<1>5. ResultInv'
  BY DEF TypeOK, PhaseInv, OnceInv, TaskInv, ResultInv, Workers, Tasks, Jobs, Holding
<1>. QED
  BY <1>1, <1>2, <1>3, <1>4, <1>5

\* Start preserves the inductive invariant.
LEMMA StartInv ==
    ASSUME IInv, Start
    PROVE  IInv'
<1>. USE PoolAssumption DEF IInv, Start, Return, poolVars
<1>1. TypeOK'
  BY DEF TypeOK, Jobs, Tasks, Workers, PhaseInv, OnceInv, TaskInv, Holding
<1>2. PhaseInv'
  BY DEF TypeOK, PhaseInv, Workers, Tasks, Jobs, Pool, Size, Holding
<1>3. OnceInv'
  BY DEF TypeOK, PhaseInv, OnceInv, ResultInv, Workers, Tasks, Jobs
<1>4. TaskInv'
  <2>. USE DEF TypeOK, PhaseInv, TaskInv, Workers
  <2>1. \A w \in Workers : pc'[w] \in {"absent", "idle"}
    OBVIOUS
  <2>2. \A w \in Workers : ~Holding(w)'
    BY <2>1 DEF Holding
  <2>3. next' = 0 /\ out' = {}
    OBVIOUS
  <2>4. 0..next'-1 = {}
    BY <2>3
  <2>. QED
    BY <2>2, <2>3, <2>4
<1>5. ResultInv'
  <2>. USE DEF TypeOK, PhaseInv, ResultInv, Tasks
  <2>1. CASE job.n = 0 /\ Return(Done)
    <3>1. out' = {} /\ 0..job'.n-1 = {}
      BY <2>1
    <3>. QED
      BY <2>1, <3>1
  <2>2. CASE main' \in {"check", "feed"} /\ UNCHANGED result
    BY <2>2
  <2>. QED
    BY <2>1, <2>2
<1>. QED
  BY <1>1, <1>2, <1>3, <1>4, <1>5

\* SeqCheck preserves the inductive invariant.
LEMMA SeqCheckInv ==
    ASSUME IInv, SeqCheck
    PROVE  IInv'
<1>. USE PoolAssumption DEF IInv, SeqCheck, Return, poolVars
<1>1. TypeOK'
  BY DEF TypeOK, Jobs, Tasks, Workers, PhaseInv, OnceInv, TaskInv, Holding
<1>2. PhaseInv'
  BY DEF TypeOK, PhaseInv, Workers, Tasks, Jobs, Pool, Size, Holding
<1>3. OnceInv'
  BY DEF TypeOK, PhaseInv, OnceInv, ResultInv, Workers, Tasks, Jobs
<1>4. TaskInv'
  BY DEF TypeOK, PhaseInv, OnceInv, TaskInv, ResultInv, Workers, Tasks, Jobs, Holding
<1>5. ResultInv'
  BY DEF TypeOK, PhaseInv, OnceInv, TaskInv, ResultInv, Workers, Tasks, Jobs, Holding
<1>. QED
  BY <1>1, <1>2, <1>3, <1>4, <1>5

\* SeqRun preserves the inductive invariant.
LEMMA SeqRunInv ==
    ASSUME IInv, SeqRun
    PROVE  IInv'
<1>. USE PoolAssumption DEF IInv, SeqRun, Return, poolVars
<1>1. TypeOK'
  <2>. USE DEF TypeOK, PhaseInv, Jobs, Tasks
  <2>1. next \in 0..job.n-1 /\ next \in Tasks
    OBVIOUS
  <2>2. out' \subseteq 0..job.n-1
    BY <2>1
  <2>3. next' \in 0..job.n /\ result' \in Tasks \union {Pending, Done, Canceled}
    BY <2>1
  <2>. QED
    BY <2>2, <2>3
<1>2. PhaseInv'
  BY DEF TypeOK, PhaseInv, Workers, Tasks, Jobs, Pool, Size, Holding
<1>3. OnceInv'
  BY DEF TypeOK, PhaseInv, OnceInv, ResultInv, Workers, Tasks, Jobs
<1>4. TaskInv'
  BY DEF TypeOK, PhaseInv, OnceInv, TaskInv, ResultInv, Workers, Tasks, Jobs, Holding
<1>5. ResultInv'
  BY DEF TypeOK, PhaseInv, OnceInv, TaskInv, ResultInv, Workers, Tasks, Jobs, Holding
<1>. QED
  BY <1>1, <1>2, <1>3, <1>4, <1>5

\* CloseTasks preserves the inductive invariant.
LEMMA CloseTasksInv ==
    ASSUME IInv, CloseTasks
    PROVE  IInv'
<1>. USE PoolAssumption DEF IInv, CloseTasks, poolVars
<1>1. TypeOK'
  BY DEF TypeOK, Jobs, Tasks, Workers, PhaseInv, OnceInv, TaskInv, Holding
<1>2. PhaseInv'
  BY DEF TypeOK, PhaseInv, Workers, Tasks, Jobs, Pool, Size, Holding
<1>3. OnceInv'
  BY DEF TypeOK, PhaseInv, OnceInv, ResultInv, Workers, Tasks, Jobs
<1>4. TaskInv'
  BY DEF TypeOK, PhaseInv, OnceInv, TaskInv, ResultInv, Workers, Tasks, Jobs, Holding
<1>5. ResultInv'
  BY DEF TypeOK, PhaseInv, OnceInv, TaskInv, ResultInv, Workers, Tasks, Jobs, Holding
<1>. QED
  BY <1>1, <1>2, <1>3, <1>4, <1>5

\* JoinAndReturn preserves the inductive invariant.
LEMMA JoinAndReturnInv ==
    ASSUME IInv, JoinAndReturn
    PROVE  IInv'
<1>. USE PoolAssumption DEF IInv, JoinAndReturn, Return, Verdict, AllExited, poolVars
<1>1. TypeOK'
  BY DEF TypeOK, Jobs, Tasks, Workers, PhaseInv, OnceInv, TaskInv, Holding
<1>2. PhaseInv'
  BY DEF TypeOK, PhaseInv, Workers, Tasks, Jobs, Pool, Size, Holding
<1>3. OnceInv'
  BY DEF TypeOK, PhaseInv, OnceInv, ResultInv, Workers, Tasks, Jobs
<1>4. TaskInv'
  BY DEF TypeOK, PhaseInv, OnceInv, TaskInv, ResultInv, Workers, Tasks, Jobs, Holding
<1>5. ResultInv'
  BY DEF TypeOK, PhaseInv, OnceInv, TaskInv, ResultInv, Workers, Tasks, Jobs, Holding
<1>. QED
  BY <1>1, <1>2, <1>3, <1>4, <1>5

\* Send(w) preserves the inductive invariant.
LEMMA SendInv ==
    ASSUME IInv, NEW w \in Workers, Send(w)
    PROVE  IInv'
<1>. USE PoolAssumption DEF IInv, Send, poolVars
<1>1. TypeOK'
  BY DEF TypeOK, Jobs, Tasks, Workers, PhaseInv, OnceInv, TaskInv, Holding
<1>2. PhaseInv'
  BY DEF TypeOK, PhaseInv, Workers, Tasks, Jobs, Pool, Size, Holding
<1>3. OnceInv'
  BY DEF TypeOK, PhaseInv, OnceInv, ResultInv, Workers, Tasks, Jobs
<1>4. TaskInv'
  BY DEF TypeOK, PhaseInv, OnceInv, TaskInv, ResultInv, Workers, Tasks, Jobs, Holding
<1>5. ResultInv'
  BY DEF TypeOK, PhaseInv, OnceInv, TaskInv, ResultInv, Workers, Tasks, Jobs, Holding
<1>. QED
  BY <1>1, <1>2, <1>3, <1>4, <1>5

\* Exit(w) preserves the inductive invariant.
LEMMA ExitInv ==
    ASSUME IInv, NEW w \in Workers, Exit(w)
    PROVE  IInv'
<1>. USE PoolAssumption DEF IInv, Exit, poolVars
<1>1. TypeOK'
  BY DEF TypeOK, Jobs, Tasks, Workers, PhaseInv, OnceInv, TaskInv, Holding
<1>2. PhaseInv'
  BY DEF TypeOK, PhaseInv, Workers, Tasks, Jobs, Pool, Size, Holding
<1>3. OnceInv'
  BY DEF TypeOK, PhaseInv, OnceInv, ResultInv, Workers, Tasks, Jobs
<1>4. TaskInv'
  <2>1. pc \in [Workers -> {"absent", "idle", "check", "run", "cancel", "exited"}]
    BY DEF TypeOK
  <2>2. \A v \in Workers : Holding(v)' <=> Holding(v)
    BY <2>1 DEF Holding
  <2>. QED BY <2>2 DEF TaskInv
<1>5. ResultInv'
  BY DEF TypeOK, PhaseInv, OnceInv, TaskInv, ResultInv, Workers, Tasks, Jobs, Holding
<1>. QED
  BY <1>1, <1>2, <1>3, <1>4, <1>5

\* Check(w) preserves the inductive invariant.
LEMMA CheckInv ==
    ASSUME IInv, NEW w \in Workers, Check(w)
    PROVE  IInv'
<1>. USE PoolAssumption DEF IInv, Check, FailWith, EnterOnce, LoseOnce, poolVars
<1>1. TypeOK'
  <2>1. pc' \in [Workers -> {"absent", "idle", "check", "run", "cancel", "exited"}]
    BY DEF TypeOK
  <2>2. once' \in {"unused", "running", "done"} /\ firstErr' \in Tasks \union {Canceled, None}
    BY DEF TypeOK
  <2>. QED BY <2>1, <2>2 DEF TypeOK
<1>2. PhaseInv'
  BY DEF TypeOK, PhaseInv, Workers, Tasks, Jobs, Pool, Size, Holding
<1>3. OnceInv'
  BY DEF TypeOK, PhaseInv, OnceInv, ResultInv, Workers, Tasks, Jobs
<1>4. TaskInv'
  <2>. USE DEF TypeOK, TaskInv, ResultInv, PhaseInv, Workers, Holding
  <2>1. CASE ~runDone /\ pc' = [pc EXCEPT ![w] = "run"]
    <3>1. \A v \in Workers : Holding(v)' <=> Holding(v)
      BY <2>1
    <3>. QED
      BY <2>1, <3>1
  <2>2. CASE runDone /\ FailWith(w, Canceled)
    <3>1. once' # "unused"
      BY <2>2
    <3>2. \A v \in Workers : Holding(v)' => Holding(v)
      BY <2>2
    <3>. QED
      BY <2>2, <3>1, <3>2
  <2>. QED
    BY <2>1, <2>2
<1>5. ResultInv'
  BY DEF TypeOK, PhaseInv, OnceInv, TaskInv, ResultInv, Workers, Tasks, Jobs, Holding
<1>. QED
  BY <1>1, <1>2, <1>3, <1>4, <1>5

\* RunFails(w) preserves the inductive invariant.
LEMMA RunFailsInv ==
    ASSUME IInv, NEW w \in Workers, RunFails(w)
    PROVE  IInv'
<1>. USE PoolAssumption DEF IInv, RunFails, FailWith, EnterOnce, LoseOnce, poolVars
<1>1. TypeOK'
  BY DEF TypeOK, Jobs, Tasks, Workers, PhaseInv, OnceInv, TaskInv, Holding
<1>2. PhaseInv'
  BY DEF TypeOK, PhaseInv, Workers, Tasks, Jobs, Pool, Size, Holding
<1>3. OnceInv'
  <2>. USE DEF TypeOK, PhaseInv, OnceInv, Workers
  <2>1. main # "returned"
    OBVIOUS
  <2>2. CASE task[w] \in job.failing /\ EnterOnce(w, task[w])
    <3>1. task[w] \in Tasks /\ task[w] # None /\ task[w] # Canceled
      BY <2>2 DEF Tasks, Jobs
    <3>. QED
      BY <2>1, <2>2, <3>1
  <2>3. CASE runDone /\ EnterOnce(w, Canceled)
    BY <2>1, <2>3 DEF Tasks
  <2>4. CASE LoseOnce(w)
    BY <2>1, <2>4
  <2>. QED
    BY <2>2, <2>3, <2>4
<1>4. TaskInv'
  <2>. USE DEF TypeOK, TaskInv, Workers, Holding
  <2>1. once' # "unused"
    OBVIOUS
  <2>2. \A v \in Workers : Holding(v)' => Holding(v)
    OBVIOUS
  <2>. QED
    BY <2>1, <2>2
<1>5. ResultInv'
  BY DEF TypeOK, PhaseInv, OnceInv, TaskInv, ResultInv, Workers, Tasks, Jobs, Holding
<1>. QED
  BY <1>1, <1>2, <1>3, <1>4, <1>5

\* RunSucceeds(w) preserves the inductive invariant.
LEMMA RunSucceedsInv ==
    ASSUME IInv, NEW w \in Workers, RunSucceeds(w)
    PROVE  IInv'
<1>. USE PoolAssumption DEF IInv, RunSucceeds, poolVars
<1>1. TypeOK'
  <2>. USE DEF TypeOK, Jobs, Tasks
  <2>1. task[w] \in 0..job.n-1
    BY DEF TaskInv, Holding
  <2>2. out' \subseteq 0..job.n-1
    BY <2>1
  <2>. QED
    BY <2>2
<1>2. PhaseInv'
  BY DEF TypeOK, PhaseInv, Workers, Tasks, Jobs, Pool, Size, Holding
<1>3. OnceInv'
  BY DEF TypeOK, PhaseInv, OnceInv, ResultInv, Workers, Tasks, Jobs
<1>4. TaskInv'
  BY DEF TypeOK, PhaseInv, OnceInv, TaskInv, ResultInv, Workers, Tasks, Jobs, Holding
<1>5. ResultInv'
  BY DEF TypeOK, PhaseInv, OnceInv, TaskInv, ResultInv, Workers, Tasks, Jobs, Holding
<1>. QED
  BY <1>1, <1>2, <1>3, <1>4, <1>5

\* CancelRun(w) preserves the inductive invariant.
LEMMA CancelRunInv ==
    ASSUME IInv, NEW w \in Workers, CancelRun(w)
    PROVE  IInv'
<1>. USE PoolAssumption DEF IInv, CancelRun, poolVars
<1>1. TypeOK'
  BY DEF TypeOK, Jobs, Tasks, Workers, PhaseInv, OnceInv, TaskInv, Holding
<1>2. PhaseInv'
  BY DEF TypeOK, PhaseInv, Workers, Tasks, Jobs, Pool, Size, Holding
<1>3. OnceInv'
  BY DEF TypeOK, PhaseInv, OnceInv, ResultInv, Workers, Tasks, Jobs
<1>4. TaskInv'
  BY DEF TypeOK, PhaseInv, OnceInv, TaskInv, ResultInv, Workers, Tasks, Jobs, Holding
<1>5. ResultInv'
  BY DEF TypeOK, PhaseInv, OnceInv, TaskInv, ResultInv, Workers, Tasks, Jobs, Holding
<1>. QED
  BY <1>1, <1>2, <1>3, <1>4, <1>5

---------------------------------------------------------------------------
\* The invariant holds of every behaviour: one lemma per action.
LEMMA InvStep == IInv /\ [Next]_vars => IInv'
<1>. SUFFICES ASSUME IInv, [Next]_vars PROVE IInv'
  OBVIOUS
<1>1. CASE UNCHANGED vars
  BY <1>1 DEF vars, IInv, TypeOK, PhaseInv, OnceInv, TaskInv, ResultInv, Holding,
              Jobs, Pool, Size
<1>2. CASE CallerCancel \/ Propagate \/ Caller
  BY <1>2, CallerCancelInv, PropagateInv, StartInv, SeqCheckInv, SeqRunInv,
     CloseTasksInv, JoinAndReturnInv DEF Caller
<1>3. CASE \E w \in Workers : Worker(w)
  BY <1>3, SendInv, ExitInv, CheckInv, RunFailsInv, RunSucceedsInv, CancelRunInv
     DEF Worker
<1>. QED
  BY <1>1, <1>2, <1>3 DEF Next

LEMMA Invariance == Spec => []IInv
BY InitInv, InvStep, PTL DEF Spec

\* Every variable of parallelMap stays in its declared range.
THEOREM TypeCorrect == Spec => []TypeOK
<1>1. IInv => TypeOK
  BY DEF IInv
<1>. QED
  BY Invariance, <1>1, PTL

\* A call that returns no error has filled every slot, for any n and any
\* number of workers, in whatever order tasks, failures and cancellation come.
THEOREM SuccessIsComplete == Spec => []NoPartialSuccess
<1>1. IInv => NoPartialSuccess
  <2>. SUFFICES ASSUME IInv, result = Done PROVE out = 0..job.n-1 /\ job.failing = {}
    BY DEF NoPartialSuccess
  <2>1. out = 0..job.n-1 /\ out \cap job.failing = {} /\ job.failing \subseteq 0..job.n-1
    BY DEF IInv, ResultInv, TaskInv, TypeOK
  <2>. QED
    BY <2>1
<1>. QED
  BY Invariance, <1>1, PTL

\* The pool's own cancellation is never what the call returns.
THEOREM CancellationIsCallers == Spec => []CancelIsCallers
<1>1. IInv => CancelIsCallers
  BY DEF IInv, CancelIsCallers, OnceInv, ResultInv
<1>. QED
  BY Invariance, <1>1, PTL

\* The unsynchronised writes of workers.go:88 never touch one slot twice.
THEOREM SlotsAreOwned == Spec => []OneOwner
<1>1. IInv => OneOwner
  BY DEF IInv, OneOwner, TaskInv
<1>. QED
  BY Invariance, <1>1, PTL

\* No goroutine outlives the call.
THEOREM AllJoined == Spec => []Joined
<1>1. IInv => Joined
  BY DEF IInv, Joined, PhaseInv
<1>. QED
  BY Invariance, <1>1, PTL

---------------------------------------------------------------------------
(* The pool implements ParallelMapSpec: only returning is visible there. *)

LEMMA RefinementStep == IInv /\ IInv' /\ [Next]_vars => [Abs!Next]_(Abs!vars)
<1>. SUFFICES ASSUME IInv, IInv', [Next]_vars PROVE [Abs!Next]_(Abs!vars)
  OBVIOUS
<1>. USE DEF Abs!Next, Abs!vars
<1>1. CASE UNCHANGED <<job, ctxDone, result>>
  BY <1>1
<1>2. CASE CallerCancel
  BY <1>2 DEF CallerCancel, Abs!Cancel
<1>3. CASE UNCHANGED <<job, ctxDone>> /\ result = Pending /\ result' # Pending
  <2>1. CASE result' = Done
    <3>1. job.failing = {}
      BY <1>3, <2>1 DEF IInv, ResultInv, TaskInv, TypeOK
    <3>. QED
      BY <1>3, <2>1, <3>1 DEF Abs!Succeed
  <2>2. CASE result' = Canceled
    BY <1>3, <2>2 DEF IInv, ResultInv, Abs!GiveUp
  <2>3. CASE result' \in Tasks
    BY <1>3, <2>3 DEF IInv, ResultInv, Abs!Fail
  <2>. QED
    BY <1>3, <2>1, <2>2, <2>3 DEF IInv, TypeOK
<1>4. CASE Start \/ SeqCheck \/ SeqRun \/ JoinAndReturn
  <2>1. UNCHANGED <<job, ctxDone>>
    BY <1>4 DEF Start, SeqCheck, SeqRun, JoinAndReturn
  <2>2. result = Pending
    BY <1>4 DEF IInv, ResultInv, Start, SeqCheck, SeqRun, JoinAndReturn
  <2>. QED
    BY <1>1, <1>3, <2>1, <2>2
<1>5. CASE Propagate \/ CloseTasks \/ \E w \in Workers : Worker(w)
  BY <1>1, <1>5 DEF Propagate, CloseTasks, Worker, Send, Exit, Check, RunFails,
                    RunSucceeds, CancelRun
<1>6. CASE UNCHANGED vars
  BY <1>1, <1>6 DEF vars
<1>. QED
  BY <1>2, <1>4, <1>5, <1>6 DEF Next, Caller

\* parallelMap, sequential or parallel, is one atomic step that yields every
\* result, the error of an index that fails, or the caller's cancellation.
THEOREM Refinement == Spec => RefinesSpec
<1>1. Init => Abs!Init
  BY DEF Init, Abs!Init, Jobs, Abs!Jobs, Tasks
<1>. QED
  BY <1>1, Invariance, RefinementStep, PTL DEF Spec, Abs!Spec, RefinesSpec
===========================================================================
