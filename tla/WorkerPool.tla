----------------------------- MODULE WorkerPool -----------------------------
(***************************************************************************)
(* The fixed-size worker pool of pools/workerpool/workerpool.go: a bounded *)
(* queue of jobs, workers that receive from it, callers of TrySubmit and   *)
(* SubmitWithContext that send to it, and Close, which must never close    *)
(* the queue under a sender.                                               *)
(*                                                                         *)
(* One action is one step between two points where a goroutine can be      *)
(* observed by another: a select, a channel operation, a lock.  The code   *)
(* between mu.Lock() and the next check of closedCh reads one thing and    *)
(* nobody else can hold mu, so taking the lock and the re-check are one    *)
(* action, and so is unlocking with the operation before it.               *)
(***************************************************************************)
EXTENDS Naturals, Sequences, FiniteSets, Functions

CONSTANTS Workers,     (* the worker goroutines started by NewPool         *)
          TryCallers,  (* goroutines that call TrySubmit                   *)
          CtxCallers,  (* goroutines that call SubmitWithContext, Submit   *)
          Closers,     (* goroutines that call Close and then Wait         *)
          Jobs,        (* the jobs; a caller retries one that was refused  *)
          QueueSize,   (* capacity of the queue                            *)
          None         (* no job, no holder of the lock                    *)

Callers == TryCallers \cup CtxCallers

ASSUME PoolAssumption ==
  /\ Workers # {}
  /\ IsFiniteSet(Workers)
  /\ QueueSize \in Nat
  /\ TryCallers \cap CtxCallers = {}
  /\ Callers \cap Closers = {}
  /\ None \notin Jobs \cup Callers

VARIABLES queue,       (* jobs buffered in the channel p.queue             *)
          queueClosed, (* close(p.queue) has run                           *)
          closedCh,    (* close(p.closedCh) has run                        *)
          cancelled,   (* p.ctx is cancelled                               *)
          once,        (* state of closeOnce: "new", "busy" or "done"      *)
          mu,          (* the caller that holds p.mu between two steps     *)
          pc,          (* next step of each caller and closer              *)
          call,        (* the job a caller is submitting                   *)
          ctxDone,     (* the context of that call is done                 *)
          worker,      (* next step of each worker                         *)
          task,        (* the job a worker is running                      *)
          accepted,    (* history: jobs whose send succeeded, in order     *)
          started      (* history: jobs received by a worker, in order     *)

intakeVars == <<queueClosed, closedCh, cancelled, once>>
callVars == <<mu, pc, call, ctxDone>>
workVars == <<queue, worker, task, accepted, started>>
vars == <<intakeVars, callVars, workVars>>

Init ==
  /\ queue = <<>>
  /\ queueClosed = FALSE
  /\ closedCh = FALSE
  /\ cancelled = FALSE
  /\ once = "new"
  /\ mu = None
  /\ pc = [p \in Callers \cup Closers |-> "idle"]
  /\ call = [s \in Callers |-> None]
  /\ ctxDone = [s \in Callers |-> FALSE]
  /\ worker = [w \in Workers |-> "select"]
  /\ task = [w \in Workers |-> None]
  /\ accepted = <<>>
  /\ started = <<>>

-----------------------------------------------------------------------------
(* The channel p.queue.  A goroutine parked in its select is served before *)
(* the buffer is used, exactly as the runtime does, so with QueueSize = 0  *)
(* a send succeeds only when a worker is parked.                           *)

Parked == {w \in Workers : worker[w] = "parked"}

StartJob(w, j) ==
  /\ worker' = [worker EXCEPT ![w] = "run"]
  /\ task' = [task EXCEPT ![w] = j]
  /\ started' = Append(started, j)

CanSend == Parked # {} \/ Len(queue) < QueueSize

Send(j) ==
  /\ accepted' = Append(accepted, j)
  /\ \/ /\ \E w \in Parked : StartJob(w, j)
        /\ UNCHANGED queue
     \/ /\ Parked = {}
        /\ Len(queue) < QueueSize
        /\ queue' = Append(queue, j)
        /\ UNCHANGED <<worker, task, started>>

WakeParked == worker' = [w \in Workers |-> IF w \in Parked THEN "leaving" ELSE worker[w]]

-----------------------------------------------------------------------------
(* Workers.                                                                *)

WorkerTake(w) ==
  /\ worker[w] = "select"
  /\ queue # <<>>
  /\ StartJob(w, Head(queue))
  /\ queue' = Tail(queue)
  /\ UNCHANGED <<intakeVars, callVars, accepted>>

WorkerParkEager(w) ==   \* mutant: parks without having looked at the queue
  /\ worker[w] = "select"
  /\ ~cancelled
  /\ ~queueClosed
  /\ worker' = [worker EXCEPT ![w] = "parked"]
  /\ UNCHANGED <<intakeVars, callVars, queue, task, accepted, started>>

WorkerPark(w) ==
  /\ worker[w] = "select"
  /\ queue = <<>>
  /\ ~cancelled
  /\ ~queueClosed
  /\ worker' = [worker EXCEPT ![w] = "parked"]
  /\ UNCHANGED <<intakeVars, callVars, queue, task, accepted, started>>

\* ctx.Done and the queue may both be ready: the select may choose either.
WorkerLeave(w) ==
  /\ worker[w] = "select"
  /\ cancelled \/ (queueClosed /\ queue = <<>>)
  /\ worker' = [worker EXCEPT ![w] = "leaving"]
  /\ UNCHANGED <<intakeVars, callVars, queue, task, accepted, started>>

\* The job returns nil, returns an error or panics: the loop goes on in each case.
JobReturn(w) ==
  /\ worker[w] = "run"
  /\ worker' = [worker EXCEPT ![w] = "select"]
  /\ task' = [task EXCEPT ![w] = None]
  /\ UNCHANGED <<intakeVars, callVars, queue, accepted, started>>

WorkerDone(w) ==   \* the deferred wg.Done()
  /\ worker[w] = "leaving"
  /\ worker' = [worker EXCEPT ![w] = "exited"]
  /\ UNCHANGED <<intakeVars, callVars, queue, task, accepted, started>>

-----------------------------------------------------------------------------
(* TrySubmit, SubmitWithContext and Submit, which is SubmitWithContext     *)
(* with a context that is never done.                                      *)

Return(s) ==
  /\ pc' = [pc EXCEPT ![s] = "idle"]
  /\ call' = [call EXCEPT ![s] = None]
  /\ ctxDone' = [ctxDone EXCEPT ![s] = FALSE]

GoTo(p, step) ==
  /\ pc' = [pc EXCEPT ![p] = step]
  /\ UNCHANGED <<call, ctxDone>>

\* Jobs are told apart by nothing but their names: they are submitted in a fixed order.
Fresh(j) == j \notin Range(accepted) /\ \A t \in Callers : call[t] # j
NextJob == CHOOSE j \in Jobs : Fresh(j)

Call(s, j) ==
  /\ pc[s] = "idle"
  /\ Fresh(j)
  /\ j = NextJob
  /\ pc' = [pc EXCEPT ![s] = "check"]
  /\ call' = [call EXCEPT ![s] = j]
  /\ UNCHANGED <<intakeVars, workVars, mu, ctxDone>>

\* The deadline of the caller's context passes, or somebody cancels it.
CtxExpire(s) ==
  /\ pc[s] # "idle"
  /\ ~ctxDone[s]
  /\ ctxDone' = [ctxDone EXCEPT ![s] = TRUE]
  /\ UNCHANGED <<intakeVars, workVars, mu, pc, call>>

TryCheck(s) ==
  /\ pc[s] = "check"
  /\ IF closedCh THEN Return(s) ELSE GoTo(s, "lock")
  /\ UNCHANGED <<intakeVars, workVars, mu>>

CtxCheck(s) ==
  /\ pc[s] = "check"
  /\ IF closedCh \/ ctxDone[s] THEN Return(s) ELSE GoTo(s, "lock")
  /\ UNCHANGED <<intakeVars, workVars, mu>>

LockNoUnlock(s) ==   \* mutant: the early return forgets mu.Unlock()
  /\ pc[s] = "lock"
  /\ mu = None
  /\ mu' = s
  /\ IF closedCh THEN Return(s) ELSE GoTo(s, "send")
  /\ UNCHANGED <<intakeVars, workVars>>

\* mu.Lock() and the re-check of closedCh under the lock.
Lock(s) ==
  /\ pc[s] = "lock"
  /\ mu = None
  /\ IF closedCh
       THEN Return(s) /\ UNCHANGED mu
       ELSE GoTo(s, "send") /\ mu' = s
  /\ UNCHANGED <<intakeVars, workVars>>

\* select { case p.queue <- job: ... default: ... } and mu.Unlock().
TrySend(s) ==
  /\ pc[s] = "send"
  /\ mu' = None
  /\ Return(s)
  /\ Send(call[s]) \/ (~CanSend /\ UNCHANGED workVars)
  /\ UNCHANGED intakeVars

\* A sleep that nothing cuts short comes before the next check: a goroutine that
\* sleeps and one that has not been scheduled yet look the same to the others.
CtxSend(s) ==
  /\ pc[s] = "send"
  /\ mu' = None
  /\ \/ Send(call[s]) /\ Return(s)
     \/ ~CanSend /\ GoTo(s, "check") /\ UNCHANGED workVars
  /\ UNCHANGED intakeVars

-----------------------------------------------------------------------------
(* Close and Wait.  closeOnce lets one goroutine in; the others wait until *)
(* it has finished.                                                        *)

CloseCall(c) ==
  /\ pc[c] = "idle"
  /\ GoTo(c, "once")
  /\ UNCHANGED <<intakeVars, workVars, mu>>

Once(c) ==
  /\ pc[c] = "once"
  /\ \/ once = "new" /\ once' = "busy" /\ GoTo(c, "closing")
     \/ once = "done" /\ UNCHANGED once /\ GoTo(c, "wait")
  /\ UNCHANGED <<queueClosed, closedCh, cancelled, workVars, mu>>

CloseCh(c) ==
  /\ pc[c] = "closing"
  /\ closedCh' = TRUE
  /\ GoTo(c, "cancel")
  /\ UNCHANGED <<queueClosed, cancelled, once, workVars, mu>>

Cancel(c) ==
  /\ pc[c] = "cancel"
  /\ cancelled' = TRUE
  /\ WakeParked
  /\ GoTo(c, "closeQueue")
  /\ UNCHANGED <<queueClosed, closedCh, once, queue, task, accepted, started, mu>>

CloseQueueUnlocked(c) ==   \* mutant: close(p.queue) without p.mu
  /\ pc[c] = "closeQueue"
  /\ queueClosed' = TRUE
  /\ WakeParked
  /\ once' = "done"
  /\ GoTo(c, "wait")
  /\ UNCHANGED <<closedCh, cancelled, queue, task, accepted, started, mu>>

\* mu.Lock(); close(p.queue); mu.Unlock().
CloseQueue(c) ==
  /\ pc[c] = "closeQueue"
  /\ mu = None
  /\ queueClosed' = TRUE
  /\ WakeParked
  /\ once' = "done"
  /\ GoTo(c, "wait")
  /\ UNCHANGED <<closedCh, cancelled, queue, task, accepted, started, mu>>

WaitReturnEarly(c) ==   \* mutant: wg.Done() at the top of the worker's return path
  /\ pc[c] = "wait"
  /\ \E w \in Workers : worker[w] = "exited"
  /\ GoTo(c, "waited")
  /\ UNCHANGED <<intakeVars, workVars, mu>>

WaitReturn(c) ==
  /\ pc[c] = "wait"
  /\ \A w \in Workers : worker[w] = "exited"
  /\ GoTo(c, "waited")
  /\ UNCHANGED <<intakeVars, workVars, mu>>

-----------------------------------------------------------------------------
SelectStep(w) == WorkerTake(w) \/ WorkerPark(w) \/ WorkerLeave(w) \/ WorkerDone(w)
TryStep(s) == TryCheck(s) \/ TrySend(s)
CtxStep(s) == CtxCheck(s) \/ CtxSend(s)
CloseStep(c) == Once(c) \/ CloseCh(c) \/ Cancel(c) \/ WaitReturn(c)

\* Every goroutine has returned for good; nothing is left to do.
Terminated ==
  /\ \A c \in Closers : pc[c] = "waited"
  /\ \A s \in Callers : pc[s] = "idle"
  /\ Jobs \subseteq Range(accepted)
  /\ UNCHANGED vars

Next ==
  \/ \E w \in Workers : SelectStep(w) \/ JobReturn(w)
  \/ \E s \in Callers : Lock(s) \/ \E j \in Jobs : Call(s, j)
  \/ \E s \in TryCallers : TryStep(s)
  \/ \E s \in CtxCallers : CtxStep(s) \/ CtxExpire(s)
  \/ \E c \in Closers : CloseCall(c) \/ CloseStep(c) \/ CloseQueue(c)
  \/ Terminated

Spec == Init /\ [][Next]_vars

\* Goroutines keep running; sync.Mutex hands the lock to a goroutine that has
\* waited long enough; a job returns once the pool context is cancelled, and may
\* run for ever before.
Fairness ==
  /\ \A w \in Workers : WF_vars(SelectStep(w) \/ (cancelled /\ JobReturn(w)))
  /\ \A s \in TryCallers : SF_vars(Lock(s) \/ TryStep(s))
  /\ \A s \in CtxCallers : SF_vars(Lock(s) \/ CtxStep(s))
  /\ \A c \in Closers : SF_vars(CloseQueue(c) \/ CloseStep(c))

FairSpec == Spec /\ Fairness

-----------------------------------------------------------------------------
(* Properties.                                                             *)

\* The variables keep their types, and the channel never holds more than its capacity.
TypeOK ==
  /\ queue \in Seq(Jobs) /\ Len(queue) <= QueueSize
  /\ queueClosed \in BOOLEAN
  /\ closedCh \in BOOLEAN
  /\ cancelled \in BOOLEAN
  /\ once \in {"new", "busy", "done"}
  /\ mu \in Callers \cup {None}
  /\ pc \in [Callers \cup Closers ->
               {"idle", "check", "lock", "send",
                "once", "closing", "cancel", "closeQueue", "wait", "waited"}]
  /\ call \in [Callers -> Jobs \cup {None}]
  /\ \A s \in Callers : pc[s] # "idle" => call[s] \in Jobs
  /\ ctxDone \in [Callers -> BOOLEAN]
  /\ worker \in [Workers -> {"select", "parked", "run", "leaving", "exited"}]
  /\ task \in [Workers -> Jobs \cup {None}]
  /\ accepted \in Seq(Jobs)
  /\ started \in Seq(Jobs)

\* "Serializes queue send vs close to avoid send-after-close panics": a caller that
\* is about to send finds the queue open, and closedCh and the queue are closed once.
NoChannelPanic ==
  /\ \A s \in Callers : pc[s] = "send" => ~queueClosed
  /\ \A c \in Closers : /\ pc[c] = "closing" => ~closedCh
                        /\ pc[c] = "closeQueue" => ~queueClosed

\* Every accepted job is either started or still queued, none twice, and the jobs
\* start in the order in which they were accepted, also when a submitter hands a
\* job to a parked worker past the buffer.
FifoConservation == accepted = started \o queue

\* The pool keeps the promise of the abstract executor: nothing is accepted after
\* Close has closed the queue, at most one job per worker runs, and after Wait
\* nothing runs any more.
Abstract == INSTANCE Executor WITH
  Parallelism <- Cardinality(Workers),
  finished <- {j \in Range(started) : \A w \in Workers : task[w] # j},
  open <- ~queueClosed,
  stopped <- \E c \in Closers : pc[c] = "waited"
ImplementsExecutor == Abstract!Spec

Unfinished(c) == pc[c] \notin {"idle", "waited"}

\* Every call returns, whoever else is submitting or closing: Close and then Wait, TrySubmit,
\* and SubmitWithContext once its context is done or the pool is closed, even if every
\* worker is stuck in a job.
CallsReturn ==
  /\ (\E c \in Closers : Unfinished(c)) ~> ~ \E c \in Closers : Unfinished(c)
  /\ \A s \in TryCallers : pc[s] = "check" ~> pc[s] = "idle"
  /\ \A s \in CtxCallers : ctxDone[s] \/ (closedCh /\ pc[s] # "idle") ~> pc[s] = "idle"

\* No worker sleeps on a backlog: it is worked off, or Close comes first, or there is a
\* moment when all workers are running jobs.
BacklogServed ==
  queue # <<>> ~> (queue = <<>> \/ cancelled \/ \A w \in Workers : worker[w] = "run")

\* Close "closes the queue to signal workers to drain" (workerpool.go:163): when the
\* workers are gone the queue is empty.  The select may take ctx.Done() first.
DrainedAtExit == (\A w \in Workers : worker[w] = "exited") => queue = <<>>
=============================================================================
