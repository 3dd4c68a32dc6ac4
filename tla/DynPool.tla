------------------------------ MODULE DynPool ------------------------------
(***************************************************************************)
(* The dynamic worker pool of pools/workerpooldyn/workerpooldyn.go.  The   *)
(* submission and closing protocol is that of WorkerPool; what is added is *)
(* the number of workers: maybeScaleUp spawns one after a successful send  *)
(* (under p.mu in TrySubmit, after p.mu in SubmitWithContext) and an idle  *)
(* worker drops itself with a compare-and-swap while more than MinWorkers  *)
(* are counted.  Every atomic access to p.workers is a step of its own.    *)
(*                                                                         *)
(* Bound: goroutines take their identity from Slots.  A goroutine that has *)
(* left the count may linger until its deferred wg.Done(), so Slots should *)
(* have more than MaxWorkers members; a spawn waits for a free slot.       *)
(***************************************************************************)
EXTENDS Naturals, Sequences, FiniteSets, Functions

CONSTANTS Slots,       (* identities for worker goroutines                 *)
          MinWorkers,  (* minimum number of workers kept alive             *)
          MaxWorkers,  (* hard cap on workers                              *)
          TryCallers,  (* goroutines that call TrySubmit                   *)
          CtxCallers,  (* goroutines that call SubmitWithContext, Submit   *)
          Closers,     (* goroutines that call Close and then Wait         *)
          Jobs,        (* the jobs; a caller retries one that was refused  *)
          QueueSize,   (* capacity of the queue                            *)
          None         (* no job, no holder of the lock                    *)

Callers == TryCallers \cup CtxCallers

ASSUME DynPoolAssumption ==
  /\ IsFiniteSet(Slots)
  /\ MinWorkers \in Nat \ {0}
  /\ MaxWorkers \in Nat
  /\ MinWorkers <= MaxWorkers
  /\ MaxWorkers <= Cardinality(Slots)
  /\ QueueSize \in Nat
  /\ IsFiniteSet(Callers)
  /\ TryCallers \cap CtxCallers = {}
  /\ Callers \cap Closers = {}
  /\ None \notin Jobs \cup Callers

VARIABLES queue,       (* jobs buffered in the channel p.queue             *)
          queueClosed, (* close(p.queue) has run                           *)
          closedCh,    (* close(p.closedCh) has run                        *)
          cancelled,   (* p.ctx is cancelled                               *)
          once,        (* state of closeOnce: "new", "busy" or "done"      *)
          mu,          (* the caller that holds p.mu between two steps     *)
          pc,          (* next step of each caller and closer              *)
          call,        (* the job a caller is submitting                   *)
          ctxDone,     (* the context of that call is done                 *)
          worker,      (* next step of each goroutine, "none" if not live  *)
          task,        (* the job a worker is running                      *)
          loaded,      (* cur of a reaping worker: its load of p.workers   *)
          workers,     (* the counter p.workers                            *)
          accepted,    (* history: jobs whose send succeeded, in order     *)
          started      (* history: jobs received by a worker, in order     *)

intakeVars == <<queueClosed, closedCh, cancelled, once>>
callVars == <<mu, pc, call, ctxDone>>
workVars == <<queue, worker, task, accepted, started>>
sizeVars == <<loaded, workers>>
vars == <<intakeVars, callVars, workVars, sizeVars>>

\* NewDynPool spawns MinWorkers workers before anybody has the pool.
Init ==
  /\ queue = <<>>
  /\ queueClosed = FALSE
  /\ closedCh = FALSE
  /\ cancelled = FALSE
  /\ once = "new"
  /\ mu = None
  /\ pc = [p \in Callers \cup Closers |-> "idle"]
  /\ call = [s \in Callers |-> None]
  /\ ctxDone = [s \in Callers |-> FALSE]
  /\ \E first \in SUBSET Slots :
       /\ Cardinality(first) = MinWorkers
       /\ worker = [w \in Slots |-> IF w \in first THEN "select" ELSE "none"]
  /\ task = [w \in Slots |-> None]
  /\ loaded = [w \in Slots |-> 0]
  /\ workers = MinWorkers
  /\ accepted = <<>>
  /\ started = <<>>

-----------------------------------------------------------------------------
(* The channel p.queue, with the runtime's hand-off to a parked receiver.  *)

Parked == {w \in Slots : worker[w] = "parked"}
Live == {w \in Slots : worker[w] # "none"}   \* what p.wg counts

\* The goroutines that p.workers stands for: those that have not yet subtracted
\* themselves.
Counted == {w \in Slots : worker[w] \notin {"none", "leaving"}}

Resume(w, step) == worker' = [worker EXCEPT ![w] = step]

StartJob(w, j) ==
  /\ Resume(w, "run")
  /\ task' = [task EXCEPT ![w] = j]
  /\ started' = Append(started, j)

CanSend == Parked # {} \/ Len(queue) < QueueSize

Send(j) ==
  /\ accepted' = Append(accepted, j)
  /\ \/ /\ \E w \in Parked : StartJob(w, j)
        /\ UNCHANGED queue
     \/ /\ Parked = {}
        /\ Len(queue) < QueueSize
        /\ queue' = Append(queue, j)
        /\ UNCHANGED <<worker, task, started>>

WakeParked == worker' = [w \in Slots |-> IF w \in Parked THEN "stopping" ELSE worker[w]]

-----------------------------------------------------------------------------
(* The worker loop.  Time is abstract: the idle timer of a worker in its   *)
(* select may have fired at any moment, also when a job is ready.          *)

WorkerTake(w) ==
  /\ worker[w] = "select"
  /\ queue # <<>>
  /\ StartJob(w, Head(queue))
  /\ queue' = Tail(queue)
  /\ UNCHANGED <<intakeVars, callVars, sizeVars, accepted>>

WorkerParkEager(w) ==   \* mutant: parks without having looked at the queue
  /\ worker[w] = "select"
  /\ ~cancelled
  /\ ~queueClosed
  /\ Resume(w, "parked")
  /\ UNCHANGED <<intakeVars, callVars, sizeVars, queue, task, accepted, started>>

WorkerPark(w) ==
  /\ worker[w] = "select"
  /\ queue = <<>>
  /\ ~cancelled
  /\ ~queueClosed
  /\ Resume(w, "parked")
  /\ UNCHANGED <<intakeVars, callVars, sizeVars, queue, task, accepted, started>>

WorkerStop(w) ==
  /\ worker[w] = "select"
  /\ cancelled \/ (queueClosed /\ queue = <<>>)
  /\ Resume(w, "stopping")
  /\ UNCHANGED <<intakeVars, callVars, sizeVars, queue, task, accepted, started>>

WorkerVanish(w) ==   \* mutant: the queue-closed path returns without decWorker
  /\ worker[w] = "stopping"
  /\ Resume(w, "leaving")
  /\ UNCHANGED <<intakeVars, callVars, sizeVars, queue, task, accepted, started>>

DecWorker(w) ==
  /\ worker[w] = "stopping"
  /\ workers' = workers - 1
  /\ Resume(w, "leaving")
  /\ UNCHANGED <<intakeVars, callVars, loaded, queue, task, accepted, started>>

\* The job returns nil, an error or panics; the idle timer is stopped, drained, reset.
JobReturn(w) ==
  /\ worker[w] = "run"
  /\ Resume(w, "select")
  /\ task' = [task EXCEPT ![w] = None]
  /\ UNCHANGED <<intakeVars, callVars, sizeVars, queue, accepted, started>>

IdleFire(w) ==   \* case <-idleTimer.C
  /\ worker[w] \in {"select", "parked"}
  /\ Resume(w, "reap")
  /\ UNCHANGED <<intakeVars, callVars, sizeVars, queue, task, accepted, started>>

ReapLoad(w) ==
  /\ worker[w] = "reap"
  /\ IF workers <= MinWorkers
       THEN Resume(w, "select") /\ UNCHANGED loaded
       ELSE Resume(w, "swap") /\ loaded' = [loaded EXCEPT ![w] = workers]
  /\ UNCHANGED <<intakeVars, callVars, workers, queue, task, accepted, started>>

ReapBlind(w) ==   \* mutant: an atomic decrement in place of the compare-and-swap
  /\ worker[w] = "swap"
  /\ workers' = workers - 1
  /\ Resume(w, "leaving")
  /\ loaded' = [loaded EXCEPT ![w] = 0]
  /\ UNCHANGED <<intakeVars, callVars, queue, task, accepted, started>>

ReapSwap(w) ==
  /\ worker[w] = "swap"
  /\ IF workers = loaded[w]
       THEN workers' = workers - 1 /\ Resume(w, "leaving")
       ELSE UNCHANGED workers /\ Resume(w, "reap")
  /\ loaded' = [loaded EXCEPT ![w] = 0]
  /\ UNCHANGED <<intakeVars, callVars, queue, task, accepted, started>>

WorkerDone(w) ==   \* the deferred wg.Done()
  /\ worker[w] = "leaving"
  /\ Resume(w, "none")
  /\ UNCHANGED <<intakeVars, callVars, sizeVars, queue, task, accepted, started>>

-----------------------------------------------------------------------------
(* TrySubmit, SubmitWithContext and Submit up to the send.                 *)

Return(s) ==
  /\ pc' = [pc EXCEPT ![s] = "idle"]
  /\ call' = [call EXCEPT ![s] = None]
  /\ ctxDone' = [ctxDone EXCEPT ![s] = FALSE]

GoTo(p, step) ==
  /\ pc' = [pc EXCEPT ![p] = step]
  /\ UNCHANGED <<call, ctxDone>>

\* Jobs are told apart by nothing but their names: they are submitted in a fixed order.
Fresh(j) == j \notin Range(accepted) /\ \A t \in Callers : call[t] # j
NextJob == CHOOSE j \in Jobs : Fresh(j)

Call(s, j) ==
  /\ pc[s] = "idle"
  /\ Fresh(j)
  /\ j = NextJob
  /\ pc' = [pc EXCEPT ![s] = "check"]
  /\ call' = [call EXCEPT ![s] = j]
  /\ UNCHANGED <<intakeVars, workVars, sizeVars, mu, ctxDone>>

\* The deadline of the caller's context passes, or somebody cancels it.
CtxExpire(s) ==
  /\ pc[s] # "idle"
  /\ ~ctxDone[s]
  /\ ctxDone' = [ctxDone EXCEPT ![s] = TRUE]
  /\ UNCHANGED <<intakeVars, workVars, sizeVars, mu, pc, call>>

TryCheck(s) ==
  /\ pc[s] = "check"
  /\ IF closedCh THEN Return(s) ELSE GoTo(s, "lock")
  /\ UNCHANGED <<intakeVars, workVars, sizeVars, mu>>

CtxCheck(s) ==
  /\ pc[s] = "check"
  /\ IF closedCh \/ ctxDone[s] THEN Return(s) ELSE GoTo(s, "lock")
  /\ UNCHANGED <<intakeVars, workVars, sizeVars, mu>>

\* mu.Lock() and the re-check of closedCh under the lock.
Lock(s) ==
  /\ pc[s] = "lock"
  /\ mu = None
  /\ IF closedCh
       THEN Return(s) /\ UNCHANGED mu
       ELSE GoTo(s, "send") /\ mu' = s
  /\ UNCHANGED <<intakeVars, workVars, sizeVars>>

TrySendUnlocked(s) ==   \* mutant: TrySubmit unlocks p.mu before maybeScaleUp
  /\ pc[s] = "send"
  /\ \/ Send(call[s]) /\ GoTo(s, "load") /\ mu' = None
     \/ ~CanSend /\ Return(s) /\ mu' = None /\ UNCHANGED workVars
  /\ UNCHANGED <<intakeVars, sizeVars>>

\* TrySubmit keeps p.mu through maybeScaleUp.
TrySend(s) ==
  /\ pc[s] = "send"
  /\ \/ Send(call[s]) /\ GoTo(s, "load") /\ UNCHANGED mu
     \/ ~CanSend /\ Return(s) /\ mu' = None /\ UNCHANGED workVars
  /\ UNCHANGED <<intakeVars, sizeVars>>

\* SubmitWithContext unlocks p.mu before maybeScaleUp.
CtxSend(s) ==
  /\ pc[s] = "send"
  /\ mu' = None
  /\ \/ Send(call[s]) /\ GoTo(s, "load")
     \/ ~CanSend /\ GoTo(s, "backoff") /\ UNCHANGED workVars
  /\ UNCHANGED <<intakeVars, sizeVars>>

\* select on ctx.Done(), closedCh and time.After.
CtxBackoff(s) ==
  /\ pc[s] = "backoff"
  /\ \/ (closedCh \/ ctxDone[s]) /\ Return(s)
     \/ GoTo(s, "check")
  /\ UNCHANGED <<intakeVars, workVars, sizeVars, mu>>

-----------------------------------------------------------------------------
(* maybeScaleUp.  A caller leaves it by returning from the submission; in  *)
(* TrySubmit the deferred mu.Unlock() comes with the return.               *)

Finish(s) == Return(s) /\ mu' = IF mu = s THEN None ELSE mu

ScaleLoad(s) ==
  /\ pc[s] = "load"
  /\ IF workers >= MaxWorkers THEN Finish(s) ELSE GoTo(s, "len") /\ UNCHANGED mu
  /\ UNCHANGED <<intakeVars, workVars, sizeVars>>

ScaleLen(s) ==
  /\ pc[s] = "len"
  /\ IF queue = <<>> THEN Finish(s) ELSE GoTo(s, "add") /\ UNCHANGED mu
  /\ UNCHANGED <<intakeVars, workVars, sizeVars>>

ScaleAddOver(s) ==   \* mutant: < becomes <= one worker too late
  /\ pc[s] = "add"
  /\ workers' = workers + 1
  /\ GoTo(s, IF workers <= MaxWorkers THEN "spawn" ELSE "undo")
  /\ UNCHANGED <<intakeVars, workVars, loaded, mu>>

ScaleAdd(s) ==
  /\ pc[s] = "add"
  /\ workers' = workers + 1
  /\ GoTo(s, IF workers + 1 <= MaxWorkers THEN "spawn" ELSE "undo")
  /\ UNCHANGED <<intakeVars, workVars, loaded, mu>>

ScaleSpawn(s) ==   \* wg.Add(1); go p.worker(...)
  /\ pc[s] = "spawn"
  /\ \E w \in Slots : worker[w] = "none" /\ Resume(w, "select")
  /\ Finish(s)
  /\ UNCHANGED <<intakeVars, sizeVars, queue, task, accepted, started>>

ScaleUndo(s) ==
  /\ pc[s] = "undo"
  /\ workers' = workers - 1
  /\ Finish(s)
  /\ UNCHANGED <<intakeVars, workVars, loaded>>

-----------------------------------------------------------------------------
(* Close and Wait, as in WorkerPool.                                       *)

CloseCall(c) ==
  /\ pc[c] = "idle"
  /\ GoTo(c, "once")
  /\ UNCHANGED <<intakeVars, workVars, sizeVars, mu>>

Once(c) ==
  /\ pc[c] = "once"
  /\ \/ once = "new" /\ once' = "busy" /\ GoTo(c, "closing")
     \/ once = "done" /\ UNCHANGED once /\ GoTo(c, "wait")
  /\ UNCHANGED <<queueClosed, closedCh, cancelled, workVars, sizeVars, mu>>

CloseCh(c) ==
  /\ pc[c] = "closing"
  /\ closedCh' = TRUE
  /\ GoTo(c, "cancel")
  /\ UNCHANGED <<queueClosed, cancelled, once, workVars, sizeVars, mu>>

CancelForgotten(c) ==   \* mutant: Close without p.cancel()
  /\ pc[c] = "cancel"
  /\ GoTo(c, "closeQueue")
  /\ UNCHANGED <<intakeVars, workVars, sizeVars, mu>>

Cancel(c) ==
  /\ pc[c] = "cancel"
  /\ cancelled' = TRUE
  /\ WakeParked
  /\ GoTo(c, "closeQueue")
  /\ UNCHANGED <<queueClosed, closedCh, once, sizeVars, queue, task, accepted, started, mu>>

CloseQueueUnlocked(c) ==   \* mutant: close(p.queue) without p.mu
  /\ pc[c] = "closeQueue"
  /\ queueClosed' = TRUE
  /\ WakeParked
  /\ once' = "done"
  /\ GoTo(c, "wait")
  /\ UNCHANGED <<closedCh, cancelled, sizeVars, queue, task, accepted, started, mu>>

\* mu.Lock(); close(p.queue); mu.Unlock().
CloseQueue(c) ==
  /\ pc[c] = "closeQueue"
  /\ mu = None
  /\ queueClosed' = TRUE
  /\ WakeParked
  /\ once' = "done"
  /\ GoTo(c, "wait")
  /\ UNCHANGED <<closedCh, cancelled, sizeVars, queue, task, accepted, started, mu>>

WaitReturn(c) ==
  /\ pc[c] = "wait"
  /\ Live = {}
  /\ GoTo(c, "waited")
  /\ UNCHANGED <<intakeVars, workVars, sizeVars, mu>>

-----------------------------------------------------------------------------
LoopStep(w) == WorkerPark(w) \/ DecWorker(w) \/ ReapLoad(w) \/ ReapSwap(w) \/ WorkerDone(w)
ScaleStep(s) == ScaleLoad(s) \/ ScaleLen(s) \/ ScaleAdd(s) \/ ScaleSpawn(s) \/ ScaleUndo(s)
TryStep(s) == TryCheck(s) \/ TrySend(s)
CtxStep(s) == CtxCheck(s) \/ CtxSend(s) \/ CtxBackoff(s)
CloseStep(c) == Once(c) \/ CloseCh(c) \/ Cancel(c) \/ WaitReturn(c)

\* Every caller and closer has returned for good and no worker is left.
Terminated ==
  /\ Closers # {}
  /\ \A c \in Closers : pc[c] = "waited"
  /\ \A s \in Callers : pc[s] = "idle"
  /\ Jobs \subseteq Range(accepted)
  /\ Live = {}
  /\ UNCHANGED vars

Next ==
  \/ \E w \in Slots : \/ LoopStep(w)
                      \/ WorkerTake(w)
                      \/ WorkerStop(w)
                      \/ JobReturn(w)
                      \/ IdleFire(w)
  \/ \E s \in Callers : Lock(s) \/ ScaleStep(s) \/ \E j \in Jobs : Call(s, j)
  \/ \E s \in TryCallers : TryStep(s)
  \/ \E s \in CtxCallers : CtxStep(s) \/ CtxExpire(s)
  \/ \E c \in Closers : CloseCall(c) \/ CloseStep(c) \/ CloseQueue(c)
  \/ Terminated

Spec == Init /\ [][Next]_vars

\* As in WorkerPool.  A select with several ready cases picks one at random, so a
\* worker that comes back to its select again and again takes a job, and sees
\* ctx.Done(), sooner or later, however often its idle timer fires.
Fairness ==
  /\ \A w \in Slots : /\ WF_vars(LoopStep(w))
                      /\ SF_vars(WorkerTake(w))
                      /\ SF_vars(WorkerStop(w))
                      /\ WF_vars(cancelled /\ JobReturn(w))
  /\ \A s \in Callers : SF_vars(Lock(s)) /\ WF_vars(ScaleStep(s))
  /\ \A s \in TryCallers : WF_vars(TryStep(s))
  /\ \A s \in CtxCallers : WF_vars(CtxStep(s))
  /\ \A c \in Closers : WF_vars(CloseStep(c)) /\ SF_vars(CloseQueue(c))

FairSpec == Spec /\ Fairness

-----------------------------------------------------------------------------
(* Properties.                                                             *)

\* The variables keep their types, and the channel never holds more than its capacity.
TypeOK ==
  /\ queue \in Seq(Jobs) /\ Len(queue) <= QueueSize
  /\ queueClosed \in BOOLEAN
  /\ closedCh \in BOOLEAN
  /\ cancelled \in BOOLEAN
  /\ once \in {"new", "busy", "done"}
  /\ mu \in Callers \cup {None}
  /\ pc \in [Callers \cup Closers ->
               {"idle", "check", "lock", "send", "backoff",
                "load", "len", "add", "spawn", "undo",
                "once", "closing", "cancel", "closeQueue", "wait", "waited"}]
  /\ call \in [Callers -> Jobs \cup {None}]
  /\ \A s \in Callers : pc[s] # "idle" => call[s] \in Jobs
  /\ ctxDone \in [Callers -> BOOLEAN]
  /\ worker \in [Slots -> {"none", "select", "parked", "run", "reap", "swap",
                            "stopping", "leaving"}]
  /\ task \in [Slots -> Jobs \cup {None}]
  /\ loaded \in [Slots -> Nat]
  /\ workers \in Nat
  /\ accepted \in Seq(Jobs)
  /\ started \in Seq(Jobs)

\* "Serialize send vs close to avoid send on closed channel": a caller that is about
\* to send finds the queue open, and closedCh and the queue are closed once.
NoChannelPanic ==
  /\ \A s \in Callers : pc[s] = "send" => ~queueClosed
  /\ \A c \in Closers : /\ pc[c] = "closing" => ~closedCh
                        /\ pc[c] = "closeQueue" => ~queueClosed

Pending(step) == {s \in Callers : pc[s] = step}

\* p.workers is the number of worker goroutines that have not yet left the count,
\* plus the increments of maybeScaleUp that have not yet become a goroutine or been
\* taken back; it is never lost or counted twice, on any of the three exits.
CounterExact ==
  /\ TypeOK
  /\ workers = Cardinality(Counted) + Cardinality(Pending("spawn")) + Cardinality(Pending("undo"))

\* maxWorkers is the "hard cap on workers": the goroutines that can run a job,
\* with those about to be started, never exceed it, although the counter may.
HardCap == Cardinality(Counted) + Cardinality(Pending("spawn")) <= MaxWorkers

\* minWorkers is the "minimum number of workers kept alive" until the pool is closed,
\* one that is about to be started included.
MinWorkersAlive ==
  cancelled \/ Cardinality(Counted) + Cardinality(Pending("spawn")) >= MinWorkers

\* "Wait blocks until all workers have exited", and no worker appears afterwards.
StoppedAfterWait == (\E c \in Closers : pc[c] = "waited") => Live = {}

\* As WorkerPool, with MaxWorkers jobs at a time.
Abstract == INSTANCE Executor WITH
  Parallelism <- MaxWorkers,
  finished <- {j \in Range(started) : \A w \in Slots : task[w] # j},
  open <- ~queueClosed,
  stopped <- \E c \in Closers : pc[c] = "waited"
ImplementsExecutor == Abstract!Spec

\* A goroutine that calls Close and then Wait gets to the end, although workers may
\* be reaping themselves and callers scaling the pool up at the same time.
CloseWaitReturns == \A c \in Closers : pc[c] = "once" ~> pc[c] = "waited"

\* No backlog is stranded in an open pool: it is worked off, or there is a moment when
\* every worker that is left is running a job, and there is at least one.
BacklogServed ==
  queue # <<>> ~>
    \/ queue = <<>>
    \/ cancelled
    \/ Counted # {} /\ \A w \in Counted : worker[w] = "run"
=============================================================================
