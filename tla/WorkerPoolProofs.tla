-------------------------- MODULE WorkerPoolProofs --------------------------
(***************************************************************************)
(* Proofs about WorkerPool, for any number of workers, callers, closers    *)
(* and jobs and any capacity of the queue: type correctness, the absence   *)
(* of channel panics, the conservation of jobs in FIFO order, and that the *)
(* pool implements the abstract executor.                                  *)
(***************************************************************************)
EXTENDS WorkerPool, Histories, FiniteSetTheorems

USE DEF Callers

(* What Send and the steps that start a job do to the types.               *)

LEMMA SendType ==
  ASSUME TypeOK, NEW j \in Jobs, Send(j)
  PROVE  /\ queue' \in Seq(Jobs) /\ Len(queue') <= QueueSize
         /\ worker' \in [Workers -> {"select", "parked", "run", "leaving", "exited"}]
         /\ task' \in [Workers -> Jobs \cup {None}]
         /\ accepted' \in Seq(Jobs)
         /\ started' \in Seq(Jobs)
<1>1. CASE \E w \in Parked : StartJob(w, j) /\ UNCHANGED queue
  BY <1>1 DEF Send, StartJob, Parked, TypeOK
<1>2. CASE /\ Parked = {}
           /\ Len(queue) < QueueSize
           /\ queue' = Append(queue, j)
           /\ UNCHANGED <<worker, task, started>>
  <2>1. Len(queue') = Len(queue) + 1
    BY <1>2 DEF TypeOK
  <2>2. Len(queue') <= QueueSize
    BY <1>2, <2>1, PoolAssumption DEF TypeOK
  <2> QED
    BY <1>2, <2>2 DEF Send, TypeOK
<1> QED
  BY <1>1, <1>2 DEF Send

LEMMA TypeInit == Init => TypeOK
<1> SUFFICES ASSUME Init PROVE TypeOK
  OBVIOUS
<1>1. queue \in Seq(Jobs) /\ Len(queue) <= QueueSize
  BY PoolAssumption DEF Init
<1>2. \A s \in Callers : pc[s] = "idle"
  BY DEF Init
<1> QED
  BY <1>1, <1>2 DEF Init, TypeOK

LEMMA TypeNext == TypeOK /\ [Next]_vars => TypeOK'
<1> SUFFICES ASSUME TypeOK, [Next]_vars PROVE TypeOK'
  OBVIOUS
<1>1. ASSUME NEW w \in Workers, WorkerTake(w) PROVE TypeOK'
  <2>1. Head(queue) \in Jobs /\ Tail(queue) \in Seq(Jobs) /\ Len(Tail(queue)) <= QueueSize
    BY <1>1, PoolAssumption DEF WorkerTake, TypeOK
  <2> QED
    BY <1>1, <2>1 DEF WorkerTake, StartJob, intakeVars, callVars, TypeOK
<1>2. ASSUME NEW w \in Workers, WorkerPark(w) \/ WorkerLeave(w) \/ WorkerDone(w) \/ JobReturn(w)
      PROVE TypeOK'
  BY <1>2 DEF WorkerPark, WorkerLeave, WorkerDone, JobReturn, intakeVars, callVars, TypeOK
<1>3. ASSUME NEW s \in Callers, NEW j \in Jobs, Call(s, j) PROVE TypeOK'
  BY <1>3 DEF Call, intakeVars, workVars, TypeOK
<1>4. ASSUME NEW s \in Callers, Lock(s) PROVE TypeOK'
  BY <1>4 DEF Lock, Return, GoTo, intakeVars, workVars, TypeOK
<1>5. ASSUME NEW s \in TryCallers, TryCheck(s) PROVE TypeOK'
  BY <1>5 DEF TryCheck, Return, GoTo, intakeVars, workVars, TypeOK
<1>6. ASSUME NEW s \in TryCallers, TrySend(s) PROVE TypeOK'
  <2>1. CASE Send(call[s])
    BY <1>6, <2>1, SendType DEF TrySend, Return, intakeVars, TypeOK
  <2>2. CASE ~CanSend /\ UNCHANGED workVars
    BY <1>6, <2>2 DEF TrySend, Return, intakeVars, workVars, TypeOK
  <2> QED
    BY <1>6, <2>1, <2>2 DEF TrySend
<1>7. ASSUME NEW s \in CtxCallers, CtxCheck(s) \/ CtxExpire(s) PROVE TypeOK'
  BY <1>7 DEF CtxCheck, CtxExpire, Return, GoTo, intakeVars, workVars, TypeOK
<1>8. ASSUME NEW s \in CtxCallers, CtxSend(s) PROVE TypeOK'
  <2>1. CASE Send(call[s]) /\ Return(s)
    BY <1>8, <2>1, SendType DEF CtxSend, Return, intakeVars, TypeOK
  <2>2. CASE ~CanSend /\ GoTo(s, "check") /\ UNCHANGED workVars
    BY <1>8, <2>2 DEF CtxSend, GoTo, intakeVars, workVars, TypeOK
  <2> QED
    BY <1>8, <2>1, <2>2 DEF CtxSend
<1>9. ASSUME NEW c \in Closers, CloseCall(c) \/ Once(c) \/ CloseCh(c) \/ WaitReturn(c)
      PROVE TypeOK'
  BY <1>9, PoolAssumption
     DEF CloseCall, Once, CloseCh, WaitReturn, GoTo, intakeVars, workVars, TypeOK
<1>10. ASSUME NEW c \in Closers, Cancel(c) \/ CloseQueue(c) PROVE TypeOK'
  <2>1. worker' \in [Workers -> {"select", "parked", "run", "leaving", "exited"}]
    BY <1>10 DEF Cancel, CloseQueue, WakeParked, TypeOK
  <2>2. pc' \in [Callers \cup Closers ->
                   {"idle", "check", "lock", "send",
                    "once", "closing", "cancel", "closeQueue", "wait", "waited"}]
    BY <1>10 DEF Cancel, CloseQueue, GoTo, TypeOK
  <2>3. \A s \in Callers : pc'[s] # "idle" => call'[s] \in Jobs
    BY <1>10, PoolAssumption DEF Cancel, CloseQueue, GoTo, TypeOK
  <2> QED
    BY <1>10, <2>1, <2>2, <2>3 DEF Cancel, CloseQueue, GoTo, TypeOK
<1>11. CASE UNCHANGED vars
  BY <1>11 DEF vars, intakeVars, callVars, workVars, TypeOK
<1> QED
  BY <1>1, <1>2, <1>3, <1>4, <1>5, <1>6, <1>7, <1>8, <1>9, <1>10, <1>11
     DEF Next, SelectStep, TryStep, CtxStep, CloseStep, Terminated

\* The variables of the pool keep their types, for every value of the constants.
THEOREM TypeCorrect == Spec => []TypeOK
BY TypeInit, TypeNext, PTL DEF Spec
-----------------------------------------------------------------------------
(* NoChannelPanic is not inductive: that a sender finds the queue open     *)
(* rests on the lock and on closeOnce.                                     *)

\* A caller about to send holds p.mu.
LockInv == \A s \in Callers : pc[s] = "send" => mu = s

Closing(c) == pc[c] \in {"closing", "cancel", "closeQueue"}

\* One goroutine at a time is inside closeOnce, and it finds what it has not yet
\* closed open.
OnceInv ==
  /\ once = "new" => ~closedCh
  /\ queueClosed => closedCh /\ once = "done"
  /\ \A c \in Closers : Closing(c) => once = "busy"
  /\ \A c, d \in Closers : Closing(c) /\ Closing(d) => c = d
  /\ \A c \in Closers : pc[c] = "closing" => ~closedCh
  /\ \A c \in Closers : pc[c] \in {"cancel", "closeQueue"} => closedCh

CloseInv == LockInv /\ OnceInv /\ NoChannelPanic

LEMMA CloseInvInit == Init => CloseInv
BY PoolAssumption DEF Init, CloseInv, LockInv, OnceInv, Closing, NoChannelPanic

\* The steps of the callers that neither take nor give back p.mu leave the closers
\* alone and bring nobody to "send".
LEMMA CallerStepCloseInv ==
  ASSUME TypeOK, CloseInv, NEW s \in Callers, UNCHANGED <<intakeVars, mu>>,
         NEW step \in {"idle", "check", "lock"}, pc' = [pc EXCEPT ![s] = step]
  PROVE  CloseInv'
<1>1. \A c \in Closers : pc'[c] = pc[c]
  BY PoolAssumption DEF TypeOK
<1>2. \A t \in Callers : pc'[t] = "send" => pc[t] = "send"
  BY DEF TypeOK
<1> QED
  BY <1>1, <1>2 DEF intakeVars, CloseInv, LockInv, OnceInv, Closing, NoChannelPanic

LEMMA UnlockCloseInv ==
  ASSUME TypeOK, CloseInv, NEW s \in Callers, pc[s] = "send", mu' = None,
         UNCHANGED intakeVars,
         NEW step \in {"idle", "check"}, pc' = [pc EXCEPT ![s] = step]
  PROVE  CloseInv'
<1>1. \A c \in Closers : pc'[c] = pc[c]
  BY PoolAssumption DEF TypeOK
<1>2. \A t \in Callers : pc'[t] # "send"
  BY DEF TypeOK, CloseInv, LockInv
<1> QED
  BY <1>1, <1>2 DEF intakeVars, CloseInv, LockInv, OnceInv, Closing, NoChannelPanic

LEMMA CloseInvNext ==
  ASSUME TypeOK, CloseInv, [Next]_vars
  PROVE  CloseInv'
<1>1. ASSUME NEW w \in Workers, SelectStep(w) \/ JobReturn(w) PROVE CloseInv'
  BY <1>1 DEF SelectStep, WorkerTake, WorkerPark, WorkerLeave, WorkerDone, JobReturn,
              intakeVars, callVars, CloseInv, LockInv, OnceInv, Closing, NoChannelPanic
<1>2. ASSUME NEW s \in Callers, NEW j \in Jobs, Call(s, j) PROVE CloseInv'
  BY <1>2, CallerStepCloseInv DEF Call, intakeVars
<1>3. ASSUME NEW s \in Callers, Lock(s) PROVE CloseInv'
  <2>1. CASE closedCh
    BY <1>3, <2>1, CallerStepCloseInv DEF Lock, Return
  <2>2. CASE ~closedCh
    <3>1. \A c \in Closers : pc'[c] = pc[c]
      BY <1>3, <2>2, PoolAssumption DEF Lock, GoTo, TypeOK
    <3>2. \A t \in Callers : t # s => pc[t] # "send" /\ pc'[t] = pc[t]
      BY <1>3, <2>2, PoolAssumption DEF Lock, GoTo, TypeOK, CloseInv, LockInv
    <3>3. mu' = s /\ UNCHANGED intakeVars
      BY <1>3, <2>2 DEF Lock
    <3> QED
      BY <2>2, <3>1, <3>2, <3>3
         DEF intakeVars, CloseInv, LockInv, OnceInv, Closing, NoChannelPanic
  <2> QED
    BY <2>1, <2>2
<1>4. ASSUME NEW s \in TryCallers, TryCheck(s) PROVE CloseInv'
  BY <1>4, CallerStepCloseInv DEF TryCheck, Return, GoTo
<1>5. ASSUME NEW s \in TryCallers, TrySend(s) PROVE CloseInv'
  BY <1>5, UnlockCloseInv DEF TrySend, Return
<1>6. ASSUME NEW s \in CtxCallers, CtxCheck(s) PROVE CloseInv'
  BY <1>6, CallerStepCloseInv DEF CtxCheck, Return, GoTo
<1>7. ASSUME NEW s \in CtxCallers, CtxExpire(s) PROVE CloseInv'
  BY <1>7 DEF CtxExpire, intakeVars, CloseInv, LockInv, OnceInv, Closing, NoChannelPanic
<1>8. ASSUME NEW s \in CtxCallers, CtxSend(s) PROVE CloseInv'
  BY <1>8, UnlockCloseInv DEF CtxSend, Return, GoTo
<1>9. ASSUME NEW c \in Closers, CloseCall(c) \/ CloseStep(c) \/ CloseQueue(c)
      PROVE CloseInv'
  <2>1. \A s \in Callers : pc'[s] = pc[s]
    BY <1>9, PoolAssumption DEF CloseCall, CloseStep, Once, CloseCh, Cancel, WaitReturn,
                                CloseQueue, GoTo, TypeOK
  <2>2. mu' = mu /\ \A d \in Closers : d # c => pc'[d] = pc[d]
    BY <1>9 DEF CloseCall, CloseStep, Once, CloseCh, Cancel, WaitReturn, CloseQueue, GoTo,
                TypeOK
  <2>3. LockInv'
    BY <2>1, <2>2 DEF CloseInv, LockInv
  <2>4. CASE CloseCall(c) \/ WaitReturn(c)
    <3>1. pc'[c] \in {"once", "waited"} /\ UNCHANGED intakeVars
      BY <2>4 DEF CloseCall, WaitReturn, GoTo, TypeOK
    <3> QED
      BY <2>1, <2>2, <2>3, <3>1 DEF intakeVars, CloseInv, OnceInv, Closing, NoChannelPanic
  <2>5. CASE Once(c)
    <3>1. UNCHANGED <<queueClosed, closedCh>>
      BY <2>5 DEF Once
    <3>2. CASE once = "new" /\ once' = "busy" /\ pc'[c] = "closing"
      BY <2>1, <2>2, <2>3, <3>1, <3>2 DEF CloseInv, OnceInv, Closing, NoChannelPanic
    <3>3. CASE once = "done" /\ once' = "done" /\ pc'[c] = "wait"
      BY <2>1, <2>2, <2>3, <3>1, <3>3 DEF CloseInv, OnceInv, Closing, NoChannelPanic
    <3> QED
      BY <2>5, <3>2, <3>3 DEF Once, GoTo, TypeOK
  <2>6. CASE CloseCh(c)
    <3>1. pc[c] = "closing" /\ pc'[c] = "cancel" /\ closedCh' /\ UNCHANGED <<queueClosed, once>>
      BY <2>6 DEF CloseCh, GoTo, TypeOK
    <3> QED
      BY <2>1, <2>2, <2>3, <3>1 DEF CloseInv, OnceInv, Closing, NoChannelPanic
  <2>7. CASE Cancel(c)
    <3>1. /\ pc[c] = "cancel" /\ pc'[c] = "closeQueue"
          /\ UNCHANGED <<queueClosed, closedCh, once>>
      BY <2>7 DEF Cancel, GoTo, TypeOK
    <3> QED
      BY <2>1, <2>2, <2>3, <3>1 DEF CloseInv, OnceInv, Closing, NoChannelPanic
  <2>8. CASE CloseQueue(c)
    <3>1. /\ pc[c] = "closeQueue" /\ pc'[c] = "wait"
          /\ queueClosed' /\ once' = "done" /\ UNCHANGED closedCh
      BY <2>8 DEF CloseQueue, GoTo, TypeOK
    <3>2. \A s \in Callers : pc[s] # "send"
      BY <2>8, PoolAssumption DEF CloseQueue, CloseInv, LockInv
    <3> QED
      BY <2>1, <2>2, <2>3, <3>1, <3>2 DEF CloseInv, OnceInv, Closing, NoChannelPanic
  <2> QED
    BY <1>9, <2>4, <2>5, <2>6, <2>7, <2>8 DEF CloseStep
<1>10. CASE UNCHANGED vars
  BY <1>10 DEF vars, intakeVars, callVars, CloseInv, LockInv, OnceInv, Closing, NoChannelPanic
<1> QED
  BY <1>1, <1>2, <1>3, <1>4, <1>5, <1>6, <1>7, <1>8, <1>9, <1>10
     DEF Next, TryStep, CtxStep, Terminated

\* "Serializes queue send vs close to avoid send-after-close panics": whatever the
\* numbers of callers and closers, no send and no close finds its channel closed.
THEOREM QueueGuarded == Spec => []NoChannelPanic
<1>1. CloseInv => NoChannelPanic
  BY DEF CloseInv
<1> QED
  BY CloseInvInit, CloseInvNext, TypeCorrect, <1>1, PTL DEF Spec
-----------------------------------------------------------------------------
(* FifoConservation is not inductive: a job handed to a parked worker      *)
(* would overtake the buffer, were there anything in it.                   *)

ParkInv == Parked # {} => queue = <<>>

FifoInv == ParkInv /\ FifoConservation

LEMMA SendFifoInv ==
  ASSUME TypeOK, FifoInv, NEW j \in Jobs, Send(j)
  PROVE  FifoInv'
<1>1. CASE \E w \in Parked : StartJob(w, j) /\ UNCHANGED queue
  <2>1. queue = <<>> /\ queue' = <<>>
    BY <1>1 DEF FifoInv, ParkInv
  <2>2. accepted' = Append(accepted, j) /\ started' = Append(started, j)
    BY <1>1 DEF Send, StartJob
  <2>3. started \in Seq(Jobs) /\ queue \in Seq(Jobs) /\ accepted = started \o queue
    BY DEF FifoInv, FifoConservation, TypeOK
  <2>4. accepted' = started' \o queue'
    BY <2>1, <2>2, <2>3, NothingLeft
  <2> QED
    BY <2>1, <2>4 DEF FifoInv, ParkInv, FifoConservation
<1>2. CASE /\ Parked = {}
           /\ Len(queue) < QueueSize
           /\ queue' = Append(queue, j)
           /\ UNCHANGED <<worker, task, started>>
  <2>1. Parked' = {}
    BY <1>2 DEF Parked
  <2>2. started \in Seq(Jobs) /\ queue \in Seq(Jobs) /\ accepted = started \o queue
    BY DEF FifoInv, FifoConservation, TypeOK
  <2>3. accepted' = Append(accepted, j) /\ queue' = Append(queue, j)
    BY <1>2 DEF Send
  <2>4. Append(accepted, j) = started \o Append(queue, j)
    BY <2>2, GrowRest
  <2>5. accepted' = started \o queue'
    BY <2>3, <2>4, Zenon
  <2> QED
    BY <1>2, <2>1, <2>5 DEF FifoInv, ParkInv, FifoConservation
<1> QED
  BY <1>1, <1>2 DEF Send

LEMMA FifoInvNext ==
  ASSUME TypeOK, FifoInv, [Next]_vars
  PROVE  FifoInv'
<1>1. ASSUME NEW w \in Workers, WorkerTake(w) PROVE FifoInv'
  <2>1. Parked = {} /\ Parked' \subseteq Parked
    BY <1>1 DEF WorkerTake, StartJob, Parked, FifoInv, ParkInv, TypeOK
  <2>2. accepted' = started' \o queue'
    BY <1>1, MoveHead DEF WorkerTake, StartJob, FifoInv, FifoConservation, TypeOK
  <2> QED
    BY <2>1, <2>2 DEF FifoInv, ParkInv, FifoConservation
<1>2. ASSUME NEW w \in Workers, WorkerPark(w) PROVE FifoInv'
  BY <1>2 DEF WorkerPark, FifoInv, ParkInv, FifoConservation
<1>3. ASSUME NEW w \in Workers, WorkerLeave(w) \/ WorkerDone(w) \/ JobReturn(w)
      PROVE FifoInv'
  <2>1. Parked' \subseteq Parked /\ UNCHANGED <<queue, accepted, started>>
    BY <1>3 DEF WorkerLeave, WorkerDone, JobReturn, Parked, TypeOK
  <2> QED
    BY <2>1 DEF FifoInv, ParkInv, FifoConservation
<1>4. ASSUME UNCHANGED workVars PROVE FifoInv'
  BY <1>4 DEF workVars, FifoInv, ParkInv, Parked, FifoConservation
<1>5. ASSUME NEW s \in Callers, pc[s] = "send", Send(call[s]) PROVE FifoInv'
  BY <1>5, SendFifoInv DEF TypeOK
<1>6. ASSUME NEW c \in Closers, Cancel(c) \/ CloseQueue(c) PROVE FifoInv'
  <2>1. Parked' = {} /\ UNCHANGED <<queue, accepted, started>>
    BY <1>6 DEF Cancel, CloseQueue, WakeParked, Parked
  <2> QED
    BY <2>1 DEF FifoInv, ParkInv, FifoConservation
<1>7. ASSUME NEW s \in Callers, TrySend(s) \/ CtxSend(s) PROVE FifoInv'
  BY <1>4, <1>5, <1>7 DEF TrySend, CtxSend
<1>8. ASSUME NEW s \in Callers, NEW j \in Jobs, Call(s, j) PROVE FifoInv'
  BY <1>4, <1>8 DEF Call
<1>9. ASSUME NEW s \in Callers, CtxExpire(s) \/ TryCheck(s) \/ CtxCheck(s) \/ Lock(s)
      PROVE FifoInv'
  BY <1>4, <1>9 DEF CtxExpire, TryCheck, CtxCheck, Lock
<1>10. ASSUME NEW c \in Closers, CloseCall(c) \/ Once(c) \/ CloseCh(c) \/ WaitReturn(c)
      PROVE FifoInv'
  BY <1>4, <1>10 DEF CloseCall, Once, CloseCh, WaitReturn
<1>11. CASE UNCHANGED vars
  BY <1>4, <1>11 DEF vars
<1> QED
  BY <1>1, <1>2, <1>3, <1>6, <1>7, <1>8, <1>9, <1>10, <1>11
     DEF Next, SelectStep, TryStep, CtxStep, CloseStep, Terminated

\* Every accepted job is either started or still queued, and the jobs start in the
\* order in which they were accepted.
THEOREM Fifo == Spec => []FifoConservation
<1>1. Init => FifoInv
  <2>1. ASSUME Init PROVE Parked = {} /\ accepted = started \o queue
    <3>1. <<>> \o <<>> = <<>>
      OBVIOUS
    <3> QED
      BY <2>1, <3>1 DEF Init, Parked
  <2> QED
    BY <2>1 DEF FifoInv, ParkInv, FifoConservation
<1>2. FifoInv => FifoConservation
  BY DEF FifoInv
<1> QED
  BY <1>1, <1>2, FifoInvNext, TypeCorrect, PTL DEF Spec
-----------------------------------------------------------------------------
(* The pool implements the abstract executor: under the refinement mapping *)
(* of ImplementsExecutor its steps are steps of Executor.                  *)
(*                                                                         *)
(* The mapping is meaningful only because a job is named once: it is the   *)
(* call of one caller, is accepted once and runs in one worker.            *)

\* A job that is being submitted has not been accepted and has one submitter.
JobsDistinct ==
  /\ IsInjective(accepted)
  /\ \A s \in Callers : call[s] \notin Range(accepted)
  /\ \A s, t \in Callers : call[s] # None /\ call[s] = call[t] => s = t

\* A worker has a job exactly while it runs it, a started one, and nobody else's.
RunInv ==
  /\ \A w \in Workers : task[w] # None <=> worker[w] = "run"
  /\ \A w \in Workers : task[w] # None => task[w] \in Range(started)
  /\ \A v, w \in Workers : task[v] # None /\ task[v] = task[w] => v = w

\* Once a Wait has returned every worker is gone.
WaitInv == \A c \in Closers : pc[c] = "waited" => \A w \in Workers : worker[w] = "exited"

RefInv == TypeOK /\ CloseInv /\ FifoInv /\ JobsDistinct /\ RunInv /\ WaitInv

LEMMA RefInvInit == Init => RefInv
<1> SUFFICES ASSUME Init PROVE RefInv
  OBVIOUS
<1>1. TypeOK
  BY TypeInit
<1>2. FifoInv
  <2>1. <<>> \o <<>> = <<>>
    OBVIOUS
  <2> QED
    BY <2>1 DEF Init, FifoInv, ParkInv, Parked, FifoConservation
<1>3. JobsDistinct
  <2>1. DOMAIN accepted = {}
    BY DEF Init
  <2> QED
    BY <2>1 DEF Init, JobsDistinct, IsInjective, Range
<1>4. RunInv
  BY DEF Init, RunInv
<1>5. WaitInv
  BY DEF Init, WaitInv
<1> QED
  BY <1>1, <1>2, <1>3, <1>4, <1>5, CloseInvInit DEF RefInv

(* The steps that touch no job.                                            *)

LEMMA OtherJobsDistinct ==
  ASSUME TypeOK, JobsDistinct, UNCHANGED accepted,
         \A s \in Callers : call'[s] \in {call[s], None}
  PROVE  JobsDistinct'
<1>1. None \notin Range(accepted)
  BY PoolAssumption DEF TypeOK, Range
<1> QED
  BY <1>1 DEF JobsDistinct

LEMMA OtherRunInv ==
  ASSUME RunInv, UNCHANGED <<task, started>>,
         \A w \in Workers : worker'[w] = "run" <=> worker[w] = "run"
  PROVE  RunInv'
BY DEF RunInv

(* A job starts in a worker that had none.                                 *)

LEMMA StartRunInv ==
  ASSUME TypeOK, RunInv, NEW w \in Workers, worker[w] # "run",
         NEW j \in Jobs, j \notin Range(started), StartJob(w, j)
  PROVE  RunInv'
<1>1. task' = [task EXCEPT ![w] = j] /\ worker' = [worker EXCEPT ![w] = "run"]
  BY DEF StartJob
<1>2. Range(started') = Range(started) \cup {j}
  BY AppendFresh DEF StartJob, TypeOK
<1>3. j # None
  BY PoolAssumption
<1>4. \A v \in Workers : v # w => task'[v] = task[v] /\ worker'[v] = worker[v] /\ task[v] # j
  BY <1>1, <1>3 DEF TypeOK, RunInv
<1>5. task'[w] = j /\ worker'[w] = "run"
  BY <1>1 DEF TypeOK
<1> QED
  BY <1>2, <1>3, <1>4, <1>5 DEF RunInv

LEMMA StartedAccepted ==
  ASSUME TypeOK, FifoConservation
  PROVE  Range(started) \subseteq Range(accepted)
BY PartOfHistory DEF TypeOK, FifoConservation

LEMMA SendDistinct ==
  ASSUME RefInv, NEW s \in Callers, pc[s] = "send",
         Send(call[s]), call' = [call EXCEPT ![s] = None]
  PROVE  JobsDistinct'
<1>1. call[s] \in Jobs /\ call[s] \notin Range(accepted) /\ IsInjective(accepted)
  BY DEF RefInv, TypeOK, JobsDistinct
<1>2. accepted \in Seq(Jobs) /\ accepted' = Append(accepted, call[s])
  BY DEF Send, RefInv, TypeOK
<1>3. IsInjective(accepted') /\ Range(accepted') = Range(accepted) \cup {call[s]}
  BY <1>1, <1>2, AppendFresh
<1>4. None \notin Range(accepted')
  <2>1. None \notin Range(accepted)
    BY PoolAssumption DEF RefInv, TypeOK, Range
  <2> QED
    BY <1>1, <1>3, <2>1, PoolAssumption
<1>5. call'[s] = None /\ \A t \in Callers : t # s => call'[t] = call[t]
  BY DEF RefInv, TypeOK
<1>6. \A t \in Callers : t # s => call[t] # call[s]
  BY <1>1, PoolAssumption DEF RefInv, JobsDistinct
<1>7. \A t \in Callers : call'[t] \notin Range(accepted')
  BY <1>3, <1>4, <1>5, <1>6 DEF RefInv, JobsDistinct
<1>8. \A t, u \in Callers : call'[t] # None /\ call'[t] = call'[u] => t = u
  BY <1>5 DEF RefInv, JobsDistinct
<1> QED
  BY <1>3, <1>7, <1>8 DEF JobsDistinct

LEMMA SendRunInv ==
  ASSUME RefInv, NEW s \in Callers, pc[s] = "send", Send(call[s])
  PROVE  /\ RunInv'
         /\ \A w \in Workers : worker[w] = "exited" => worker'[w] = "exited"
<1>1. call[s] \in Jobs /\ call[s] \notin Range(started)
  BY StartedAccepted DEF RefInv, TypeOK, JobsDistinct, FifoInv
<1>2. CASE \E w \in Parked : StartJob(w, call[s])
  <2>1. PICK w \in Parked : StartJob(w, call[s])
    BY <1>2
  <2>2. w \in Workers /\ worker[w] = "parked"
    BY DEF Parked
  <2>3. RunInv'
    BY <1>1, <2>1, <2>2, StartRunInv DEF RefInv
  <2> QED
    BY <2>1, <2>2, <2>3 DEF StartJob, RefInv, TypeOK
<1>3. CASE UNCHANGED <<worker, task, started>>
  BY <1>3, OtherRunInv DEF RefInv
<1> QED
  BY <1>2, <1>3 DEF Send

LEMMA JobsDistinctNext ==
  ASSUME RefInv, [Next]_vars
  PROVE  JobsDistinct'
<1> USE DEF RefInv
<1>1. ASSUME NEW w \in Workers, SelectStep(w) \/ JobReturn(w) PROVE JobsDistinct'
  BY <1>1, OtherJobsDistinct
     DEF SelectStep, WorkerTake, WorkerPark, WorkerLeave, WorkerDone, JobReturn, callVars
<1>2. ASSUME NEW s \in Callers, NEW j \in Jobs, Call(s, j) PROVE JobsDistinct'
  <2>1. call'[s] = j /\ \A t \in Callers : t # s => call'[t] = call[t]
    BY <1>2 DEF Call, TypeOK
  <2>2. accepted' = accepted /\ j \notin Range(accepted) /\ \A t \in Callers : call[t] # j
    BY <1>2 DEF Call, workVars, Fresh
  <2> QED
    BY <2>1, <2>2 DEF JobsDistinct
<1>3. ASSUME NEW s \in Callers, UNCHANGED accepted,
             call' = [call EXCEPT ![s] = None] \/ call' = call
      PROVE  JobsDistinct'
  BY <1>3, OtherJobsDistinct DEF TypeOK
<1>4. ASSUME NEW s \in Callers, Lock(s) PROVE JobsDistinct'
  BY <1>3, <1>4 DEF Lock, Return, GoTo, workVars
<1>5. ASSUME NEW s \in TryCallers, TryCheck(s) PROVE JobsDistinct'
  BY <1>3, <1>5 DEF TryCheck, Return, GoTo, workVars
<1>6. ASSUME NEW s \in TryCallers, TrySend(s) PROVE JobsDistinct'
  BY <1>3, <1>6, SendDistinct DEF TrySend, Return, workVars
<1>7. ASSUME NEW s \in CtxCallers, CtxCheck(s) \/ CtxExpire(s) PROVE JobsDistinct'
  BY <1>3, <1>7 DEF CtxCheck, CtxExpire, Return, GoTo, workVars
<1>8. ASSUME NEW s \in CtxCallers, CtxSend(s) PROVE JobsDistinct'
  BY <1>3, <1>8, SendDistinct DEF CtxSend, Return, GoTo, workVars
<1>9. ASSUME NEW c \in Closers, CloseCall(c) \/ CloseStep(c) \/ CloseQueue(c)
      PROVE  JobsDistinct'
  BY <1>9, OtherJobsDistinct DEF CloseCall, CloseStep, Once, CloseCh, Cancel, WaitReturn,
                                 CloseQueue, GoTo, workVars
<1>10. CASE UNCHANGED vars
  BY <1>10, OtherJobsDistinct DEF vars, callVars, workVars
<1> QED
  BY <1>1, <1>2, <1>4, <1>5, <1>6, <1>7, <1>8, <1>9, <1>10
     DEF Next, TryStep, CtxStep, Terminated

LEMMA RunInvNext ==
  ASSUME RefInv, [Next]_vars
  PROVE  RunInv'
<1> USE DEF RefInv
<1>1. ASSUME NEW w \in Workers, WorkerTake(w) PROVE RunInv'
  <2>1. Head(queue) \in Jobs /\ Head(queue) \notin Range(started)
    BY <1>1, NextToStart DEF WorkerTake, TypeOK, FifoInv, FifoConservation, JobsDistinct
  <2> QED
    BY <1>1, <2>1, StartRunInv DEF WorkerTake
<1>2. ASSUME NEW w \in Workers, WorkerPark(w) \/ WorkerLeave(w) \/ WorkerDone(w) PROVE RunInv'
  BY <1>2, OtherRunInv DEF WorkerPark, WorkerLeave, WorkerDone, TypeOK
<1>3. ASSUME NEW w \in Workers, JobReturn(w) PROVE RunInv'
  <2>1. /\ task'[w] = None /\ worker'[w] = "select" /\ UNCHANGED started
        /\ \A v \in Workers : v # w => task'[v] = task[v] /\ worker'[v] = worker[v]
    BY <1>3 DEF JobReturn, TypeOK
  <2> QED
    BY <2>1 DEF RunInv
<1>4. ASSUME UNCHANGED workVars PROVE RunInv'
  BY <1>4, OtherRunInv DEF workVars
<1>5. ASSUME NEW s \in Callers, TrySend(s) \/ CtxSend(s) PROVE RunInv'
  BY <1>4, <1>5, SendRunInv DEF TrySend, CtxSend
<1>6. ASSUME NEW s \in Callers, NEW j \in Jobs, Call(s, j) PROVE RunInv'
  BY <1>4, <1>6 DEF Call
<1>7. ASSUME NEW s \in Callers, CtxExpire(s) \/ TryCheck(s) \/ CtxCheck(s) \/ Lock(s)
      PROVE  RunInv'
  BY <1>4, <1>7 DEF CtxExpire, TryCheck, CtxCheck, Lock
<1>8. ASSUME NEW c \in Closers, Cancel(c) \/ CloseQueue(c) PROVE RunInv'
  <2>1. UNCHANGED <<task, started>>
    BY <1>8 DEF Cancel, CloseQueue
  <2>2. \A w \in Workers : worker'[w] = "run" <=> worker[w] = "run"
    BY <1>8 DEF Cancel, CloseQueue, WakeParked, Parked, TypeOK
  <2> QED
    BY <2>1, <2>2, OtherRunInv
<1>9. ASSUME NEW c \in Closers, CloseCall(c) \/ Once(c) \/ CloseCh(c) \/ WaitReturn(c)
      PROVE  RunInv'
  BY <1>4, <1>9 DEF CloseCall, Once, CloseCh, WaitReturn
<1>10. CASE UNCHANGED vars
  BY <1>4, <1>10 DEF vars
<1> QED
  BY <1>1, <1>2, <1>3, <1>5, <1>6, <1>7, <1>8, <1>9, <1>10
     DEF Next, SelectStep, TryStep, CtxStep, CloseStep, Terminated

\* Nobody comes back from "exited", and a Wait returns only when all are there.
LEMMA WaitInvNext ==
  ASSUME RefInv, [Next]_vars
  PROVE  WaitInv'
<1> USE DEF RefInv
<1>1. ASSUME UNCHANGED worker \/ \A w \in Workers : worker[w] = "exited" => worker'[w] = "exited",
             \A c \in Closers : pc'[c] = "waited" => pc[c] = "waited"
      PROVE  WaitInv'
  BY <1>1 DEF WaitInv
<1>2. ASSUME NEW w \in Workers, SelectStep(w) \/ JobReturn(w) PROVE WaitInv'
  <2>1. UNCHANGED pc
    BY <1>2 DEF SelectStep, WorkerTake, WorkerPark, WorkerLeave, WorkerDone, JobReturn, callVars
  <2>2. \A v \in Workers : worker[v] = "exited" => worker'[v] = "exited"
    BY <1>2 DEF SelectStep, WorkerTake, StartJob, WorkerPark, WorkerLeave, WorkerDone, JobReturn,
                TypeOK
  <2> QED
    BY <1>1, <2>1, <2>2
<1>3. ASSUME NEW s \in Callers, NEW step, pc' = [pc EXCEPT ![s] = step]
      PROVE  \A c \in Closers : pc'[c] = pc[c]
  BY <1>3, PoolAssumption DEF TypeOK
<1>4. ASSUME NEW s \in Callers, NEW j \in Jobs, Call(s, j) PROVE WaitInv'
  BY <1>1, <1>3, <1>4 DEF Call, workVars
<1>5. ASSUME NEW s \in Callers, TryCheck(s) \/ CtxCheck(s) \/ Lock(s) \/ CtxExpire(s)
      PROVE  WaitInv'
  BY <1>1, <1>3, <1>5 DEF TryCheck, CtxCheck, Lock, CtxExpire, Return, GoTo, workVars
<1>6. ASSUME NEW s \in Callers, TrySend(s) \/ CtxSend(s) PROVE WaitInv'
  <2>1. \A c \in Closers : pc'[c] = pc[c]
    BY <1>3, <1>6 DEF TrySend, CtxSend, Return, GoTo
  <2>2. UNCHANGED worker \/ \A w \in Workers : worker[w] = "exited" => worker'[w] = "exited"
    BY <1>6, SendRunInv DEF TrySend, CtxSend, workVars
  <2> QED
    BY <1>1, <2>1, <2>2
<1>7. ASSUME NEW c \in Closers, CloseCall(c) \/ Once(c) \/ CloseCh(c) PROVE WaitInv'
  BY <1>1, <1>7 DEF CloseCall, Once, CloseCh, GoTo, workVars, TypeOK
<1>8. ASSUME NEW c \in Closers, Cancel(c) \/ CloseQueue(c) PROVE WaitInv'
  <2>1. \A d \in Closers : pc'[d] = "waited" => pc[d] = "waited"
    BY <1>8 DEF Cancel, CloseQueue, GoTo, TypeOK
  <2>2. \A w \in Workers : worker[w] = "exited" => worker'[w] = "exited"
    BY <1>8 DEF Cancel, CloseQueue, WakeParked, Parked
  <2> QED
    BY <1>1, <2>1, <2>2
<1>9. ASSUME NEW c \in Closers, WaitReturn(c) PROVE WaitInv'
  BY <1>9 DEF WaitReturn, workVars, WaitInv
<1>10. CASE UNCHANGED vars
  BY <1>10 DEF vars, callVars, workVars, WaitInv
<1> QED
  BY <1>2, <1>4, <1>5, <1>6, <1>7, <1>8, <1>9, <1>10 DEF Next, TryStep, CtxStep, CloseStep, Terminated

LEMMA RefInvNext == RefInv /\ [Next]_vars => RefInv'
<1> SUFFICES ASSUME RefInv, [Next]_vars PROVE RefInv'
  OBVIOUS
<1>1. TypeOK'
  BY TypeNext DEF RefInv
<1> QED
  BY <1>1, CloseInvNext, FifoInvNext, JobsDistinctNext, RunInvNext, WaitInvNext DEF RefInv

-----------------------------------------------------------------------------
(* What the abstract state is, and how the steps change it.                *)

Finished == {j \in Range(started) : \A w \in Workers : task[w] # j}
Stopped == \E c \in Closers : pc[c] = "waited"

\* The library operators of the instance are those of this module.
LEMMA SameOperators ==
  ASSUME NEW S
  PROVE  Abstract!Cardinality(S) = Cardinality(S) /\ Abstract!Range(S) = Range(S)
<1>1. Abstract!Cardinality(S) = Cardinality(S)
  BY DEF Abstract!Cardinality, Cardinality
<1>2. Abstract!Range(S) = Range(S)
  BY DEF Abstract!Range, Range
<1> QED
  BY <1>1, <1>2

LEMMA RunningIs == Abstract!Running = Range(started) \ Finished
BY SameOperators DEF Abstract!Running, Finished

\* While a worker is not running a job, one more job may run.
LEMMA RoomToRun ==
  ASSUME RefInv, NEW w \in Workers, worker[w] # "run"
  PROVE  Abstract!Cardinality(Abstract!Running) < Cardinality(Workers)
<1> DEFINE R == Range(started) \ Finished
           others == Workers \ {w}
           runner == [j \in R |-> CHOOSE v \in Workers : task[v] = j]
<1>1. ASSUME NEW j \in R
      PROVE  runner[j] \in others /\ task[runner[j]] = j
  <2>1. \E v \in Workers : task[v] = j
    BY DEF Finished
  <2>2. runner[j] \in Workers /\ task[runner[j]] = j
    BY <2>1
  <2>3. j # None
    BY PoolAssumption DEF RefInv, TypeOK, Range
  <2> QED
    BY <2>2, <2>3 DEF RefInv, RunInv
<1>2. runner \in Injection(R, others)
  BY <1>1 DEF Injection, IsInjective
<1>3. IsFiniteSet(others) /\ Cardinality(others) = Cardinality(Workers) - 1
  BY PoolAssumption, FS_RemoveElement
<1> HIDE DEF R, others, runner
<1>4. IsFiniteSet(R) /\ Cardinality(R) <= Cardinality(others)
  BY <1>2, <1>3, FS_Injection
<1>5. Cardinality(Workers) \in Nat /\ Cardinality(R) \in Nat
  BY <1>4, PoolAssumption, FS_CardinalityType
<1>6. Abstract!Cardinality(Abstract!Running) = Cardinality(R)
  BY RunningIs, SameOperators, Zenon DEF R
<1> QED
  BY <1>3, <1>4, <1>5, <1>6

\* A started job joins those that run; the finished ones stay finished.
LEMMA StartFinished ==
  ASSUME TypeOK, NEW w \in Workers, task[w] = None,
         NEW j \in Jobs, j \notin Range(started), StartJob(w, j)
  PROVE  Finished' = Finished
<1>1. Range(started') = Range(started) \cup {j}
  BY AppendFresh DEF StartJob, TypeOK
<1>2. task'[w] = j /\ \A v \in Workers : v # w => task'[v] = task[v]
  BY DEF StartJob, TypeOK
<1>3. None \notin Range(started)
  BY PoolAssumption DEF TypeOK, Range
<1>4. ASSUME NEW i \in Range(started)
      PROVE  (\A v \in Workers : task'[v] # i) <=> (\A v \in Workers : task[v] # i)
  BY <1>2, <1>3
<1> QED
  BY <1>1, <1>2, <1>4 DEF Finished

\* Steps that leave the jobs and the intake alone are stutters of the executor.
LEMMA Stutter ==
  ASSUME UNCHANGED <<accepted, started, queueClosed>>, Finished' = Finished, Stopped' = Stopped
  PROVE  [Abstract!Next]_(Abstract!vars)
BY DEF Abstract!vars, Finished, Stopped

LEMMA TakeIsStart ==
  ASSUME RefInv, NEW w \in Workers, WorkerTake(w)
  PROVE  Abstract!Start
<1> USE DEF RefInv
<1>1. ~Stopped /\ Stopped' = Stopped
  BY DEF WorkerTake, callVars, Stopped, WaitInv
<1>2. /\ Head(queue) \in Jobs /\ Head(queue) \notin Range(started)
      /\ Len(started) < Len(accepted) /\ accepted[Len(started) + 1] = Head(queue)
  BY NextToStart DEF WorkerTake, TypeOK, FifoInv, FifoConservation, JobsDistinct
<1>3. Abstract!Cardinality(Abstract!Running) < Cardinality(Workers)
  BY RoomToRun DEF WorkerTake
<1>4. task[w] = None
  BY DEF WorkerTake, RunInv
<1>5. Finished' = Finished
  BY <1>2, <1>4, StartFinished DEF WorkerTake
<1>6. /\ started' = Append(started, accepted[Len(started) + 1])
      /\ UNCHANGED <<accepted, queueClosed>>
  BY <1>2 DEF WorkerTake, StartJob, intakeVars
<1> QED
  BY <1>1, <1>2, <1>3, <1>5, <1>6 DEF Abstract!Start, Finished, Stopped

LEMMA ReturnIsFinish ==
  ASSUME RefInv, NEW w \in Workers, JobReturn(w), NEW j \in Jobs, j = task[w]
  PROVE  Abstract!Finish(j)
<1> USE DEF RefInv
<1>1. j # None /\ j \in Range(started)
  BY DEF JobReturn, RunInv
<1>2. j \in Range(started) \ Finished
  BY <1>1 DEF Finished
<1>3. task'[w] = None /\ \A v \in Workers : v # w => task'[v] = task[v]
  BY DEF JobReturn, TypeOK
<1>4. None \notin Range(started)
  BY PoolAssumption DEF TypeOK, Range
<1>5. \A v \in Workers : v # w => task[v] # j
  BY <1>1 DEF RunInv
<1>6. Finished' = Finished \cup {j}
  <2>1. UNCHANGED started
    BY DEF JobReturn
  <2>2. ASSUME NEW i \in Range(started)
        PROVE  (\A v \in Workers : task'[v] # i) <=> (\A v \in Workers : task[v] # i) \/ i = j
    BY <1>3, <1>4, <1>5
  <2> QED
    BY <1>1, <2>1, <2>2 DEF Finished
<1>7. UNCHANGED <<accepted, started, queueClosed>> /\ Stopped' = Stopped
  BY DEF JobReturn, intakeVars, callVars, Stopped
<1> QED
  BY <1>2, <1>6, <1>7, RunningIs DEF Abstract!Finish, Finished, Stopped

LEMMA SendIsAccept ==
  ASSUME RefInv, NEW s \in Callers, pc[s] = "send", Send(call[s]),
         UNCHANGED queueClosed, Stopped' = Stopped, NEW j \in Jobs, j = call[s]
  PROVE  Abstract!HandOff(j) \/ Abstract!Accept(j)
<1> USE DEF RefInv
<1>1. ~queueClosed
  BY DEF CloseInv, NoChannelPanic
<1>2. j \notin Range(accepted) /\ j \notin Range(started)
  BY StartedAccepted DEF TypeOK, JobsDistinct, FifoInv
<1>3. accepted' = Append(accepted, j)
  BY DEF Send
<1>4. CASE \E w \in Parked : StartJob(w, j)
  <2>1. PICK w \in Parked : StartJob(w, j)
    BY <1>4
  <2>2. w \in Workers /\ worker[w] = "parked" /\ task[w] = None /\ queue = <<>>
    BY DEF Parked, FifoInv, ParkInv, RunInv
  <2>3. accepted = started
    BY <2>2, ConcatEmptySeq DEF FifoInv, FifoConservation, TypeOK
  <2>4. Abstract!Cardinality(Abstract!Running) < Cardinality(Workers)
    BY <2>2, RoomToRun
  <2>5. Finished' = Finished /\ started' = Append(started, j)
    BY <1>2, <2>1, <2>2, StartFinished DEF StartJob
  <2>6. ~Stopped
    BY <2>2 DEF Stopped, WaitInv
  <2> QED
    BY <1>1, <1>2, <1>3, <2>3, <2>4, <2>5, <2>6, SameOperators DEF Abstract!HandOff, Finished, Stopped
<1>5. CASE UNCHANGED <<worker, task, started>>
  <2>1. Finished' = Finished
    BY <1>5 DEF Finished
  <2> QED
    BY <1>1, <1>2, <1>3, <1>5, <2>1, SameOperators DEF Abstract!Accept, Finished, Stopped
<1> QED
  BY <1>4, <1>5 DEF Send

LEMMA CloseQueueIsClose ==
  ASSUME RefInv, NEW c \in Closers, CloseQueue(c)
  PROVE  Abstract!Close
<1>1. ~queueClosed
  BY DEF RefInv, CloseInv, NoChannelPanic, CloseQueue
<1>2. Finished' = Finished /\ UNCHANGED <<accepted, started>> /\ queueClosed'
  BY DEF CloseQueue, Finished
<1>3. Stopped' = Stopped
  BY DEF CloseQueue, GoTo, Stopped, RefInv, TypeOK
<1> QED
  BY <1>1, <1>2, <1>3 DEF Abstract!Close, Finished, Stopped

LEMMA WaitReturnIsStop ==
  ASSUME RefInv, NEW c \in Closers, WaitReturn(c)
  PROVE  Abstract!Stop
<1>1. Range(started) \ Finished = {}
  <2>1. \A w \in Workers : task[w] = None
    BY DEF RefInv, RunInv, WaitReturn
  <2>2. None \notin Range(started)
    BY PoolAssumption DEF RefInv, TypeOK, Range
  <2> QED
    BY <2>1, <2>2 DEF Finished
<1>2. Finished' = Finished /\ UNCHANGED <<accepted, started, queueClosed>>
  BY DEF WaitReturn, workVars, intakeVars, Finished
<1>3. Stopped'
  BY DEF WaitReturn, GoTo, Stopped, RefInv, TypeOK
<1> QED
  BY <1>1, <1>2, <1>3, RunningIs DEF Abstract!Stop, Finished, Stopped

LEMMA RefStep ==
  ASSUME RefInv, [Next]_vars
  PROVE  [Abstract!Next]_(Abstract!vars)
<1> USE DEF RefInv
<1>1. ASSUME UNCHANGED <<workVars, queueClosed>>,
             \A c \in Closers : pc'[c] = "waited" <=> pc[c] = "waited"
      PROVE  [Abstract!Next]_(Abstract!vars)
  BY <1>1, Stutter DEF workVars, Finished, Stopped
<1>2. ASSUME NEW w \in Workers, WorkerTake(w) PROVE Abstract!Next
  BY <1>2, TakeIsStart DEF Abstract!Next
<1>3. ASSUME NEW w \in Workers, WorkerPark(w) \/ WorkerLeave(w) \/ WorkerDone(w)
      PROVE  [Abstract!Next]_(Abstract!vars)
  BY <1>3, Stutter
     DEF WorkerPark, WorkerLeave, WorkerDone, intakeVars, callVars, Finished, Stopped
<1>4. ASSUME NEW w \in Workers, JobReturn(w) PROVE Abstract!Next
  <2>1. task[w] \in Jobs
    BY <1>4 DEF JobReturn, RunInv, TypeOK
  <2>2. PICK j \in Jobs : j = task[w]
    BY <2>1
  <2>3. Abstract!Finish(j)
    BY <1>4, <2>2, ReturnIsFinish
  <2> QED
    BY <2>3 DEF Abstract!Next
<1>5. ASSUME NEW s \in Callers, NEW step, pc' = [pc EXCEPT ![s] = step]
      PROVE  Stopped' = Stopped /\ \A c \in Closers : pc'[c] = pc[c]
  <2>1. \A c \in Closers : pc'[c] = pc[c]
    BY <1>5, PoolAssumption DEF TypeOK
  <2> QED
    BY <2>1 DEF Stopped
<1>6. ASSUME NEW s \in Callers, NEW j \in Jobs, Call(s, j)
      PROVE  [Abstract!Next]_(Abstract!vars)
  BY <1>1, <1>5, <1>6 DEF Call, intakeVars
<1>7. ASSUME NEW s \in Callers, TryCheck(s) \/ CtxCheck(s) \/ Lock(s)
      PROVE  [Abstract!Next]_(Abstract!vars)
  <2>1. UNCHANGED <<workVars, queueClosed>>
    BY <1>7 DEF TryCheck, CtxCheck, Lock, intakeVars
  <2>2. \A c \in Closers : pc'[c] = pc[c]
    BY <1>5, <1>7 DEF TryCheck, CtxCheck, Lock, Return, GoTo
  <2> QED
    BY <1>1, <2>1, <2>2
<1>8. ASSUME NEW s \in Callers, CtxExpire(s) PROVE [Abstract!Next]_(Abstract!vars)
  BY <1>1, <1>8 DEF CtxExpire, intakeVars
<1>9. ASSUME NEW s \in Callers, TrySend(s) \/ CtxSend(s) PROVE [Abstract!Next]_(Abstract!vars)
  <2>1. UNCHANGED queueClosed /\ pc[s] = "send" /\ call[s] \in Jobs
    BY <1>9 DEF TrySend, CtxSend, intakeVars, TypeOK
  <2>2. Stopped' = Stopped /\ \A c \in Closers : pc'[c] = pc[c]
    BY <1>5, <1>9 DEF TrySend, CtxSend, Return, GoTo
  <2>3. CASE Send(call[s])
    <3>1. PICK j \in Jobs : j = call[s]
      BY <2>1
    <3>2. Abstract!HandOff(j) \/ Abstract!Accept(j)
      BY <2>1, <2>2, <2>3, <3>1, SendIsAccept
    <3> QED
      BY <3>2 DEF Abstract!Next
  <2>4. CASE UNCHANGED workVars
    BY <1>1, <2>1, <2>2, <2>4
  <2> QED
    BY <1>9, <2>3, <2>4 DEF TrySend, CtxSend
<1>10. ASSUME NEW c \in Closers, CloseCall(c) \/ Once(c) \/ CloseCh(c)
       PROVE  [Abstract!Next]_(Abstract!vars)
  <2>1. UNCHANGED <<workVars, queueClosed>>
    BY <1>10 DEF CloseCall, Once, CloseCh, intakeVars
  <2>2. \A d \in Closers : pc'[d] = "waited" <=> pc[d] = "waited"
    BY <1>10 DEF CloseCall, Once, CloseCh, GoTo, TypeOK
  <2> QED
    BY <1>1, <2>1, <2>2
<1>11. ASSUME NEW c \in Closers, Cancel(c) PROVE [Abstract!Next]_(Abstract!vars)
  <2>1. UNCHANGED <<accepted, started, queueClosed, task>>
    BY <1>11 DEF Cancel
  <2>2. \A d \in Closers : pc'[d] = "waited" <=> pc[d] = "waited"
    BY <1>11 DEF Cancel, GoTo, TypeOK
  <2> QED
    BY <2>1, <2>2, Stutter DEF Finished, Stopped
<1>12. ASSUME NEW c \in Closers, CloseQueue(c) \/ WaitReturn(c) PROVE Abstract!Next
  BY <1>12, CloseQueueIsClose, WaitReturnIsStop DEF Abstract!Next
<1>13. CASE UNCHANGED vars
  BY <1>1, <1>13 DEF vars, intakeVars, callVars
<1> QED
  BY <1>2, <1>3, <1>4, <1>6, <1>7, <1>8, <1>9, <1>10, <1>11, <1>12, <1>13
     DEF Next, SelectStep, TryStep, CtxStep, CloseStep, Terminated

\* The pool keeps the promise of the abstract executor, whatever callers retry, give up
\* or race with Close: jobs are accepted once and only while the queue is open, start in
\* the order of acceptance, never more of them at a time than there are workers, and
\* none runs after a Wait has returned.
THEOREM Implements == Spec => ImplementsExecutor
<1>1. Init => Abstract!Init
  <2> SUFFICES ASSUME Init PROVE Abstract!Init
    OBVIOUS
  <2>1. Finished = {}
    BY DEF Init, Finished, Range
  <2>2. ~Stopped
    BY DEF Init, Stopped
  <2> QED
    BY <2>1, <2>2 DEF Init, Abstract!Init, Finished, Stopped
<1> QED
  BY <1>1, RefInvInit, RefInvNext, RefStep, PTL DEF Spec, ImplementsExecutor, Abstract!Spec
=============================================================================
