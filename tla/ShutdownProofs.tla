--------------------------- MODULE ShutdownProofs ---------------------------
(***************************************************************************)
(* Proofs about Shutdown, for any numbers of workers, submitters, stoppers *)
(* and jobs and any capacity of the queue: a shutdown that reports the     *)
(* backlog drained has had every accepted job processed, and the service   *)
(* implements the abstract executor up to a panic.                         *)
(***************************************************************************)
EXTENDS Shutdown, Histories, FiniteSetTheorems

USE DEF Clients

-----------------------------------------------------------------------------
(* Types.  TypeOK is not inductive: a send appends the job of the client,  *)
(* which has one from the call of Submit to its return, and a worker       *)
(* counts as processed the job it works on.                                *)

CallInv == \A p \in Clients : pc[p] \in {"check", "send"} => call[p] \in Jobs
TaskInv == \A w \in Workers : worker[w] = "work" => task[w] \in Jobs

Typed == TypeOK /\ CallInv /\ TaskInv

LEMMA TypedInit == Init => Typed
<1> SUFFICES ASSUME Init PROVE Typed
  OBVIOUS
<1>1. <<>> \in Seq(Jobs) /\ Len(<<>>) <= QueueSize
  BY ShutdownAssumption
<1> QED
  BY <1>1 DEF Init, Typed, TypeOK, CallInv, TaskInv

LEMMA WorkerTypes ==
  ASSUME Typed, NEW w \in Workers, WorkerStep(w)
  PROVE  Typed'
<1> USE DEF Typed
<1>1. UNCHANGED <<flagVars, clientVars>> /\ CallInv'
  BY DEF WorkerStep, WorkerTake, WorkerPark, WorkerLeave, WorkFinish, WorkInterrupt, WorkerDone,
         clientVars, CallInv
<1>2. ASSUME WorkerTake(w) PROVE Typed'
  <2>1. Head(jobs) \in Jobs /\ Tail(jobs) \in Seq(Jobs) /\ Len(Tail(jobs)) <= QueueSize
    BY <1>2, ShutdownAssumption DEF WorkerTake, TypeOK
  <2> QED
    BY <1>1, <1>2, <2>1
       DEF WorkerTake, StartJob, Resume, flagVars, clientVars, TypeOK, TaskInv
<1>3. ASSUME WorkerPark(w) \/ WorkerLeave(w) \/ WorkInterrupt(w) \/ WorkerDone(w) \/ WorkFinish(w)
      PROVE  Typed'
  BY <1>1, <1>3 DEF WorkerPark, WorkerLeave, WorkInterrupt, WorkerDone, WorkFinish, Resume,
                    flagVars, clientVars, TypeOK, TaskInv
<1> QED
  BY <1>2, <1>3 DEF WorkerStep

\* What a send does: nothing, or one job for a worker that waits or for the buffer.
HandOver(p, w) ==
  /\ w \in Parked
  /\ accepted' = Append(accepted, call[p])
  /\ StartJob(w, call[p])
  /\ UNCHANGED jobs

Buffer(p) ==
  /\ Parked = {}
  /\ Len(jobs) < QueueSize
  /\ accepted' = Append(accepted, call[p])
  /\ jobs' = Append(jobs, call[p])
  /\ UNCHANGED <<worker, task, started, processed>>

LEMMA SendCases ==
  ASSUME NEW p, SubmitSend(p)
  PROVE  \/ \E w \in Workers : HandOver(p, w)
         \/ Buffer(p)
         \/ UNCHANGED workVars
BY DEF SubmitSend, HandOver, Buffer, Parked

LEMMA SendTypes ==
  ASSUME Typed, NEW p \in Clients, SubmitSend(p)
  PROVE  Typed'
<1> USE DEF Typed
<1>1. pc[p] = "send" /\ call[p] \in Jobs
  BY DEF SubmitSend, CallInv
<1>2. CallInv'
  BY DEF SubmitSend, Return, CallInv, TypeOK
<1>3. /\ pc' \in [Clients -> {"idle", "check", "send", "phase1", "closing", "closeJobs",
                              "soft", "cancel", "hard", "panic"}]
      /\ call' \in [Clients -> Jobs \cup {None}]
      /\ UNCHANGED <<flagVars, reports>>
  BY DEF SubmitSend, Return, TypeOK
<1>4. ASSUME NEW w \in Workers, HandOver(p, w) PROVE Typed'
  BY <1>1, <1>2, <1>3, <1>4 DEF HandOver, StartJob, Resume, Parked, flagVars, TypeOK, TaskInv
<1>5. ASSUME Buffer(p) PROVE Typed'
  <2>1. jobs' \in Seq(Jobs) /\ Len(jobs') = Len(jobs) + 1 /\ Len(jobs) \in Nat
    BY <1>1, <1>5 DEF Buffer, TypeOK
  <2>2. Len(jobs') <= QueueSize
    BY <1>5, <2>1, ShutdownAssumption DEF Buffer
  <2>3. accepted' \in Seq(Jobs)
    BY <1>1, <1>5 DEF Buffer, TypeOK
  <2> QED
    BY <1>2, <1>3, <1>5, <2>1, <2>2, <2>3 DEF Buffer, flagVars, TypeOK, TaskInv
<1>6. CASE UNCHANGED workVars
  BY <1>2, <1>3, <1>6 DEF workVars, flagVars, TypeOK, TaskInv
<1> QED
  BY <1>4, <1>5, <1>6, SendCases

LEMMA ClientTypes ==
  ASSUME Typed, NEW p \in Clients,
         \/ SubmitStep(p) \/ \E j \in Jobs : Submit(p, j)
         \/ ShutdownCall(p) \/ ShutdownStep(p) \/ Timeout(p)
  PROVE  Typed'
<1> USE DEF Typed
<1>1. ASSUME NEW j \in Jobs, Submit(p, j) PROVE Typed'
  BY <1>1 DEF Submit, flagVars, workVars, TypeOK, CallInv, TaskInv
<1>2. ASSUME SubmitCheck(p) PROVE Typed'
  <2>1. CASE Return(p)
    BY <1>2, <2>1 DEF SubmitCheck, Return, flagVars, workVars, TypeOK, CallInv, TaskInv
  <2>2. CASE GoTo(p, "send")
    BY <1>2, <2>2 DEF SubmitCheck, GoTo, flagVars, workVars, TypeOK, CallInv, TaskInv
  <2> QED
    BY <1>2, <2>1, <2>2 DEF SubmitCheck
<1>3. ASSUME SubmitPanic(p) PROVE Typed'
  BY <1>3 DEF SubmitPanic, Panic, GoTo, workVars, TypeOK, CallInv, TaskInv
<1>4. ASSUME ShutdownCall(p) \/ SoftTimeout(p) PROVE Typed'
  BY <1>4 DEF ShutdownCall, SoftTimeout, GoTo, flagVars, workVars, TypeOK, CallInv, TaskInv
<1>5. ASSUME IntakeCheck(p) PROVE Typed'
  BY <1>5 DEF IntakeCheck, GoTo, flagVars, workVars, TypeOK, CallInv, TaskInv
<1>6. ASSUME CloseClosed(p) PROVE Typed'
  BY <1>6 DEF CloseClosed, Panic, GoTo, workVars, TypeOK, CallInv, TaskInv
<1>7. ASSUME CloseJobs(p) \/ Cancel(p) PROVE Typed'
  <2>1. /\ worker' \in [Workers -> {"select", "parked", "work", "leaving", "exited"}]
        /\ \A w \in Workers : worker'[w] = "work" => worker[w] = "work"
    BY <1>7 DEF CloseJobs, Cancel, WakeParked, Parked, TypeOK
  <2>2. TaskInv'
    BY <1>7, <2>1 DEF CloseJobs, Cancel, TaskInv
  <2>3. CASE CloseJobs(p)
    BY <2>1, <2>2, <2>3 DEF CloseJobs, GoTo, TypeOK, CallInv
  <2>4. CASE Cancel(p)
    BY <2>1, <2>2, <2>4 DEF Cancel, GoTo, TypeOK, CallInv
  <2> QED
    BY <1>7, <2>3, <2>4
<1>8. ASSUME NEW what \in {"drained", "joined", "gaveUp"}, Report(p, what) PROVE Typed'
  BY <1>8 DEF Report, flagVars, workVars, TypeOK, CallInv, TaskInv
<1> QED
  BY <1>1, <1>2, <1>3, <1>4, <1>5, <1>6, <1>7, <1>8, SendTypes
     DEF SubmitStep, ShutdownStep, Timeout, SoftDone, HardDone, HardTimeout

\* The step of a worker, the step of a client, or no step at all.
LEMMA StepCases ==
  ASSUME [Next]_vars
  PROVE  \/ \E w \in Workers : WorkerStep(w)
         \/ \E p \in Clients : \/ SubmitStep(p) \/ \E j \in Jobs : Submit(p, j)
                               \/ ShutdownCall(p) \/ ShutdownStep(p) \/ Timeout(p)
         \/ UNCHANGED vars
BY DEF Next, Crashed

LEMMA TypedNext == Typed /\ [Next]_vars => Typed'
<1> SUFFICES ASSUME Typed, [Next]_vars PROVE Typed'
  OBVIOUS
<1>1. CASE UNCHANGED vars
  BY <1>1 DEF vars, flagVars, clientVars, workVars, Typed, TypeOK, CallInv, TaskInv
<1> QED
  BY <1>1, StepCases, WorkerTypes, ClientTypes

-----------------------------------------------------------------------------
(* What a step does to the jobs and to the flags that the workers watch.   *)

Returned == reports \cap {"drained", "joined"} # {}

\* The steps that touch neither, and report the workers gone only if they are.
Quiet ==
  /\ UNCHANGED <<workVars, jobsClosed, cancelled>>
  /\ \A p \in Clients : call'[p] \in {call[p], None}
  /\ \/ Returned' = Returned
     \/ AllExited /\ Returned'

ClientEffect(p) ==
  \/ \E j \in Jobs : Submit(p, j)
  \/ SubmitSend(p) /\ \E w \in Workers : HandOver(p, w)
  \/ SubmitSend(p) /\ Buffer(p)
  \/ CloseJobs(p)
  \/ Cancel(p)
  \/ Quiet

LEMMA ClientEffects ==
  ASSUME TypeOK, NEW p \in Clients,
         \/ SubmitStep(p) \/ \E j \in Jobs : Submit(p, j)
         \/ ShutdownCall(p) \/ ShutdownStep(p) \/ Timeout(p)
  PROVE  ClientEffect(p)
<1>1. ASSUME UNCHANGED <<workVars, jobsClosed, cancelled, reports>>,
             call' = call \/ call' = [call EXCEPT ![p] = None]
      PROVE  Quiet
  BY <1>1 DEF Quiet, Returned, TypeOK
<1>2. ASSUME SubmitSend(p) PROVE ClientEffect(p)
  BY <1>1, <1>2, SendCases DEF ClientEffect, SubmitSend, Return, flagVars
<1>3. ASSUME SubmitCheck(p) \/ SubmitPanic(p) PROVE Quiet
  BY <1>1, <1>3 DEF SubmitCheck, SubmitPanic, Return, GoTo, Panic, flagVars
<1>4. ASSUME ShutdownCall(p) \/ IntakeCheck(p) \/ CloseClosed(p) \/ SoftTimeout(p) PROVE Quiet
  BY <1>1, <1>4 DEF ShutdownCall, IntakeCheck, CloseClosed, SoftTimeout, GoTo, Panic, flagVars
<1>5. ASSUME NEW what, Report(p, what), AllExited \/ what = "gaveUp" PROVE Quiet
  BY <1>5 DEF Report, flagVars, Quiet, Returned
<1>6. ASSUME SoftDone(p) \/ HardDone(p) \/ HardTimeout(p) PROVE Quiet
  BY <1>5, <1>6 DEF SoftDone, HardDone, HardTimeout
<1> QED
  BY <1>2, <1>3, <1>4, <1>6 DEF ClientEffect, SubmitStep, ShutdownStep, Timeout

LEMMA Effects ==
  ASSUME TypeOK, [Next]_vars
  PROVE  \/ \E w \in Workers : WorkerStep(w)
         \/ \E p \in Clients : ClientEffect(p)
         \/ Quiet
<1>1. CASE UNCHANGED vars
  BY <1>1 DEF vars, flagVars, clientVars, Quiet, Returned
<1> QED
  BY <1>1, StepCases, ClientEffects

-----------------------------------------------------------------------------
(* The invariant.                                                          *)

\* The queue is what was accepted and not started, and a worker waits only at an empty one.
FifoInv == accepted = started \o jobs /\ (Parked # {} => jobs = <<>>)

\* A job that is being submitted has not been accepted and has one submitter.
JobsDistinct ==
  /\ IsInjective(accepted)
  /\ \A p \in Clients : call[p] \notin Range(accepted)
  /\ \A p, q \in Clients : call[p] # None /\ call[p] = call[q] => p = q

\* A worker has a job exactly while it works on it, a started one, and nobody else's.
RunInv ==
  /\ \A w \in Workers : task[w] # None <=> worker[w] = "work"
  /\ \A w \in Workers : task[w] # None => task[w] \in Range(started)
  /\ \A v, w \in Workers : task[v] # None /\ task[v] = task[w] => v = w

Finished == {j \in Range(started) : \A w \in Workers : task[w] # j}

\* Until something is cancelled a worker leaves only an intake that is closed and empty,
LeaveInv ==
  ~cancelled /\ (\E w \in Workers : worker[w] \in {"leaving", "exited"}) =>
  jobsClosed /\ jobs = <<>>

\* and lets go of a job only when it has processed it.
BalanceInv == ~cancelled => processed = Finished

DoneInv == Returned => AllExited

Inv == Typed /\ FifoInv /\ JobsDistinct /\ RunInv /\ LeaveInv /\ BalanceInv /\ DoneInv

LEMMA InvInit == Init => Inv
<1> SUFFICES ASSUME Init PROVE Inv
  OBVIOUS
<1>1. FifoInv
  <2>1. <<>> \o <<>> = <<>>
    OBVIOUS
  <2> QED
    BY <2>1 DEF Init, FifoInv, Parked
<1>2. Range(accepted) = {} /\ Range(started) = {} /\ IsInjective(accepted)
  <2>1. DOMAIN accepted = {} /\ DOMAIN started = {}
    BY DEF Init
  <2> QED
    BY <2>1 DEF Range, IsInjective
<1>3. JobsDistinct /\ RunInv
  BY <1>2 DEF Init, JobsDistinct, RunInv
<1>4. LeaveInv /\ BalanceInv /\ DoneInv
  BY <1>2 DEF Init, LeaveInv, BalanceInv, DoneInv, Finished, Returned
<1> QED
  BY <1>1, <1>3, <1>4, TypedInit DEF Inv

(* The facts about a job that begins: it is new, and its worker had none.  *)

LEMMA Fresh ==
  ASSUME Inv
  PROVE  /\ Range(started) \subseteq Range(accepted)
         /\ None \notin Range(started) /\ None \notin Range(accepted)
         /\ jobs # <<>> => /\ Head(jobs) \in Jobs
                           /\ Head(jobs) \notin Range(started)
                           /\ Len(started) < Len(accepted)
                           /\ accepted[Len(started) + 1] = Head(jobs)
<1>1. started \in Seq(Jobs) /\ jobs \in Seq(Jobs) /\ accepted \in Seq(Jobs)
  BY DEF Inv, Typed, TypeOK
<1>2. accepted = started \o jobs /\ IsInjective(accepted)
  BY DEF Inv, FifoInv, JobsDistinct
<1>3. Range(started) \subseteq Range(accepted)
  BY <1>1, <1>2, PartOfHistory
<1>4. None \notin Range(accepted)
  BY <1>1, ShutdownAssumption DEF Range
<1>5. jobs # <<>> => Head(jobs) \in Jobs
  BY <1>1
<1>6. ASSUME jobs # <<>>
      PROVE  /\ Head(jobs) \notin Range(started)
             /\ Len(started) < Len(accepted)
             /\ accepted[Len(started) + 1] = Head(jobs)
  BY <1>1, <1>2, <1>6, NextToStart
<1> QED
  BY <1>3, <1>4, <1>5, <1>6

LEMMA Began ==
  ASSUME Inv, NEW w \in Workers, worker[w] \in {"select", "parked"},
         NEW j \in Jobs, j \notin Range(started), StartJob(w, j)
  PROVE  /\ RunInv' /\ Finished' = Finished
         /\ task[w] = None /\ worker'[w] = "work"
         /\ \A v \in Workers : v # w => worker'[v] = worker[v]
<1>1. /\ task'[w] = j /\ worker'[w] = "work"
      /\ \A v \in Workers : v # w => task'[v] = task[v] /\ worker'[v] = worker[v]
  BY DEF StartJob, Resume, Inv, Typed, TypeOK
<1>2. Range(started') = Range(started) \cup {j}
  BY AppendFresh DEF StartJob, Inv, Typed, TypeOK
<1>3. task[w] = None
  BY DEF Inv, RunInv
<1>4. RunInv'
  BY <1>1, <1>2, ShutdownAssumption DEF Inv, RunInv
<1>5. ASSUME NEW i \in Range(started)
      PROVE  (\A v \in Workers : task'[v] # i) <=> (\A v \in Workers : task[v] # i)
  BY <1>1, <1>3, Fresh
<1>6. Finished' = Finished
  BY <1>1, <1>2, <1>5 DEF Finished
<1> QED
  BY <1>1, <1>3, <1>4, <1>6

\* A worker lets go of its job: the job is finished, and no other is.
LEMMA Ended ==
  ASSUME Inv, NEW w \in Workers, worker[w] = "work",
         task' = [task EXCEPT ![w] = None], UNCHANGED started,
         NEW step \in {"select", "leaving"}, worker' = [worker EXCEPT ![w] = step]
  PROVE  /\ RunInv' /\ Finished' = Finished \cup {task[w]}
         /\ task[w] \in Range(started) \ Finished
         /\ \A v \in Workers : v # w => worker'[v] = worker[v]
<1>1. /\ task'[w] = None /\ worker'[w] = step
      /\ \A v \in Workers : v # w => task'[v] = task[v] /\ worker'[v] = worker[v]
  BY DEF Inv, Typed, TypeOK
<1>2. task[w] # None /\ task[w] \in Range(started)
  BY DEF Inv, RunInv
<1>3. RunInv'
  BY <1>1 DEF Inv, RunInv
<1>4. ASSUME NEW i \in Range(started)
      PROVE  (\A v \in Workers : task'[v] # i) <=> (\A v \in Workers : task[v] # i) \/ i = task[w]
  BY <1>1, <1>2, Fresh DEF Inv, RunInv
<1>5. Finished' = Finished \cup {task[w]}
  BY <1>2, <1>4 DEF Finished
<1> QED
  BY <1>1, <1>2, <1>3, <1>5 DEF Finished

-----------------------------------------------------------------------------
(* Each kind of step preserves it.                                         *)

\* What the steps that begin or end no job have in common.
LEMMA KeepsJobs ==
  ASSUME Inv, UNCHANGED <<task, accepted, started, processed>>,
         \A p \in Clients : call'[p] \in {call[p], None},
         \A w \in Workers : worker'[w] = "work" <=> worker[w] = "work",
         cancelled => cancelled'
  PROVE  JobsDistinct' /\ RunInv' /\ BalanceInv' /\ Finished' = Finished
<1>1. JobsDistinct'
  BY Fresh DEF Inv, JobsDistinct
<1>2. RunInv'
  BY DEF Inv, RunInv
<1> QED
  BY <1>1, <1>2 DEF Inv, BalanceInv, Finished

LEMMA TakeInv ==
  ASSUME Inv, NEW w \in Workers, WorkerTake(w)
  PROVE  FifoInv' /\ JobsDistinct' /\ RunInv' /\ LeaveInv' /\ BalanceInv' /\ DoneInv'
<1>1. worker[w] = "select" /\ jobs # <<>> /\ StartJob(w, Head(jobs))
  BY DEF WorkerTake
<1>2. /\ UNCHANGED <<accepted, call, cancelled, jobsClosed, reports, processed>>
      /\ jobs' = Tail(jobs) /\ started' = Append(started, Head(jobs))
  BY DEF WorkerTake, StartJob, flagVars, clientVars
<1>3. /\ RunInv' /\ Finished' = Finished /\ worker'[w] = "work"
      /\ \A v \in Workers : v # w => worker'[v] = worker[v]
  BY <1>1, Fresh, Began
<1>4. started \in Seq(Jobs) /\ jobs \in Seq(Jobs) /\ accepted = started \o jobs
  BY DEF Inv, FifoInv, Typed, TypeOK
<1>5. started' \o jobs' = started \o jobs
  BY <1>1, <1>2, <1>4, MoveHead
<1>6. Parked' = {}
  BY <1>1, <1>3 DEF Parked, Inv, FifoInv
<1>7. FifoInv'
  BY <1>2, <1>4, <1>5, <1>6 DEF FifoInv
<1>8. JobsDistinct'
  BY <1>2 DEF Inv, JobsDistinct
<1>9. LeaveInv' /\ DoneInv' /\ BalanceInv'
  BY <1>1, <1>2, <1>3 DEF Inv, LeaveInv, DoneInv, BalanceInv, Returned, AllExited
<1> QED
  BY <1>3, <1>7, <1>8, <1>9

LEMMA WorkerInv ==
  ASSUME Inv, NEW w \in Workers, WorkerStep(w)
  PROVE  FifoInv' /\ JobsDistinct' /\ RunInv' /\ LeaveInv' /\ BalanceInv' /\ DoneInv'
<1>1. ASSUME WorkerPark(w) \/ WorkerLeave(w) \/ WorkerDone(w)
      PROVE  FifoInv' /\ JobsDistinct' /\ RunInv' /\ LeaveInv' /\ BalanceInv' /\ DoneInv'
  <2>1. /\ UNCHANGED <<jobs, task, accepted, started, processed, call, cancelled, jobsClosed, reports>>
        /\ \E step \in {"parked", "leaving", "exited"} : worker' = [worker EXCEPT ![w] = step]
        /\ worker[w] \in {"select", "leaving"}
    BY <1>1 DEF WorkerPark, WorkerLeave, WorkerDone, Resume, flagVars, clientVars
  <2>2. JobsDistinct' /\ RunInv' /\ BalanceInv'
    BY <2>1, KeepsJobs DEF Inv, Typed, TypeOK
  <2>3. FifoInv'
    BY <1>1, <2>1 DEF WorkerPark, WorkerLeave, WorkerDone, Resume, Parked, FifoInv, Inv, Typed,
                      TypeOK
  <2>4. LeaveInv'
    BY <1>1, <2>1 DEF WorkerPark, WorkerLeave, WorkerDone, Resume, LeaveInv, Inv, Typed, TypeOK
  <2>5. DoneInv'
    BY <2>1 DEF DoneInv, Returned, AllExited, Inv, Typed, TypeOK
  <2> QED
    BY <2>2, <2>3, <2>4, <2>5
<1>2. ASSUME WorkFinish(w) \/ WorkInterrupt(w)
      PROVE  FifoInv' /\ JobsDistinct' /\ RunInv' /\ LeaveInv' /\ BalanceInv' /\ DoneInv'
  <2>1. PICK step \in {"select", "leaving"} :
          /\ worker' = [worker EXCEPT ![w] = step]
          /\ step = "select" \/ cancelled
    BY <1>2 DEF WorkFinish, WorkInterrupt, Resume
  <2>2. /\ worker[w] = "work" /\ task' = [task EXCEPT ![w] = None]
        /\ UNCHANGED <<jobs, accepted, started, call, cancelled, jobsClosed, reports>>
        /\ processed' = processed \cup {task[w]} \/ cancelled
    BY <1>2 DEF WorkFinish, WorkInterrupt, flagVars, clientVars
  <2>3. /\ RunInv' /\ Finished' = Finished \cup {task[w]}
        /\ \A v \in Workers : v # w => worker'[v] = worker[v]
    BY <2>1, <2>2, Ended
  <2>4. worker'[w] = step
    BY <2>1 DEF Inv, Typed, TypeOK
  <2>5. FifoInv' /\ JobsDistinct'
    BY <2>2, <2>3, <2>4 DEF Inv, FifoInv, JobsDistinct, Parked
  <2>6. LeaveInv' /\ BalanceInv' /\ DoneInv'
    BY <2>1, <2>2, <2>3, <2>4 DEF Inv, LeaveInv, BalanceInv, DoneInv, Returned, AllExited
  <2> QED
    BY <2>3, <2>5, <2>6
<1> QED
  BY <1>1, <1>2, TakeInv DEF WorkerStep

LEMMA SubmitInv ==
  ASSUME Inv, NEW p \in Clients, NEW j \in Jobs, Submit(p, j)
  PROVE  FifoInv' /\ JobsDistinct' /\ RunInv' /\ LeaveInv' /\ BalanceInv' /\ DoneInv'
<1>1. UNCHANGED <<workVars, flagVars, reports>>
  BY DEF Submit
<1>2. call'[p] = j /\ \A q \in Clients : q # p => call'[q] = call[q]
  BY DEF Submit, Inv, Typed, TypeOK
<1>3. j \notin Range(accepted) /\ \A q \in Clients : call[q] # j
  BY DEF Submit
<1>4. JobsDistinct'
  BY <1>1, <1>2, <1>3 DEF workVars, Inv, JobsDistinct
<1>5. FifoInv' /\ RunInv' /\ LeaveInv' /\ BalanceInv' /\ DoneInv'
  BY <1>1 DEF workVars, flagVars, Inv, FifoInv, RunInv, LeaveInv, BalanceInv, DoneInv, Finished,
              Parked, Returned, AllExited
<1> QED
  BY <1>4, <1>5

LEMMA QueueGrows ==
  ASSUME Inv, NEW j \in Jobs
  PROVE  /\ Append(accepted, j) = started \o Append(jobs, j)
         /\ jobs = <<>> => Append(accepted, j) = Append(started, j) \o jobs
<1>1. started \in Seq(Jobs) /\ jobs \in Seq(Jobs) /\ accepted = started \o jobs
  BY DEF Inv, FifoInv, Typed, TypeOK
<1>2. Append(accepted, j) = started \o Append(jobs, j)
  BY <1>1, GrowRest
<1>3. ASSUME jobs = <<>> PROVE Append(accepted, j) = Append(started, j) \o jobs
  BY <1>1, <1>3, NothingLeft
<1> QED
  BY <1>2, <1>3

\* The job of a send that goes through is accepted for the first time.
LEMMA SendInv ==
  ASSUME Inv, NEW p \in Clients, SubmitSend(p),
         (\E w \in Workers : HandOver(p, w)) \/ Buffer(p)
  PROVE  FifoInv' /\ JobsDistinct' /\ RunInv' /\ LeaveInv' /\ BalanceInv' /\ DoneInv'
<1>1. /\ pc[p] = "send" /\ ~jobsClosed /\ call' = [call EXCEPT ![p] = None]
      /\ UNCHANGED <<cancelled, jobsClosed, reports>>
  BY DEF SubmitSend, Return, flagVars
<1>2. call[p] \in Jobs /\ call[p] \notin Range(accepted) /\ call[p] \notin Range(started)
  BY <1>1, Fresh DEF Inv, JobsDistinct, Typed, CallInv
<1>3. accepted \in Seq(Jobs) /\ accepted' = Append(accepted, call[p])
  BY DEF HandOver, Buffer, Inv, Typed, TypeOK
<1>4. JobsDistinct'
  <2>1. IsInjective(accepted') /\ Range(accepted') = Range(accepted) \cup {call[p]}
    BY <1>2, <1>3, AppendFresh DEF Inv, JobsDistinct
  <2>2. call'[p] = None /\ \A q \in Clients : q # p => call'[q] = call[q]
    BY <1>1 DEF Inv, Typed, TypeOK
  <2>3. call[p] # None /\ None \notin Range(accepted)
    BY <1>2, Fresh, ShutdownAssumption
  <2>4. \A q \in Clients : call'[q] \notin Range(accepted')
    BY <2>1, <2>2, <2>3 DEF Inv, JobsDistinct
  <2>5. \A q, r \in Clients : call'[q] # None /\ call'[q] = call'[r] => q = r
    BY <2>2 DEF Inv, JobsDistinct
  <2> QED
    BY <2>1, <2>4, <2>5 DEF JobsDistinct
<1>5. ASSUME NEW w \in Workers, HandOver(p, w)
      PROVE  FifoInv' /\ RunInv' /\ LeaveInv' /\ BalanceInv' /\ DoneInv'
  <2>1. /\ worker[w] = "parked" /\ jobs = <<>> /\ jobs' = jobs
        /\ started' = Append(started, call[p]) /\ processed' = processed
    BY <1>5 DEF HandOver, StartJob, Parked, Inv, FifoInv
  <2>2. Append(accepted, call[p]) = Append(started, call[p]) \o jobs
    BY <1>2, <2>1, QueueGrows
  <2>3. accepted' = started' \o jobs'
    BY <1>3, <2>1, <2>2, Zenon
  <2>4. /\ RunInv' /\ Finished' = Finished /\ worker'[w] = "work"
        /\ \A v \in Workers : v # w => worker'[v] = worker[v]
    BY <1>2, <1>5, <2>1, Began DEF HandOver
  <2>5. FifoInv'
    BY <2>1, <2>3 DEF FifoInv
  <2>6. LeaveInv' /\ BalanceInv' /\ DoneInv'
    BY <1>1, <2>1, <2>4 DEF Inv, LeaveInv, BalanceInv, DoneInv, Returned, AllExited
  <2> QED
    BY <2>4, <2>5, <2>6
<1>6. ASSUME Buffer(p)
      PROVE  FifoInv' /\ RunInv' /\ LeaveInv' /\ BalanceInv' /\ DoneInv'
  <2>1. /\ jobs' = Append(jobs, call[p]) /\ Parked = {}
        /\ started' = started /\ UNCHANGED <<worker, task, processed>>
    BY <1>6 DEF Buffer
  <2>2. Append(accepted, call[p]) = started \o Append(jobs, call[p])
    BY <1>2, QueueGrows
  <2>3. accepted' = started' \o jobs'
    BY <1>3, <2>1, <2>2, Zenon
  <2>4. FifoInv'
    BY <2>1, <2>3 DEF FifoInv, Parked
  <2>5. RunInv' /\ LeaveInv' /\ BalanceInv' /\ DoneInv'
    BY <1>1, <2>1 DEF Inv, RunInv, LeaveInv, BalanceInv, DoneInv, Finished, Returned, AllExited
  <2> QED
    BY <2>4, <2>5
<1> QED
  BY <1>4, <1>5, <1>6

LEMMA WakeInv ==
  ASSUME Inv, NEW p \in Clients, CloseJobs(p) \/ Cancel(p)
  PROVE  FifoInv' /\ JobsDistinct' /\ RunInv' /\ LeaveInv' /\ BalanceInv' /\ DoneInv'
<1>1. /\ UNCHANGED <<jobs, task, accepted, started, processed, call, reports>>
      /\ jobsClosed' \/ cancelled'
      /\ cancelled => cancelled'
      /\ ~cancelled' => jobsClosed' /\ ~cancelled
  BY DEF CloseJobs, Cancel, GoTo
<1>2. \A w \in Workers : worker'[w] = IF worker[w] = "parked" THEN "leaving" ELSE worker[w]
  BY DEF CloseJobs, Cancel, WakeParked, Parked
<1>3. JobsDistinct' /\ RunInv' /\ BalanceInv'
  BY <1>1, <1>2, KeepsJobs
<1>4. FifoInv'
  BY <1>1, <1>2 DEF Inv, FifoInv, Parked
<1>5. LeaveInv'
  BY <1>1, <1>2 DEF Inv, LeaveInv, FifoInv, Parked
<1>6. DoneInv'
  BY <1>1, <1>2 DEF Inv, DoneInv, Returned, AllExited
<1> QED
  BY <1>3, <1>4, <1>5, <1>6

LEMMA QuietInv ==
  ASSUME Inv, Quiet
  PROVE  FifoInv' /\ JobsDistinct' /\ RunInv' /\ LeaveInv' /\ BalanceInv' /\ DoneInv'
<1>1. JobsDistinct' /\ RunInv' /\ BalanceInv'
  BY KeepsJobs DEF Quiet, workVars
<1>2. FifoInv' /\ LeaveInv'
  BY DEF Quiet, workVars, Inv, FifoInv, LeaveInv, Parked
<1>3. DoneInv'
  BY DEF Quiet, workVars, Inv, DoneInv, AllExited
<1> QED
  BY <1>1, <1>2, <1>3

LEMMA InvNext == Inv /\ [Next]_vars => Inv'
<1> SUFFICES ASSUME Inv, [Next]_vars PROVE Inv'
  OBVIOUS
<1>1. Typed'
  BY TypedNext DEF Inv
<1>2. TypeOK
  BY DEF Inv, Typed
<1>3. FifoInv' /\ JobsDistinct' /\ RunInv' /\ LeaveInv' /\ BalanceInv' /\ DoneInv'
  BY <1>2, Effects, WorkerInv, SubmitInv, SendInv, WakeInv, QuietInv DEF ClientEffect
<1> QED
  BY <1>1, <1>3 DEF Inv

-----------------------------------------------------------------------------
\* Unless something was cancelled, a Shutdown that reports "drained gracefully" has had
\* every accepted job processed to its end, whoever submits meanwhile and however many
\* shutdowns overlap.  A service without workers reports a drain at once and drops what
\* was queued: hence the hypothesis.
THEOREM Drained ==
  ASSUME Workers # {}
  PROVE  Spec => []DrainedMeansProcessed
<1>1. Inv => DrainedMeansProcessed
  <2> SUFFICES ASSUME Inv, ~cancelled, "drained" \in reports
               PROVE  Range(accepted) = processed
    BY DEF DrainedMeansProcessed, Inv, Typed
  <2>1. AllExited
    BY DEF Inv, DoneInv, Returned
  <2>2. jobs = <<>>
    BY <2>1 DEF AllExited, Inv, LeaveInv
  <2>3. accepted = started
    BY <2>2, ConcatEmptySeq DEF Inv, FifoInv, Typed, TypeOK
  <2>4. \A w \in Workers : task[w] = None
    BY <2>1 DEF AllExited, Inv, RunInv
  <2>5. Finished = Range(started)
    BY <2>4, Fresh DEF Finished
  <2> QED
    BY <2>3, <2>5 DEF Inv, BalanceInv
<1> QED
  BY <1>1, InvInit, InvNext, PTL DEF Spec

-----------------------------------------------------------------------------
(* The service implements the abstract executor.                           *)

\* The library operators of the instance are those of this module.
LEMMA SameOperators ==
  ASSUME NEW S
  PROVE  Abstract!Cardinality(S) = Cardinality(S) /\ Abstract!Range(S) = Range(S)
<1>1. Abstract!Cardinality(S) = Cardinality(S)
  BY DEF Abstract!Cardinality, Cardinality
<1>2. Abstract!Range(S) = Range(S)
  BY DEF Abstract!Range, Range
<1> QED
  BY <1>1, <1>2

LEMMA RunningIs == Abstract!Running = Range(started) \ Finished
BY SameOperators DEF Abstract!Running, Finished

\* While a worker is not processing a job, one more job may run.
LEMMA RoomToRun ==
  ASSUME Inv, NEW w \in Workers, worker[w] # "work"
  PROVE  Abstract!Cardinality(Abstract!Running) < Cardinality(Workers)
<1> DEFINE R == Range(started) \ Finished
           others == Workers \ {w}
           runner == [j \in R |-> CHOOSE v \in Workers : task[v] = j]
<1>1. ASSUME NEW j \in R
      PROVE  runner[j] \in others /\ task[runner[j]] = j
  <2>1. \E v \in Workers : task[v] = j
    BY DEF Finished
  <2>2. runner[j] \in Workers /\ task[runner[j]] = j
    BY <2>1
  <2>3. j # None
    BY Fresh
  <2> QED
    BY <2>2, <2>3 DEF Inv, RunInv
<1>2. runner \in Injection(R, others)
  BY <1>1 DEF Injection, IsInjective
<1>3. IsFiniteSet(others) /\ Cardinality(others) = Cardinality(Workers) - 1
  BY ShutdownAssumption, FS_RemoveElement
<1> HIDE DEF R, others, runner
<1>4. IsFiniteSet(R) /\ Cardinality(R) <= Cardinality(others)
  BY <1>2, <1>3, FS_Injection
<1>5. Cardinality(Workers) \in Nat /\ Cardinality(R) \in Nat
  BY <1>4, ShutdownAssumption, FS_CardinalityType
<1>6. Abstract!Cardinality(Abstract!Running) = Cardinality(R)
  BY RunningIs, SameOperators, Zenon DEF R
<1> QED
  BY <1>3, <1>4, <1>5, <1>6

\* Steps that leave the jobs and the intake alone are stutters of the executor.
LEMMA Stutter ==
  ASSUME UNCHANGED <<accepted, started, jobsClosed>>, Finished' = Finished, Returned' = Returned
  PROVE  [Abstract!Next]_(Abstract!vars)
BY DEF Abstract!vars, Finished, Returned

LEMMA TakeIsStart ==
  ASSUME Inv, NEW w \in Workers, WorkerTake(w)
  PROVE  Abstract!Start
<1>1. worker[w] = "select" /\ jobs # <<>> /\ StartJob(w, Head(jobs))
  BY DEF WorkerTake
<1>2. /\ Head(jobs) \in Jobs /\ Head(jobs) \notin Range(started)
      /\ Len(started) < Len(accepted) /\ accepted[Len(started) + 1] = Head(jobs)
  BY <1>1, Fresh
<1>3. ~Returned /\ Returned' = Returned
  BY <1>1 DEF WorkerTake, clientVars, Returned, Inv, DoneInv, AllExited
<1>4. Finished' = Finished
  BY <1>1, <1>2, Began
<1>5. Abstract!Cardinality(Abstract!Running) < Cardinality(Workers)
  BY <1>1, RoomToRun
<1>6. /\ started' = Append(started, accepted[Len(started) + 1])
      /\ UNCHANGED <<accepted, jobsClosed>>
  BY <1>2 DEF WorkerTake, StartJob, flagVars
<1> QED
  BY <1>2, <1>3, <1>4, <1>5, <1>6 DEF Abstract!Start, Finished, Returned

\* A job ends when it has been processed, and also when its worker is cancelled.
LEMMA EndIsFinish ==
  ASSUME Inv, NEW w \in Workers, WorkFinish(w) \/ WorkInterrupt(w), NEW j \in Jobs, j = task[w]
  PROVE  Abstract!Finish(j)
<1>1. /\ worker[w] = "work" /\ task' = [task EXCEPT ![w] = None]
      /\ UNCHANGED <<accepted, started, jobsClosed, reports>>
      /\ \E step \in {"select", "leaving"} : worker' = [worker EXCEPT ![w] = step]
  BY DEF WorkFinish, WorkInterrupt, Resume, flagVars, clientVars
<1>2. Finished' = Finished \cup {j} /\ j \in Range(started) \ Finished
  BY <1>1, Ended
<1> QED
  BY <1>1, <1>2, RunningIs DEF Abstract!Finish, Finished, Returned

LEMMA SendIsAccept ==
  ASSUME Inv, NEW p \in Clients, SubmitSend(p), NEW j \in Jobs, j = call[p],
         (\E w \in Workers : HandOver(p, w)) \/ Buffer(p)
  PROVE  Abstract!HandOff(j) \/ Abstract!Accept(j)
<1>1. /\ pc[p] = "send" /\ ~jobsClosed /\ UNCHANGED jobsClosed
      /\ accepted' = Append(accepted, j) /\ Returned' = Returned
  BY DEF SubmitSend, Return, flagVars, HandOver, Buffer, Returned
<1>2. j \notin Range(accepted) /\ j \notin Range(started)
  BY Fresh DEF Inv, JobsDistinct
<1>3. ASSUME NEW w \in Workers, HandOver(p, w) PROVE Abstract!HandOff(j)
  <2>1. worker[w] = "parked" /\ jobs = <<>> /\ StartJob(w, j) /\ started' = Append(started, j)
    BY <1>3 DEF HandOver, StartJob, Parked, Inv, FifoInv
  <2>2. accepted = started
    BY <2>1, ConcatEmptySeq DEF Inv, FifoInv, Typed, TypeOK
  <2>3. Abstract!Cardinality(Abstract!Running) < Cardinality(Workers)
    BY <2>1, RoomToRun
  <2>4. Finished' = Finished
    BY <1>2, <2>1, Began
  <2>5. ~Returned
    BY <2>1 DEF Inv, DoneInv, AllExited
  <2> QED
    BY <1>1, <1>2, <2>1, <2>2, <2>3, <2>4, <2>5, SameOperators
       DEF Abstract!HandOff, Finished, Returned
<1>4. ASSUME Buffer(p) PROVE Abstract!Accept(j)
  BY <1>1, <1>2, <1>4, SameOperators DEF Buffer, Abstract!Accept, Finished, Returned
<1> QED
  BY <1>3, <1>4

\* Only the first close of the intake is a step of the executor.
LEMMA WakeIsClose ==
  ASSUME Inv, NEW p \in Clients, CloseJobs(p) \/ Cancel(p)
  PROVE  [Abstract!Next]_(Abstract!vars)
<1>1. /\ UNCHANGED <<accepted, started>> /\ Finished' = Finished /\ Returned' = Returned
      /\ jobsClosed' = jobsClosed \/ jobsClosed'
  BY DEF CloseJobs, Cancel, GoTo, Finished, Returned
<1>2. CASE jobsClosed' = jobsClosed
  BY <1>1, <1>2, Stutter
<1>3. CASE jobsClosed' # jobsClosed
  <2>1. ~jobsClosed /\ jobsClosed'
    BY <1>1, <1>3 DEF Inv, Typed, TypeOK
  <2>2. Abstract!Close
    BY <1>1, <2>1 DEF Abstract!Close, Finished, Returned
  <2> QED
    BY <2>2 DEF Abstract!Next
<1> QED
  BY <1>2, <1>3

LEMMA QuietIsStop ==
  ASSUME Inv, Quiet
  PROVE  [Abstract!Next]_(Abstract!vars)
<1>1. UNCHANGED <<accepted, started, jobsClosed>> /\ Finished' = Finished
  BY DEF Quiet, workVars, Finished
<1>2. CASE Returned' = Returned
  BY <1>1, <1>2, Stutter
<1>3. CASE AllExited /\ Returned'
  <2>1. \A w \in Workers : task[w] = None
    BY <1>3 DEF AllExited, Inv, RunInv
  <2>2. Range(started) \ Finished = {}
    BY <2>1, Fresh DEF Finished
  <2>3. Abstract!Stop
    BY <1>1, <1>3, <2>2, RunningIs DEF Abstract!Stop, Finished, Returned
  <2> QED
    BY <2>3 DEF Abstract!Next
<1> QED
  BY <1>2, <1>3 DEF Quiet

LEMMA RefStep ==
  ASSUME Inv, [Next]_vars
  PROVE  [Abstract!Next]_(Abstract!vars)
<1>1. ASSUME NEW w \in Workers, WorkerTake(w) PROVE Abstract!Next
  BY <1>1, TakeIsStart DEF Abstract!Next
<1>2. ASSUME NEW w \in Workers, WorkerPark(w) \/ WorkerLeave(w) \/ WorkerDone(w)
      PROVE  [Abstract!Next]_(Abstract!vars)
  BY <1>2, Stutter
     DEF WorkerPark, WorkerLeave, WorkerDone, flagVars, clientVars, Finished, Returned
<1>3. ASSUME NEW w \in Workers, WorkFinish(w) \/ WorkInterrupt(w) PROVE Abstract!Next
  <2>1. task[w] \in Jobs
    BY <1>3 DEF WorkFinish, WorkInterrupt, Inv, Typed, TaskInv
  <2>2. PICK j \in Jobs : j = task[w]
    BY <2>1
  <2>3. Abstract!Finish(j)
    BY <1>3, <2>2, EndIsFinish
  <2> QED
    BY <2>3 DEF Abstract!Next
<1>4. ASSUME NEW p \in Clients, NEW j \in Jobs, Submit(p, j)
      PROVE  [Abstract!Next]_(Abstract!vars)
  BY <1>4, Stutter DEF Submit, flagVars, workVars, Finished, Returned
<1>5. ASSUME NEW p \in Clients, SubmitSend(p), (\E w \in Workers : HandOver(p, w)) \/ Buffer(p)
      PROVE  Abstract!Next
  <2>1. call[p] \in Jobs
    BY <1>5 DEF SubmitSend, Inv, Typed, CallInv
  <2>2. PICK j \in Jobs : j = call[p]
    BY <2>1
  <2>3. Abstract!HandOff(j) \/ Abstract!Accept(j)
    BY <1>5, <2>2, SendIsAccept
  <2> QED
    BY <2>3 DEF Abstract!Next
<1>6. TypeOK
  BY DEF Inv, Typed
<1> QED
  BY <1>1, <1>2, <1>3, <1>4, <1>5, <1>6, Effects, WakeIsClose, QuietIsStop
     DEF WorkerStep, ClientEffect

\* The service keeps the promise of the abstract executor, whoever submits and shuts
\* down: jobs are accepted once and only while the intake is open, start in the order of
\* acceptance, never more of them at a time than there are workers, and none runs after
\* a Shutdown has reported the workers drained or joined.
THEOREM Implements == Spec => ImplementsExecutor
<1>1. Init => Abstract!Init
  <2> SUFFICES ASSUME Init PROVE Abstract!Init
    OBVIOUS
  <2>1. Finished = {}
    BY DEF Init, Finished, Range
  <2>2. ~Returned
    BY DEF Init, Returned
  <2> QED
    BY <2>1, <2>2 DEF Init, Abstract!Init, Finished, Returned
<1> QED
  BY <1>1, InvInit, InvNext, RefStep, PTL DEF Spec, ImplementsExecutor, Abstract!Spec
=============================================================================
