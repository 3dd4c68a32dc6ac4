------------------------------ MODULE Shutdown ------------------------------
(***************************************************************************)
(* The phased shutdown of orchestration/shutdown/shutdown.go: workers that *)
(* read a job channel, Submit, and Shutdown, which stops the intake, waits *)
(* softTimeout for the backlog, cancels, and waits hardTimeout.            *)
(*                                                                         *)
(* Nothing serializes Submit with Shutdown, nor Shutdown with itself: the  *)
(* read of s.closed and what follows it are separate steps.  A send on a   *)
(* closed channel, or a second close of one, panics and ends the program.  *)
(* The example of the repository does everything from one goroutine; who   *)
(* submits and who shuts down are parameters.                              *)
(***************************************************************************)
EXTENDS Naturals, Sequences, FiniteSets, Functions

CONSTANTS Workers,     (* the worker goroutines started by NewService      *)
          Submitters,  (* goroutines that call Submit                      *)
          Stoppers,    (* goroutines that call Shutdown                    *)
          Jobs,        (* the jobs; one that was refused may be resubmitted*)
          QueueSize,   (* capacity of s.jobs                               *)
          None         (* no job                                           *)

Clients == Submitters \cup Stoppers

ASSUME ShutdownAssumption ==
  /\ IsFiniteSet(Workers)
  /\ QueueSize \in Nat
  /\ None \notin Jobs

VARIABLES jobs,        (* jobs buffered in the channel s.jobs              *)
          jobsClosed,  (* close(s.jobs) has run                            *)
          closed,      (* close(s.closed) has run                          *)
          cancelled,   (* s.ctx is cancelled                               *)
          crashed,     (* a channel operation has panicked                 *)
          pc,          (* next step of each client                         *)
          call,        (* the job a client is submitting                   *)
          reports,     (* history: what Shutdown calls have reported       *)
          worker,      (* next step of each worker                         *)
          task,        (* the job a worker is processing                   *)
          accepted,    (* history: jobs whose send succeeded, in order     *)
          started,     (* history: jobs received by a worker, in order     *)
          processed    (* history: jobs whose processing was not cut short *)

flagVars == <<jobsClosed, closed, cancelled, crashed>>
clientVars == <<pc, call, reports>>
workVars == <<jobs, worker, task, accepted, started, processed>>
vars == <<flagVars, clientVars, workVars>>

Init ==
  /\ jobs = <<>>
  /\ jobsClosed = FALSE
  /\ closed = FALSE
  /\ cancelled = FALSE
  /\ crashed = FALSE
  /\ pc = [p \in Clients |-> "idle"]
  /\ call = [p \in Clients |-> None]
  /\ reports = {}
  /\ worker = [w \in Workers |-> "select"]
  /\ task = [w \in Workers |-> None]
  /\ accepted = <<>>
  /\ started = <<>>
  /\ processed = {}

AllExited == \A w \in Workers : worker[w] = "exited"

-----------------------------------------------------------------------------
(* Workers.                                                                *)

Parked == {w \in Workers : worker[w] = "parked"}

Resume(w, step) == worker' = [worker EXCEPT ![w] = step]

StartJob(w, j) ==
  /\ Resume(w, "work")
  /\ task' = [task EXCEPT ![w] = j]
  /\ started' = Append(started, j)
  /\ UNCHANGED processed

WakeParked == worker' = [w \in Workers |-> IF w \in Parked THEN "leaving" ELSE worker[w]]

WorkerTake(w) ==
  /\ worker[w] = "select"
  /\ jobs # <<>>
  /\ StartJob(w, Head(jobs))
  /\ jobs' = Tail(jobs)
  /\ UNCHANGED <<flagVars, clientVars, accepted>>

WorkerPark(w) ==
  /\ worker[w] = "select"
  /\ jobs = <<>>
  /\ ~jobsClosed
  /\ ~cancelled
  /\ Resume(w, "parked")
  /\ UNCHANGED <<flagVars, clientVars, jobs, task, accepted, started, processed>>

LeaveOnClosed(w) ==   \* mutant: the worker selects on s.closed instead of the end of s.jobs
  /\ worker[w] = "select"
  /\ cancelled \/ closed
  /\ Resume(w, "leaving")
  /\ UNCHANGED <<flagVars, clientVars, jobs, task, accepted, started, processed>>

\* ctx.Done and the queue may both be ready: the select may choose either.
WorkerLeave(w) ==
  /\ worker[w] = "select"
  /\ cancelled \/ (jobsClosed /\ jobs = <<>>)
  /\ Resume(w, "leaving")
  /\ UNCHANGED <<flagVars, clientVars, jobs, task, accepted, started, processed>>

WorkFinish(w) ==   \* case <-step.C
  /\ worker[w] = "work"
  /\ Resume(w, "select")
  /\ processed' = processed \cup {task[w]}
  /\ task' = [task EXCEPT ![w] = None]
  /\ UNCHANGED <<flagVars, clientVars, jobs, accepted, started>>

WorkInterrupt(w) ==   \* case <-s.ctx.Done() while a job is processed
  /\ worker[w] = "work"
  /\ cancelled
  /\ Resume(w, "leaving")
  /\ task' = [task EXCEPT ![w] = None]
  /\ UNCHANGED <<flagVars, clientVars, jobs, accepted, started, processed>>

WorkerDone(w) ==   \* the deferred wg.Done()
  /\ worker[w] = "leaving"
  /\ Resume(w, "exited")
  /\ UNCHANGED <<flagVars, clientVars, jobs, task, accepted, started, processed>>

-----------------------------------------------------------------------------
(* Submit.                                                                 *)

GoTo(p, step) ==
  /\ pc' = [pc EXCEPT ![p] = step]
  /\ UNCHANGED <<call, reports>>

Return(p) ==
  /\ pc' = [pc EXCEPT ![p] = "idle"]
  /\ call' = [call EXCEPT ![p] = None]
  /\ UNCHANGED reports

Panic(p) == crashed' = TRUE /\ GoTo(p, "panic")

Submit(p, j) ==
  /\ pc[p] = "idle"
  /\ j \notin Range(accepted)
  /\ \A q \in Clients : call[q] # j
  /\ pc' = [pc EXCEPT ![p] = "check"]
  /\ call' = [call EXCEPT ![p] = j]
  /\ UNCHANGED <<flagVars, workVars, reports>>

SubmitCheck(p) ==
  /\ pc[p] = "check"
  /\ IF closed THEN Return(p) ELSE GoTo(p, "send")
  /\ UNCHANGED <<flagVars, workVars>>

SubmitSend(p) ==
  /\ pc[p] = "send"
  /\ ~jobsClosed
  /\ Return(p)
  /\ UNCHANGED flagVars
  /\ \/ /\ accepted' = Append(accepted, call[p])
        /\ \E w \in Parked : StartJob(w, call[p])
        /\ UNCHANGED jobs
     \/ /\ Parked = {}
        /\ Len(jobs) < QueueSize
        /\ accepted' = Append(accepted, call[p])
        /\ jobs' = Append(jobs, call[p])
        /\ UNCHANGED <<worker, task, started, processed>>
     \/ /\ Parked = {}
        /\ Len(jobs) = QueueSize
        /\ UNCHANGED workVars

SubmitPanic(p) ==   \* send on closed channel
  /\ pc[p] = "send"
  /\ jobsClosed
  /\ Panic(p)
  /\ UNCHANGED <<jobsClosed, closed, cancelled, workVars>>

-----------------------------------------------------------------------------
(* Shutdown.                                                               *)

ShutdownCall(p) ==
  /\ pc[p] = "idle"
  /\ GoTo(p, "phase1")
  /\ UNCHANGED <<flagVars, workVars>>

IntakeCheck(p) ==
  /\ pc[p] = "phase1"
  /\ GoTo(p, IF closed THEN "soft" ELSE "closing")
  /\ UNCHANGED <<flagVars, workVars>>

CloseClosed(p) ==
  /\ pc[p] = "closing"
  /\ \/ ~closed /\ closed' = TRUE /\ GoTo(p, "closeJobs") /\ UNCHANGED crashed
     \/ closed /\ Panic(p) /\ UNCHANGED closed
  /\ UNCHANGED <<jobsClosed, cancelled, workVars>>

CloseJobsForgotten(p) ==   \* mutant: only s.closed is closed
  /\ pc[p] = "closeJobs"
  /\ GoTo(p, "soft")
  /\ UNCHANGED <<flagVars, workVars>>

\* Nobody but the goroutine that closed s.closed comes here.
CloseJobs(p) ==
  /\ pc[p] = "closeJobs"
  /\ jobsClosed' = TRUE
  /\ WakeParked
  /\ GoTo(p, "soft")
  /\ UNCHANGED <<closed, cancelled, crashed, jobs, task, accepted, started, processed>>

Report(p, what) ==
  /\ pc' = [pc EXCEPT ![p] = "idle"]
  /\ reports' = reports \cup {what}
  /\ UNCHANGED <<flagVars, workVars, call>>

SoftDoneEarly(p) ==   \* mutant: done is closed by the first worker that exits
  /\ pc[p] = "soft"
  /\ \E w \in Workers : worker[w] = "exited"
  /\ Report(p, "drained")

SoftDone(p) == pc[p] = "soft" /\ AllExited /\ Report(p, "drained")

SoftTimeout(p) ==
  /\ pc[p] = "soft"
  /\ GoTo(p, "cancel")
  /\ UNCHANGED <<flagVars, workVars>>

Cancel(p) ==
  /\ pc[p] = "cancel"
  /\ cancelled' = TRUE
  /\ WakeParked
  /\ GoTo(p, "hard")
  /\ UNCHANGED <<jobsClosed, closed, crashed, jobs, task, accepted, started, processed>>

HardDone(p) == pc[p] = "hard" /\ AllExited /\ Report(p, "joined")

NoHardTimeout(p) == pc[p] = "hard" /\ AllExited /\ Report(p, "gaveUp")   \* mutant

HardTimeout(p) == pc[p] = "hard" /\ Report(p, "gaveUp")

-----------------------------------------------------------------------------
WorkerStep(w) ==
  \/ WorkerTake(w) \/ WorkerPark(w) \/ WorkerLeave(w)
  \/ WorkFinish(w) \/ WorkInterrupt(w) \/ WorkerDone(w)
SubmitStep(p) == SubmitCheck(p) \/ SubmitSend(p) \/ SubmitPanic(p)
ShutdownStep(p) ==
  \/ IntakeCheck(p) \/ CloseClosed(p) \/ CloseJobs(p)
  \/ SoftDone(p) \/ Cancel(p) \/ HardDone(p)
Timeout(p) == SoftTimeout(p) \/ HardTimeout(p)

\* A panic ends the program.
Crashed == crashed /\ UNCHANGED vars

Next ==
  \/ /\ ~crashed
     /\ \/ \E w \in Workers : WorkerStep(w)
        \/ \E p \in Submitters : SubmitStep(p) \/ \E j \in Jobs : Submit(p, j)
        \/ \E p \in Stoppers : ShutdownCall(p) \/ ShutdownStep(p) \/ Timeout(p)
  \/ Crashed

Spec == Init /\ [][Next]_vars

\* The goroutines keep running and the processing of a job ends.
GoroutinesRun ==
  /\ \A w \in Workers : WF_vars(WorkerStep(w))
  /\ \A p \in Submitters : WF_vars(SubmitStep(p))
  /\ \A p \in Stoppers : WF_vars(ShutdownStep(p))

\* The goroutines that shut down keep running and their timers fire.
TimersFire == \A p \in Stoppers : WF_vars(ShutdownStep(p) \/ Timeout(p))

-----------------------------------------------------------------------------
(* Properties.                                                             *)

\* The variables keep their types, and the channel never holds more than its capacity.
TypeOK ==
  /\ jobs \in Seq(Jobs) /\ Len(jobs) <= QueueSize
  /\ jobsClosed \in BOOLEAN
  /\ closed \in BOOLEAN
  /\ cancelled \in BOOLEAN
  /\ crashed \in BOOLEAN
  /\ pc \in [Clients -> {"idle", "check", "send", "phase1", "closing", "closeJobs",
                         "soft", "cancel", "hard", "panic"}]
  /\ call \in [Clients -> Jobs \cup {None}]
  /\ reports \subseteq {"drained", "joined", "gaveUp"}
  /\ worker \in [Workers -> {"select", "parked", "work", "leaving", "exited"}]
  /\ task \in [Workers -> Jobs \cup {None}]
  /\ accepted \in Seq(Jobs)
  /\ started \in Seq(Jobs)
  /\ processed \subseteq Jobs

\* Submit and Shutdown never send on, or close, a closed channel.
NoPanic == ~crashed

\* Unless something was cancelled, a Shutdown that reports "drained gracefully" has
\* had every accepted job processed to its end.
DrainedMeansProcessed ==
  /\ TypeOK
  /\ ~cancelled /\ "drained" \in reports => Range(accepted) = processed

\* The service keeps the promise of the abstract executor: jobs start once each, in
\* the order of acceptance, none is accepted after the intake is closed, and once a
\* Shutdown has reported the workers drained or joined nothing runs any more.
Abstract == INSTANCE Executor WITH
  Parallelism <- Cardinality(Workers),
  finished <- {j \in Range(started) : \A w \in Workers : task[w] # j},
  open <- ~jobsClosed,
  stopped <- reports \cap {"drained", "joined"} # {}
ImplementsExecutor == Abstract!Spec

\* Once the intake is closed the backlog is worked off without help of the timers:
\* if only the goroutines run, the workers finish the queue and exit.
DrainsByItself ==
  GoroutinesRun => \A p \in Stoppers : pc[p] = "soft" ~> AllExited \/ crashed

\* Shutdown returns if the timers fire, even if every worker is stuck in its job.
ShutdownReturns ==
  TimersFire => \A p \in Stoppers : pc[p] = "phase1" ~> pc[p] = "idle" \/ crashed
=============================================================================
