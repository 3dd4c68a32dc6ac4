------------------------------ MODULE Executor ------------------------------
(***************************************************************************)
(* What a worker pool of pools/ promises to the goroutines that use it,    *)
(* with nothing of how it is done: jobs are accepted while the pool is     *)
(* open, started at most once each and in the order of acceptance, never   *)
(* more than Parallelism at a time, and none runs once Wait has returned.  *)
(* A job that was accepted need not start: Close cancels the pool context  *)
(* and the workers may leave jobs in the queue.                            *)
(*                                                                         *)
(* WorkerPool implements this specification; so does DynPool as long as    *)
(* every submission goes through TrySubmit.                                *)
(***************************************************************************)
EXTENDS Naturals, Sequences, FiniteSets, Functions

CONSTANTS Jobs,        (* the jobs that callers may submit                 *)
          Parallelism  (* how many jobs may run at the same time           *)

VARIABLES accepted,    (* the jobs accepted so far, oldest first           *)
          started,     (* the jobs started so far, oldest first            *)
          finished,    (* the started jobs that have returned              *)
          open,        (* the queue still takes jobs                       *)
          stopped      (* some Wait has returned                           *)

vars == <<accepted, started, finished, open, stopped>>

Running == Range(started) \ finished

Init ==
  /\ accepted = <<>>
  /\ started = <<>>
  /\ finished = {}
  /\ open = TRUE
  /\ stopped = FALSE

Accept(j) ==
  /\ open
  /\ j \notin Range(accepted)
  /\ accepted' = Append(accepted, j)
  /\ UNCHANGED <<started, finished, open, stopped>>

\* The next job in the order of acceptance begins to run.
Start ==
  /\ ~stopped
  /\ Len(started) < Len(accepted)
  /\ Cardinality(Running) < Parallelism
  /\ started' = Append(started, accepted[Len(started) + 1])
  /\ UNCHANGED <<accepted, finished, open, stopped>>

\* A job handed by the submitter to an idle worker is accepted and starts at once.
HandOff(j) ==
  /\ open
  /\ ~stopped
  /\ j \notin Range(accepted)
  /\ Len(started) = Len(accepted)
  /\ Cardinality(Running) < Parallelism
  /\ accepted' = Append(accepted, j)
  /\ started' = Append(started, j)
  /\ UNCHANGED <<finished, open, stopped>>

Finish(j) ==
  /\ j \in Running
  /\ finished' = finished \cup {j}
  /\ UNCHANGED <<accepted, started, open, stopped>>

Close ==
  /\ open
  /\ open' = FALSE
  /\ UNCHANGED <<accepted, started, finished, stopped>>

\* After this nothing runs any more; the intake may still be open for a moment.
Stop ==
  /\ Running = {}
  /\ stopped' = TRUE
  /\ UNCHANGED <<accepted, started, finished, open>>

Next ==
  \/ \E j \in Jobs : Accept(j) \/ HandOff(j) \/ Finish(j)
  \/ Start
  \/ Close
  \/ Stop

Spec == Init /\ [][Next]_vars
=============================================================================
