------------------------------ MODULE ErrGroup ------------------------------
(***************************************************************************)
(* orchestration/errgroupx: main hands tasks to a group that runs at most  *)
(* Limit of them at a time, and waits for the first error.  What the       *)
(* library does is modelled from its use: Go waits for a free place, the   *)
(* first error is kept and cancels the context of all, the place is given  *)
(* back after that.  Timers may fire in any order.                         *)
(***************************************************************************)
EXTENDS Naturals, FiniteSets

CONSTANTS Tasks,    \* how many; they are 1..Tasks, in the order of Go
          Failing,  \* those whose work fails
          Limit     \* g.SetLimit

VARIABLES example,  \* the name of what main runs
          next,     \* the task that main hands to Go next
          step,     \* next step of the goroutine of each task
          result,   \* what pretendWork returned
          err,      \* the error that the group keeps
          ctxErr    \* ctx.Err() of the group's context

vars == <<example, next, step, result, err, ctxErr>>

Group == example = "errgroup"

Init ==
  /\ next = 1
  /\ step = [t \in 1..Tasks |-> "unborn"]
  /\ result = [t \in 1..Tasks |-> "nil"]
  /\ err = "nil"
  /\ ctxErr = "nil"

Busy == {t \in 1..Tasks : step[t] \in {"work", "record", "done"}}

GoTo(t, s) == step' = [step EXCEPT ![t] = s]

Go ==
  /\ Group
  /\ next <= Tasks
  /\ Cardinality(Busy) < Limit
  /\ GoTo(next, "work")
  /\ next' = next + 1
  /\ UNCHANGED <<example, result, err, ctxErr>>

\* Both cases of the select may be ready, also at the first step of a task.
pretendWork(t) ==
  /\ step[t] = "work"
  /\ \/ result' = [result EXCEPT ![t] = IF t \in Failing THEN "failed" ELSE "nil"]
     \/ ctxErr # "nil" /\ result' = [result EXCEPT ![t] = ctxErr]
  /\ GoTo(t, "record")
  /\ UNCHANGED <<example, next, err, ctxErr>>

Record(t) ==   \* errOnce
  /\ step[t] = "record"
  /\ IF result[t] # "nil" /\ err = "nil"
       THEN err' = result[t] /\ ctxErr' = (IF ctxErr = "nil" THEN "canceled" ELSE ctxErr)
       ELSE UNCHANGED <<err, ctxErr>>
  /\ GoTo(t, "done")
  /\ UNCHANGED <<example, next, result>>

Done(t) ==   \* the place is free, and Wait has one less to wait for
  /\ step[t] = "done"
  /\ GoTo(t, "exited")
  /\ UNCHANGED <<example, next, result, err, ctxErr>>

Expire ==   \* the deadline of root
  /\ Group
  /\ ctxErr = "nil"
  /\ ctxErr' = "deadline exceeded"
  /\ UNCHANGED <<example, next, step, result, err>>

Returned == next > Tasks /\ \A t \in 1..Tasks : step[t] = "exited"   \* g.Wait() has

-----------------------------------------------------------------------------
Step(t) == pretendWork(t) \/ Record(t) \/ Done(t)

Next ==
  \/ Go \/ Expire
  \/ \E t \in 1..Tasks : Step(t)
  \/ Returned /\ UNCHANGED vars

\* Goroutines keep running and timers fire.
Fairness ==
  /\ WF_vars(Go)
  /\ \A t \in 1..Tasks : WF_vars(Step(t))

-----------------------------------------------------------------------------
(* Property.                                                               *)

\* Wait returns although Go blocks at the limit, nil exactly if every task went well, and
\* otherwise the cause: a failure or the deadline, never a cancellation that it led to,
\* in whatever order the tasks end and report.
FirstErrorReported ==
  Group ~>
    /\ Returned
    /\ err = "nil" <=> \A t \in 1..Tasks : result[t] = "nil"
    /\ err # "canceled"
    /\ \A t \in 1..Tasks : result[t] = "canceled" => err # "nil"
=============================================================================
