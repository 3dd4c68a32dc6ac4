--------------------------- MODULE DynPoolProofs ----------------------------
(***************************************************************************)
(* Proofs about DynPool, for any bounds on the number of workers and any   *)
(* number of callers, closers and jobs: the types together with the exact  *)
(* account of the counter p.workers, and from it the hard cap; the absence *)
(* of channel panics; the conservation of jobs in FIFO order; and, for the *)
(* callers of TrySubmit alone, that the minimum of workers stays alive,    *)
(* that nothing is left after Wait and that the pool implements Executor.  *)
(***************************************************************************)
EXTENDS DynPool, Histories, FiniteSetTheorems

USE DEF Callers

WorkerSteps == {"none", "select", "parked", "run", "reap", "swap", "stopping", "leaving"}

LEMMA SendType ==
  ASSUME TypeOK, NEW j \in Jobs, Send(j)
  PROVE  /\ queue' \in Seq(Jobs) /\ Len(queue') <= QueueSize
         /\ worker' \in [Slots -> WorkerSteps]
         /\ task' \in [Slots -> Jobs \cup {None}]
         /\ accepted' \in Seq(Jobs)
         /\ started' \in Seq(Jobs)
<1>1. accepted' \in Seq(Jobs)
  BY DEF Send, TypeOK
<1>2. CASE \E w \in Parked : StartJob(w, j) /\ UNCHANGED queue
  BY <1>1, <1>2 DEF StartJob, Resume, Parked, TypeOK, WorkerSteps
<1>3. CASE /\ Len(queue) < QueueSize
           /\ queue' = Append(queue, j)
           /\ UNCHANGED <<worker, task, started>>
  <2>1. queue' \in Seq(Jobs) /\ Len(queue') = Len(queue) + 1 /\ Len(queue) \in Nat
    BY <1>3 DEF TypeOK
  <2>2. Len(queue') <= QueueSize
    BY <1>3, <2>1, DynPoolAssumption
  <2> QED
    BY <1>1, <1>3, <2>1, <2>2 DEF TypeOK, WorkerSteps
<1> QED
  BY <1>2, <1>3 DEF Send

LEMMA TypeInit == Init => TypeOK
<1> SUFFICES ASSUME Init PROVE TypeOK
  OBVIOUS
<1>1. queue \in Seq(Jobs) /\ Len(queue) <= QueueSize
  BY DynPoolAssumption DEF Init
<1>2. accepted \in Seq(Jobs) /\ started \in Seq(Jobs)
  BY DEF Init
<1>3. worker \in [Slots -> WorkerSteps]
  BY DEF Init, WorkerSteps
<1>4. /\ workers \in Nat
      /\ loaded \in [Slots -> Nat]
      /\ task \in [Slots -> Jobs \cup {None}]
  BY DynPoolAssumption DEF Init
<1>5. \A s \in Callers : pc[s] = "idle"
  BY DEF Init
<1> QED
  BY <1>1, <1>2, <1>3, <1>4, <1>5 DEF Init, TypeOK, WorkerSteps

\* What the steps of the workers do to the types; the counter is accounted for below.
LEMMA WorkerTypes ==
  ASSUME TypeOK, workers' \in Nat, NEW w \in Slots,
         LoopStep(w) \/ WorkerTake(w) \/ WorkerStop(w) \/ JobReturn(w) \/ IdleFire(w)
  PROVE  TypeOK'
<1> USE DEF Resume
<1>1. CASE WorkerTake(w)
  <2>1. Head(queue) \in Jobs /\ Tail(queue) \in Seq(Jobs) /\ Len(Tail(queue)) <= QueueSize
    BY <1>1, DynPoolAssumption DEF WorkerTake, TypeOK
  <2> QED
    BY <1>1, <2>1 DEF WorkerTake, StartJob, intakeVars, callVars, sizeVars, TypeOK
<1>2. CASE WorkerPark(w)
  BY <1>2 DEF WorkerPark, intakeVars, callVars, sizeVars, TypeOK
<1>3. CASE WorkerStop(w)
  BY <1>3 DEF WorkerStop, intakeVars, callVars, sizeVars, TypeOK
<1>4. CASE JobReturn(w)
  BY <1>4 DEF JobReturn, intakeVars, callVars, sizeVars, TypeOK
<1>5. CASE IdleFire(w)
  BY <1>5 DEF IdleFire, intakeVars, callVars, sizeVars, TypeOK
<1>6. CASE DecWorker(w)
  BY <1>6 DEF DecWorker, intakeVars, callVars, TypeOK
<1>7. CASE ReapLoad(w)
  <2>1. loaded' \in [Slots -> Nat] /\ worker' \in [Slots -> WorkerSteps]
    BY <1>7 DEF ReapLoad, TypeOK, WorkerSteps
  <2> QED
    BY <1>7, <2>1 DEF ReapLoad, intakeVars, callVars, TypeOK, WorkerSteps
<1>8. CASE ReapSwap(w)
  <2>1. loaded' \in [Slots -> Nat] /\ worker' \in [Slots -> WorkerSteps]
    BY <1>8 DEF ReapSwap, TypeOK, WorkerSteps
  <2> QED
    BY <1>8, <2>1 DEF ReapSwap, intakeVars, callVars, TypeOK, WorkerSteps
<1>9. CASE WorkerDone(w)
  BY <1>9 DEF WorkerDone, intakeVars, callVars, sizeVars, TypeOK
<1> QED
  BY <1>1, <1>2, <1>3, <1>4, <1>5, <1>6, <1>7, <1>8, <1>9 DEF LoopStep

Steps == {"idle", "check", "lock", "send", "backoff", "load", "len", "add", "spawn", "undo",
          "once", "closing", "cancel", "closeQueue", "wait", "waited"}

\* A caller that goes on keeps its job, and one that returns gives it back.
LEMMA CallerMoves ==
  ASSUME TypeOK, NEW s \in Callers, pc[s] # "idle",
         Return(s) \/ \E step \in Steps : GoTo(s, step)
  PROVE  /\ pc' \in [Callers \cup Closers -> Steps]
         /\ call' \in [Callers -> Jobs \cup {None}]
         /\ ctxDone' \in [Callers -> BOOLEAN]
         /\ \A t \in Callers : pc'[t] # "idle" => call'[t] \in Jobs
<1>1. CASE Return(s)
  BY <1>1 DEF Return, TypeOK, Steps
<1>2. CASE \E step \in Steps : GoTo(s, step)
  BY <1>2 DEF GoTo, TypeOK, Steps
<1> QED
  BY <1>1, <1>2

LEMMA SubmitTypes ==
  ASSUME TypeOK, UNCHANGED workers, NEW s \in Callers,
         \/ \E j \in Jobs : Call(s, j)
         \/ Lock(s) \/ TryStep(s) \/ CtxStep(s) \/ CtxExpire(s)
  PROVE  TypeOK'
<1>1. CASE \E j \in Jobs : Call(s, j)
  BY <1>1 DEF Call, intakeVars, workVars, sizeVars, TypeOK
<1>2. CASE CtxExpire(s)
  BY <1>2 DEF CtxExpire, intakeVars, workVars, sizeVars, TypeOK
<1>3. CASE Lock(s) \/ TryCheck(s) \/ CtxCheck(s) \/ CtxBackoff(s)
  <2>1. pc[s] # "idle" /\ (Return(s) \/ \E step \in Steps : GoTo(s, step))
    BY <1>3 DEF Lock, TryCheck, CtxCheck, CtxBackoff, Steps
  <2>2. mu' \in Callers \cup {None}
    BY <1>3 DEF Lock, TryCheck, CtxCheck, CtxBackoff, TypeOK
  <2>3. UNCHANGED <<intakeVars, workVars, sizeVars>>
    BY <1>3 DEF Lock, TryCheck, CtxCheck, CtxBackoff
  <2> QED
    BY <2>1, <2>2, <2>3, CallerMoves DEF intakeVars, workVars, sizeVars, TypeOK, Steps
<1>4. CASE TrySend(s) \/ CtxSend(s)
  <2>1. pc[s] # "idle" /\ (Return(s) \/ \E step \in Steps : GoTo(s, step))
    BY <1>4 DEF TrySend, CtxSend, Steps
  <2>2. mu' \in Callers \cup {None} /\ UNCHANGED <<intakeVars, sizeVars>>
    BY <1>4 DEF TrySend, CtxSend, TypeOK
  <2>3. call[s] \in Jobs
    BY <2>1 DEF TypeOK
  <2>4. CASE Send(call[s])
    BY <2>1, <2>2, <2>3, <2>4, CallerMoves, SendType
       DEF intakeVars, sizeVars, TypeOK, Steps, WorkerSteps
  <2>5. CASE UNCHANGED workVars
    BY <2>1, <2>2, <2>5, CallerMoves DEF intakeVars, sizeVars, workVars, TypeOK, Steps
  <2> QED
    BY <1>4, <2>4, <2>5 DEF TrySend, CtxSend
<1> QED
  BY <1>1, <1>2, <1>3, <1>4 DEF TryStep, CtxStep

LEMMA ScaleTypes ==
  ASSUME TypeOK, workers' \in Nat, NEW s \in Callers, ScaleStep(s)
  PROVE  TypeOK'
<1>1. pc[s] # "idle" /\ (Return(s) \/ \E step \in Steps : GoTo(s, step))
  BY DEF ScaleStep, ScaleLoad, ScaleLen, ScaleAdd, ScaleSpawn, ScaleUndo, Finish, Steps
<1>2. mu' \in Callers \cup {None}
  BY DEF ScaleStep, ScaleLoad, ScaleLen, ScaleAdd, ScaleSpawn, ScaleUndo, Finish, TypeOK
<1>3. UNCHANGED <<intakeVars, queue, task, accepted, started, loaded>>
  BY DEF ScaleStep, ScaleLoad, ScaleLen, ScaleAdd, ScaleSpawn, ScaleUndo, workVars, sizeVars
<1>4. worker' \in [Slots -> WorkerSteps]
  <2>1. CASE ScaleSpawn(s)
    BY <2>1 DEF ScaleSpawn, Resume, TypeOK, WorkerSteps
  <2>2. CASE UNCHANGED worker
    BY <2>2 DEF TypeOK, WorkerSteps
  <2> QED
    BY <2>1, <2>2 DEF ScaleStep, ScaleLoad, ScaleLen, ScaleAdd, ScaleUndo, workVars
<1> QED
  BY <1>1, <1>2, <1>3, <1>4, CallerMoves DEF intakeVars, TypeOK, Steps, WorkerSteps

LEMMA CloseTypes ==
  ASSUME TypeOK, UNCHANGED workers, NEW c \in Closers,
         CloseCall(c) \/ CloseStep(c) \/ CloseQueue(c)
  PROVE  TypeOK'
<1>1. PICK step \in Steps : GoTo(c, step)
  BY DEF CloseCall, CloseStep, Once, CloseCh, Cancel, WaitReturn, CloseQueue, Steps
<1>2. /\ pc' \in [Callers \cup Closers -> Steps]
      /\ \A s \in Callers : pc'[s] = pc[s]
      /\ UNCHANGED <<call, ctxDone>>
  BY <1>1, DynPoolAssumption DEF GoTo, TypeOK, Steps
<1>3. worker' \in [Slots -> WorkerSteps]
  <2>1. WakeParked \/ UNCHANGED worker
    BY DEF CloseCall, CloseStep, Once, CloseCh, Cancel, WaitReturn, CloseQueue, workVars
  <2> QED
    BY <2>1 DEF WakeParked, Parked, TypeOK, WorkerSteps
<1>4. UNCHANGED <<queue, task, accepted, started, loaded, mu>>
  BY DEF CloseCall, CloseStep, Once, CloseCh, Cancel, WaitReturn, CloseQueue, workVars, sizeVars
<1>5. /\ queueClosed' \in BOOLEAN /\ closedCh' \in BOOLEAN /\ cancelled' \in BOOLEAN
      /\ once' \in {"new", "busy", "done"}
  BY DEF CloseCall, CloseStep, Once, CloseCh, Cancel, WaitReturn, CloseQueue, intakeVars, TypeOK
<1> QED
  BY <1>2, <1>3, <1>4, <1>5 DEF TypeOK, Steps, WorkerSteps

-----------------------------------------------------------------------------
(* What a step does to the counter and to the goroutines it stands for.    *)

SameCount ==
  /\ UNCHANGED workers
  /\ Counted' = Counted
  /\ Pending("spawn")' = Pending("spawn")
  /\ Pending("undo")' = Pending("undo")

\* A worker subtracts itself, on closing or when it has been idle for too long.
WorkerGone(w) ==
  /\ w \in Counted
  /\ Counted' = Counted \ {w}
  /\ workers' = workers - 1
  /\ Pending("spawn")' = Pending("spawn")
  /\ Pending("undo")' = Pending("undo")

\* maybeScaleUp increments the counter, under the cap or beyond it.
Reserved(s) ==
  /\ workers + 1 <= MaxWorkers
  /\ s \notin Pending("spawn")
  /\ Pending("spawn")' = Pending("spawn") \cup {s}
  /\ workers' = workers + 1
  /\ Counted' = Counted
  /\ Pending("undo")' = Pending("undo")

Overshot(s) ==
  /\ s \notin Pending("undo")
  /\ Pending("undo")' = Pending("undo") \cup {s}
  /\ workers' = workers + 1
  /\ Counted' = Counted
  /\ Pending("spawn")' = Pending("spawn")

\* It starts the goroutine, or takes the increment back.
Spawned(s, w) ==
  /\ s \in Pending("spawn")
  /\ w \notin Counted
  /\ Pending("spawn")' = Pending("spawn") \ {s}
  /\ Counted' = Counted \cup {w}
  /\ workers' = workers
  /\ Pending("undo")' = Pending("undo")

TakenBack(s) ==
  /\ s \in Pending("undo")
  /\ Pending("undo")' = Pending("undo") \ {s}
  /\ workers' = workers - 1
  /\ Counted' = Counted
  /\ Pending("spawn")' = Pending("spawn")

CountEffect ==
  \/ SameCount
  \/ \E w \in Slots : WorkerGone(w)
  \/ \E s \in Callers : Reserved(s) \/ Overshot(s) \/ TakenBack(s)
  \/ \E s \in Callers, w \in Slots : Spawned(s, w)

\* The effect of the steps of the workers.
LEMMA WorkerEffect ==
  ASSUME TypeOK, NEW w \in Slots,
         LoopStep(w) \/ WorkerTake(w) \/ WorkerStop(w) \/ JobReturn(w) \/ IdleFire(w)
  PROVE  SameCount \/ WorkerGone(w)
<1>1. UNCHANGED pc
  BY DEF LoopStep, WorkerPark, DecWorker, ReapLoad, ReapSwap, WorkerDone, WorkerTake,
         WorkerStop, JobReturn, IdleFire, callVars
<1>2. Pending("spawn")' = Pending("spawn") /\ Pending("undo")' = Pending("undo")
  BY <1>1 DEF Pending
<1>3. CASE WorkerTake(w) \/ WorkerStop(w) \/ JobReturn(w) \/ IdleFire(w)
  <2>1. UNCHANGED workers
    BY <1>3 DEF WorkerTake, WorkerStop, JobReturn, IdleFire, sizeVars
  <2>2. Counted' = Counted
    BY <1>3 DEF WorkerTake, StartJob, WorkerStop, JobReturn, IdleFire, Resume, Counted, TypeOK
  <2> QED
    BY <1>2, <2>1, <2>2 DEF SameCount
<1>4. CASE WorkerPark(w) \/ ReapLoad(w) \/ WorkerDone(w)
  <2>1. UNCHANGED workers
    BY <1>4 DEF WorkerPark, ReapLoad, WorkerDone, sizeVars
  <2>2. Counted' = Counted
    BY <1>4 DEF WorkerPark, ReapLoad, WorkerDone, Resume, Counted, TypeOK
  <2> QED
    BY <1>2, <2>1, <2>2 DEF SameCount
<1>5. ASSUME worker[w] \in {"stopping", "swap"}, Resume(w, "leaving"), workers' = workers - 1
      PROVE  WorkerGone(w)
  <2>1. w \in Counted /\ Counted' = Counted \ {w}
    BY <1>5 DEF Resume, Counted, TypeOK
  <2> QED
    BY <1>2, <1>5, <2>1 DEF WorkerGone
<1>6. CASE DecWorker(w)
  BY <1>5, <1>6 DEF DecWorker
<1>7. CASE ReapSwap(w)
  <2>1. CASE workers = loaded[w]
    BY <1>5, <1>7, <2>1 DEF ReapSwap
  <2>2. CASE workers # loaded[w]
    <3>1. Counted' = Counted /\ UNCHANGED workers
      BY <1>7, <2>2 DEF ReapSwap, Resume, Counted, TypeOK
    <3> QED
      BY <1>2, <3>1 DEF SameCount
  <2> QED
    BY <2>1, <2>2
<1> QED
  BY <1>3, <1>4, <1>6, <1>7 DEF LoopStep

\* A step of a caller or a closer that neither comes to nor leaves "spawn" and "undo".
LEMMA PcEffect ==
  ASSUME TypeOK, UNCHANGED workers, Counted' = Counted,
         NEW p \in Callers \cup Closers, NEW step \in Steps \ {"spawn", "undo"},
         pc[p] \notin {"spawn", "undo"}, pc' = [pc EXCEPT ![p] = step]
  PROVE  SameCount
<1>1. \A s \in Callers : /\ pc'[s] = "spawn" <=> pc[s] = "spawn"
                        /\ pc'[s] = "undo" <=> pc[s] = "undo"
  BY DEF TypeOK, Steps
<1> QED
  BY <1>1 DEF SameCount, Pending

LEMMA SendEffect == ASSUME TypeOK, NEW j, Send(j) PROVE Counted' = Counted
<1>1. CASE \E w \in Parked : StartJob(w, j)
  BY <1>1 DEF StartJob, Resume, Parked, Counted, TypeOK
<1>2. CASE UNCHANGED worker
  BY <1>2 DEF Counted
<1> QED
  BY <1>1, <1>2 DEF Send

LEMMA SubmitEffect ==
  ASSUME TypeOK, NEW s \in Callers,
         \/ \E j \in Jobs : Call(s, j)
         \/ Lock(s) \/ TryStep(s) \/ CtxStep(s) \/ CtxExpire(s)
  PROVE  SameCount
<1>1. UNCHANGED workers
  BY DEF Call, Lock, TryStep, TryCheck, TrySend, CtxStep, CtxCheck, CtxSend, CtxBackoff,
         CtxExpire, sizeVars
<1>2. Counted' = Counted
  <2>1. UNCHANGED worker \/ Send(call[s])
    BY DEF Call, Lock, TryStep, TryCheck, TrySend, CtxStep, CtxCheck, CtxSend, CtxBackoff,
           CtxExpire, workVars
  <2> QED
    BY <2>1, SendEffect DEF Counted
<1>3. CASE CtxExpire(s)
  BY <1>1, <1>2, <1>3 DEF CtxExpire, SameCount, Pending
<1>4. CASE \E j \in Jobs : Call(s, j)
  BY <1>1, <1>2, <1>4, PcEffect DEF Call, Steps
<1>5. CASE Lock(s) \/ TryCheck(s) \/ CtxCheck(s) \/ CtxBackoff(s)
  BY <1>1, <1>2, <1>5, PcEffect DEF Lock, TryCheck, CtxCheck, CtxBackoff, Return, GoTo, Steps
<1>6. CASE TrySend(s) \/ CtxSend(s)
  BY <1>1, <1>2, <1>6, PcEffect DEF TrySend, CtxSend, Return, GoTo, Steps
<1> QED
  BY <1>3, <1>4, <1>5, <1>6 DEF TryStep, CtxStep

LEMMA CloseEffect ==
  ASSUME TypeOK, NEW c \in Closers, CloseCall(c) \/ CloseStep(c) \/ CloseQueue(c)
  PROVE  SameCount
<1>1. UNCHANGED workers
  BY DEF CloseCall, CloseStep, Once, CloseCh, Cancel, WaitReturn, CloseQueue, sizeVars
<1>2. Counted' = Counted
  <2>1. WakeParked \/ UNCHANGED worker
    BY DEF CloseCall, CloseStep, Once, CloseCh, Cancel, WaitReturn, CloseQueue, workVars
  <2> QED
    BY <2>1 DEF WakeParked, Parked, Counted
<1>3. PICK step \in Steps \ {"spawn", "undo"} : pc' = [pc EXCEPT ![c] = step]
  BY DEF CloseCall, CloseStep, Once, CloseCh, Cancel, WaitReturn, CloseQueue, GoTo, Steps
<1>4. pc[c] \notin {"spawn", "undo"}
  BY DEF CloseCall, CloseStep, Once, CloseCh, Cancel, WaitReturn, CloseQueue
<1> QED
  BY <1>1, <1>2, <1>3, <1>4, PcEffect

LEMMA ScaleEffect ==
  ASSUME TypeOK, NEW s \in Callers, ScaleStep(s)
  PROVE  CountEffect
<1>1. CASE ScaleLoad(s) \/ ScaleLen(s)
  <2>1. UNCHANGED workers /\ Counted' = Counted
    BY <1>1 DEF ScaleLoad, ScaleLen, workVars, sizeVars, Counted
  <2>2. PICK step \in Steps \ {"spawn", "undo"} : pc' = [pc EXCEPT ![s] = step]
    BY <1>1 DEF ScaleLoad, ScaleLen, Finish, Return, GoTo, Steps
  <2>3. pc[s] \notin {"spawn", "undo"}
    BY <1>1 DEF ScaleLoad, ScaleLen
  <2> QED
    BY <2>1, <2>2, <2>3, PcEffect DEF CountEffect
<1>2. CASE ScaleAdd(s)
  <2>1. pc[s] = "add" /\ workers' = workers + 1 /\ Counted' = Counted
    BY <1>2 DEF ScaleAdd, workVars, Counted
  <2>2. CASE workers + 1 <= MaxWorkers
    <3>1. pc' = [pc EXCEPT ![s] = "spawn"]
      BY <1>2, <2>2 DEF ScaleAdd, GoTo
    <3>2. /\ s \notin Pending("spawn")
          /\ Pending("spawn")' = Pending("spawn") \cup {s}
          /\ Pending("undo")' = Pending("undo")
      BY <2>1, <3>1 DEF Pending, TypeOK
    <3> QED
      BY <2>1, <2>2, <3>2 DEF CountEffect, Reserved
  <2>3. CASE ~(workers + 1 <= MaxWorkers)
    <3>1. pc' = [pc EXCEPT ![s] = "undo"]
      BY <1>2, <2>3 DEF ScaleAdd, GoTo
    <3>2. /\ s \notin Pending("undo")
          /\ Pending("undo")' = Pending("undo") \cup {s}
          /\ Pending("spawn")' = Pending("spawn")
      BY <2>1, <3>1 DEF Pending, TypeOK
    <3> QED
      BY <2>1, <3>2 DEF CountEffect, Overshot
  <2> QED
    BY <2>2, <2>3
<1>3. CASE ScaleSpawn(s)
  <2>1. PICK w \in Slots : worker[w] = "none" /\ Resume(w, "select")
    BY <1>3 DEF ScaleSpawn
  <2>2. w \notin Counted /\ Counted' = Counted \cup {w}
    BY <2>1 DEF Resume, Counted, TypeOK
  <2>3. pc[s] = "spawn" /\ pc' = [pc EXCEPT ![s] = "idle"] /\ UNCHANGED workers
    BY <1>3 DEF ScaleSpawn, Finish, Return, sizeVars
  <2>4. /\ s \in Pending("spawn")
        /\ Pending("spawn")' = Pending("spawn") \ {s}
        /\ Pending("undo")' = Pending("undo")
    BY <2>3 DEF Pending, TypeOK
  <2>5. Spawned(s, w)
    BY <2>2, <2>3, <2>4 DEF Spawned
  <2> QED
    BY <2>5 DEF CountEffect
<1>4. CASE ScaleUndo(s)
  <2>1. pc[s] = "undo" /\ pc' = [pc EXCEPT ![s] = "idle"] /\ workers' = workers - 1
    BY <1>4 DEF ScaleUndo, Finish, Return
  <2>2. /\ s \in Pending("undo")
        /\ Pending("undo")' = Pending("undo") \ {s}
        /\ Pending("spawn")' = Pending("spawn")
    BY <2>1 DEF Pending, TypeOK
  <2>3. Counted' = Counted
    BY <1>4 DEF ScaleUndo, workVars, Counted
  <2> QED
    BY <2>1, <2>2, <2>3 DEF CountEffect, TakenBack
<1> QED
  BY <1>1, <1>2, <1>3, <1>4 DEF ScaleStep

LEMMA Effect ==
  ASSUME TypeOK, [Next]_vars
  PROVE  CountEffect
<1>1. ASSUME NEW w \in Slots,
             LoopStep(w) \/ WorkerTake(w) \/ WorkerStop(w) \/ JobReturn(w) \/ IdleFire(w)
      PROVE  CountEffect
  BY <1>1, WorkerEffect DEF CountEffect
<1>2. ASSUME NEW s \in Callers, \/ \E j \in Jobs : Call(s, j)
                               \/ Lock(s) \/ TryStep(s) \/ CtxStep(s) \/ CtxExpire(s)
      PROVE  CountEffect
  BY <1>2, SubmitEffect DEF CountEffect
<1>3. ASSUME NEW c \in Closers, CloseCall(c) \/ CloseStep(c) \/ CloseQueue(c) PROVE CountEffect
  BY <1>3, CloseEffect DEF CountEffect
<1>4. CASE UNCHANGED vars
  BY <1>4 DEF vars, callVars, workVars, sizeVars, CountEffect, SameCount, Counted, Pending
<1> QED
  BY <1>1, <1>2, <1>3, <1>4, ScaleEffect DEF Next, Terminated

-----------------------------------------------------------------------------
(* The account.                                                            *)

LEMMA OneMore ==
  ASSUME NEW S, IsFiniteSet(S), NEW x, x \notin S, NEW T, T = S \cup {x}
  PROVE  Cardinality(T) = Cardinality(S) + 1
BY FS_AddElement

LEMMA OneLess ==
  ASSUME NEW S, IsFiniteSet(S), NEW x, x \in S, NEW T, T = S \ {x}
  PROVE  Cardinality(T) = Cardinality(S) - 1
BY FS_RemoveElement

LEMMA Finite ==
  /\ IsFiniteSet(Counted) /\ Cardinality(Counted) \in Nat
  /\ IsFiniteSet(Pending("spawn")) /\ Cardinality(Pending("spawn")) \in Nat
  /\ IsFiniteSet(Pending("undo")) /\ Cardinality(Pending("undo")) \in Nat
<1>1. Counted \in SUBSET Slots
  BY DEF Counted
<1>2. Pending("spawn") \in SUBSET Callers /\ Pending("undo") \in SUBSET Callers
  BY DEF Pending
<1> QED
  BY <1>1, <1>2, DynPoolAssumption, FS_Subset, FS_CardinalityType

\* The number of workers there are or will be.
Size == Cardinality(Counted) + Cardinality(Pending("spawn"))
Excess == Cardinality(Pending("undo"))

\* The steps above in numbers.
CountStep ==
  /\ Size \in Nat /\ Excess \in Nat
  /\ Size' \in Nat /\ Excess' \in Nat
  /\ \/ Size' = Size /\ Excess' = Excess /\ workers' = workers
     \/ /\ Size' = Size - 1 /\ Excess' = Excess /\ workers' = workers - 1
        /\ \E w \in Slots : WorkerGone(w)
     \/ /\ Size' = Size + 1 /\ Excess' = Excess /\ workers' = workers + 1
        /\ workers + 1 <= MaxWorkers
     \/ Size' = Size /\ Excess' = Excess + 1 /\ workers' = workers + 1
     \/ Size' = Size /\ Excess' = Excess - 1 /\ workers' = workers - 1

LEMMA Arithmetic == CountEffect => CountStep
<1> SUFFICES ASSUME CountEffect PROVE CountStep
  OBVIOUS
<1>1. Size \in Nat /\ Excess \in Nat
  BY Finite DEF Size, Excess
<1>2. ASSUME SameCount PROVE Size' = Size /\ Excess' = Excess /\ workers' = workers
  BY <1>2 DEF SameCount, Size, Excess
<1>3. ASSUME NEW w \in Slots, WorkerGone(w)
      PROVE  Size' = Size - 1 /\ Excess' = Excess /\ workers' = workers - 1
  <2>1. Cardinality(Counted') = Cardinality(Counted) - 1
    BY <1>3, Finite, OneLess, Zenon DEF WorkerGone
  <2>2. /\ Cardinality(Pending("spawn"))' = Cardinality(Pending("spawn"))
        /\ Excess' = Excess /\ workers' = workers - 1
    BY <1>3 DEF WorkerGone, Excess
  <2> QED
    BY <2>1, <2>2, Finite DEF Size
<1>4. ASSUME NEW s \in Callers, Reserved(s)
      PROVE  /\ Size' = Size + 1 /\ Excess' = Excess /\ workers' = workers + 1
             /\ workers + 1 <= MaxWorkers
  <2>1. Cardinality(Pending("spawn")') = Cardinality(Pending("spawn")) + 1
    BY <1>4, Finite, OneMore, Zenon DEF Reserved
  <2>2. /\ Cardinality(Counted)' = Cardinality(Counted)
        /\ Excess' = Excess /\ workers' = workers + 1 /\ workers + 1 <= MaxWorkers
    BY <1>4 DEF Reserved, Excess
  <2> QED
    BY <2>1, <2>2, Finite DEF Size
<1>5. ASSUME NEW s \in Callers, Overshot(s)
      PROVE  Size' = Size /\ Excess' = Excess + 1 /\ workers' = workers + 1
  <2>1. Cardinality(Pending("undo")') = Cardinality(Pending("undo")) + 1
    BY <1>5, Finite, OneMore, Zenon DEF Overshot
  <2>2. Size' = Size /\ workers' = workers + 1
    BY <1>5 DEF Overshot, Size
  <2> QED
    BY <2>1, <2>2 DEF Excess
<1>6. ASSUME NEW s \in Callers, TakenBack(s)
      PROVE  Size' = Size /\ Excess' = Excess - 1 /\ workers' = workers - 1
  <2>1. Cardinality(Pending("undo")') = Cardinality(Pending("undo")) - 1
    BY <1>6, Finite, OneLess, Zenon DEF TakenBack
  <2>2. Size' = Size /\ workers' = workers - 1
    BY <1>6 DEF TakenBack, Size
  <2> QED
    BY <2>1, <2>2 DEF Excess
<1>7. ASSUME NEW s \in Callers, NEW w \in Slots, Spawned(s, w)
      PROVE  Size' = Size /\ Excess' = Excess /\ workers' = workers
  <2>1. Cardinality(Counted') = Cardinality(Counted) + 1
    BY <1>7, Finite, OneMore, Zenon DEF Spawned
  <2>2. Cardinality(Pending("spawn")') = Cardinality(Pending("spawn")) - 1
    BY <1>7, Finite, OneLess, Zenon DEF Spawned
  <2>3. Excess' = Excess /\ workers' = workers
    BY <1>7 DEF Spawned, Excess
  <2> QED
    BY <2>1, <2>2, <2>3, Finite DEF Size
<1>8. Size' \in Nat /\ Excess' \in Nat
  <2>1. Counted' \in SUBSET Slots
    BY DEF Counted
  <2>2. Pending("spawn")' \in SUBSET Callers /\ Pending("undo")' \in SUBSET Callers
    BY DEF Pending
  <2>3. /\ Cardinality(Counted') \in Nat
        /\ Cardinality(Pending("spawn")') \in Nat
        /\ Cardinality(Pending("undo")') \in Nat
    BY <2>1, <2>2, DynPoolAssumption, FS_Subset, FS_CardinalityType
  <2> QED
    BY <2>3 DEF Size, Excess
<1> QED
  BY <1>1, <1>2, <1>3, <1>4, <1>5, <1>6, <1>7, <1>8 DEF CountEffect, CountStep

LEMMA CounterInit == Init => CounterExact /\ Size = MinWorkers
<1> SUFFICES ASSUME Init PROVE CounterExact /\ Size = MinWorkers
  OBVIOUS
<1>1. PICK first \in SUBSET Slots :
        /\ Cardinality(first) = MinWorkers
        /\ worker = [w \in Slots |-> IF w \in first THEN "select" ELSE "none"]
  BY DEF Init
<1>2. Counted = first
  BY <1>1 DEF Counted
<1>3. Pending("spawn") = {} /\ Pending("undo") = {}
  BY DEF Init, Pending
<1>4. Cardinality({}) = 0
  BY FS_EmptySet
<1>5. workers = MinWorkers
  BY DEF Init
<1>6. Cardinality(Counted) = MinWorkers
  BY <1>1, <1>2
<1> QED
  BY <1>3, <1>4, <1>5, <1>6, TypeInit, DynPoolAssumption DEF CounterExact, Size

LEMMA CounterNext == CounterExact /\ [Next]_vars => CounterExact'
<1> SUFFICES ASSUME CounterExact, [Next]_vars PROVE CounterExact'
  OBVIOUS
<1>1. TypeOK /\ workers \in Nat /\ workers = Size + Excess
  BY DEF CounterExact, TypeOK, Size, Excess
<1>2. CountStep
  BY <1>1, Effect, Arithmetic
<1>3. workers' = Size' + Excess'
  BY <1>1, <1>2 DEF CountStep
<1>4. workers' \in Nat
  <2>1. Size' \in Nat /\ Excess' \in Nat
    BY <1>2 DEF CountStep
  <2>2. \A i, j \in Nat : i + j \in Nat
    OBVIOUS
  <2> QED
    BY <1>3, <2>1, <2>2, Zenon
<1>5. TypeOK'
  <2>1. ASSUME NEW w \in Slots,
               LoopStep(w) \/ WorkerTake(w) \/ WorkerStop(w) \/ JobReturn(w) \/ IdleFire(w)
        PROVE  TypeOK'
    BY <1>1, <1>4, <2>1, WorkerTypes
  <2>2. ASSUME NEW s \in Callers, \/ \E j \in Jobs : Call(s, j)
                                 \/ Lock(s) \/ TryStep(s) \/ CtxStep(s) \/ CtxExpire(s)
        PROVE  TypeOK'
    <3>1. UNCHANGED workers
      BY <1>1, <2>2, SubmitEffect DEF SameCount
    <3> QED
      BY <1>1, <2>2, <3>1, SubmitTypes
  <2>3. ASSUME NEW s \in Callers, ScaleStep(s) PROVE TypeOK'
    BY <1>1, <1>4, <2>3, ScaleTypes
  <2>4. ASSUME NEW c \in Closers, CloseCall(c) \/ CloseStep(c) \/ CloseQueue(c) PROVE TypeOK'
    <3>1. UNCHANGED workers
      BY <1>1, <2>4, CloseEffect DEF SameCount
    <3> QED
      BY <1>1, <2>4, <3>1, CloseTypes
  <2>5. CASE UNCHANGED vars
    BY <1>1, <2>5 DEF vars, intakeVars, callVars, workVars, sizeVars, TypeOK
  <2> QED
    BY <2>1, <2>2, <2>3, <2>4, <2>5 DEF Next, Terminated
<1> QED
  BY <1>3, <1>5 DEF CounterExact, Size, Excess

\* The variables keep their types, and p.workers stays the number of the worker
\* goroutines that have not left the count plus the increments of maybeScaleUp still
\* under way, whichever of the three exits the workers take and whoever scales up.
THEOREM Exact == Spec => []CounterExact
BY CounterInit, CounterNext, PTL DEF Spec

\* maxWorkers is a hard cap: also when callers overshoot the counter, the goroutines
\* that can run a job and those about to be started stay within it.
THEOREM Capped == Spec => []HardCap
<1>1. Init => HardCap
  BY CounterInit, DynPoolAssumption DEF Size, HardCap
<1>2. CounterExact /\ HardCap /\ [Next]_vars => HardCap'
  <2> SUFFICES ASSUME CounterExact, HardCap, [Next]_vars PROVE HardCap'
    OBVIOUS
  <2>1. TypeOK /\ workers \in Nat /\ workers = Size + Excess /\ Size <= MaxWorkers
    BY DEF CounterExact, TypeOK, HardCap, Size, Excess
  <2>2. CountStep
    BY <2>1, Effect, Arithmetic
  <2>3. Size' <= MaxWorkers
    BY <2>1, <2>2, DynPoolAssumption DEF CountStep
  <2> QED
    BY <2>3 DEF HardCap, Size
<1> QED
  BY <1>1, <1>2, Exact, PTL DEF Spec

-----------------------------------------------------------------------------
(* The lock and closeOnce, as in WorkerPool; here a caller of TrySubmit    *)
(* keeps p.mu after its send, and one of SubmitWithContext does not.       *)

LockInv == \A s \in Callers : pc[s] = "send" => mu = s

Closing(c) == pc[c] \in {"closing", "cancel", "closeQueue"}

OnceInv ==
  /\ once = "new" => ~closedCh
  /\ queueClosed => closedCh /\ once = "done"
  /\ \A c \in Closers : Closing(c) => once = "busy"
  /\ \A c, d \in Closers : Closing(c) /\ Closing(d) => c = d
  /\ \A c \in Closers : pc[c] = "closing" => ~closedCh
  /\ \A c \in Closers : pc[c] \in {"cancel", "closeQueue"} => closedCh

CloseInv == LockInv /\ OnceInv /\ NoChannelPanic

LEMMA CloseInvInit == Init => CloseInv
BY DynPoolAssumption DEF Init, CloseInv, LockInv, OnceInv, Closing, NoChannelPanic

\* A caller that does not come to "send" and gives back no lock but its own.
LEMMA CallerCloseInv ==
  ASSUME TypeOK, CloseInv, UNCHANGED intakeVars, NEW s \in Callers, mu' = mu \/ mu = s,
         NEW step \in Steps \ {"send"}, pc' = [pc EXCEPT ![s] = step]
  PROVE  CloseInv'
<1>1. \A c \in Closers : pc'[c] = pc[c]
  BY DynPoolAssumption DEF TypeOK
<1>2. \A t \in Callers : pc'[t] = "send" => t # s /\ pc[t] = "send" /\ mu' = t
  BY DEF TypeOK, Steps, CloseInv, LockInv
<1>3. LockInv' /\ \A t \in Callers : pc'[t] = "send" => ~queueClosed'
  BY <1>2 DEF LockInv, intakeVars, CloseInv, NoChannelPanic
<1> QED
  BY <1>1, <1>3 DEF intakeVars, CloseInv, OnceInv, Closing, NoChannelPanic

LEMMA SubmitCloseInv ==
  ASSUME TypeOK, CloseInv, NEW s \in Callers,
         \/ \E j \in Jobs : Call(s, j)
         \/ Lock(s) \/ TryStep(s) \/ CtxStep(s) \/ ScaleStep(s)
  PROVE  CloseInv'
<1>1. UNCHANGED intakeVars
  BY DEF Call, Lock, TryStep, TryCheck, TrySend, CtxStep, CtxCheck, CtxSend, CtxBackoff,
         ScaleStep, ScaleLoad, ScaleLen, ScaleAdd, ScaleSpawn, ScaleUndo
<1>2. CASE Lock(s) /\ ~closedCh
  <2>1. \A c \in Closers : pc'[c] = pc[c]
    BY <1>2, DynPoolAssumption DEF Lock, GoTo, TypeOK
  <2>2. mu' = s /\ \A t \in Callers : t # s => pc'[t] # "send"
    BY <1>2, DynPoolAssumption DEF Lock, GoTo, TypeOK, CloseInv, LockInv
  <2>3. ~queueClosed'
    BY <1>1, <1>2 DEF intakeVars, CloseInv, OnceInv
  <2>4. LockInv' /\ \A t \in Callers : pc'[t] = "send" => ~queueClosed'
    BY <2>2, <2>3 DEF LockInv
  <2> QED
    BY <1>1, <2>1, <2>4 DEF intakeVars, CloseInv, OnceInv, Closing, NoChannelPanic
<1>3. ASSUME mu' = mu \/ mu = s,
             \E step \in Steps \ {"send"} : pc' = [pc EXCEPT ![s] = step]
      PROVE  CloseInv'
  BY <1>1, <1>3, CallerCloseInv
<1>4. CASE (Lock(s) /\ closedCh) \/ \E j \in Jobs : Call(s, j)
  BY <1>3, <1>4 DEF Lock, Call, Return, Steps
<1>5. CASE TryCheck(s) \/ CtxCheck(s) \/ CtxBackoff(s)
  BY <1>3, <1>5 DEF TryCheck, CtxCheck, CtxBackoff, Return, GoTo, Steps
<1>6. CASE TrySend(s) \/ CtxSend(s)
  <2>1. mu = s
    BY <1>6 DEF TrySend, CtxSend, CloseInv, LockInv
  <2> QED
    BY <1>3, <1>6, <2>1 DEF TrySend, CtxSend, Return, GoTo, Steps
<1>7. CASE ScaleStep(s)
  <2>1. mu' = mu \/ mu = s
    BY <1>7 DEF ScaleStep, ScaleLoad, ScaleLen, ScaleAdd, ScaleSpawn, ScaleUndo, Finish
  <2>2. \E step \in Steps \ {"send"} : pc' = [pc EXCEPT ![s] = step]
    BY <1>7 DEF ScaleStep, ScaleLoad, ScaleLen, ScaleAdd, ScaleSpawn, ScaleUndo, Finish,
                Return, GoTo, Steps
  <2> QED
    BY <1>3, <2>1, <2>2
<1> QED
  BY <1>2, <1>4, <1>5, <1>6, <1>7 DEF TryStep, CtxStep

\* What the closers do to each other and to the intake, step by step.
CloserMove(c, from, to) ==
  /\ pc[c] = from /\ pc'[c] = to
  /\ mu' = mu
  /\ \A s \in Callers : pc'[s] = pc[s]
  /\ \A d \in Closers : d # c => pc'[d] = pc[d]

LEMMA CloserMoves ==
  ASSUME TypeOK, NEW c \in Closers, NEW from \in Steps, NEW to \in Steps,
         pc[c] = from, mu' = mu, GoTo(c, to)
  PROVE  CloserMove(c, from, to)
BY DynPoolAssumption DEF GoTo, TypeOK, CloserMove

LEMMA CloserCloseInv ==
  ASSUME TypeOK, CloseInv, NEW c \in Closers,
         CloseCall(c) \/ CloseStep(c) \/ CloseQueue(c)
  PROVE  CloseInv'
<1> USE DEF CloserMove, CloseInv, LockInv, OnceInv, Closing, NoChannelPanic
<1>1. CASE CloseCall(c)
  <2>1. CloserMove(c, "idle", "once") /\ UNCHANGED intakeVars
    BY <1>1, CloserMoves DEF CloseCall, Steps
  <2> QED
    BY <2>1 DEF intakeVars
<1>2. CASE WaitReturn(c)
  <2>1. CloserMove(c, "wait", "waited") /\ UNCHANGED intakeVars
    BY <1>2, CloserMoves DEF WaitReturn, Steps
  <2> QED
    BY <2>1 DEF intakeVars
<1>3. CASE Once(c) /\ once = "new" /\ GoTo(c, "closing")
  <2>1. CloserMove(c, "once", "closing") /\ UNCHANGED <<queueClosed, closedCh>>
    BY <1>3, CloserMoves DEF Once, Steps
  <2>2. once' = "busy"
    BY <1>3 DEF Once
  <2> QED
    BY <1>3, <2>1, <2>2
<1>4. CASE Once(c) /\ once = "done" /\ GoTo(c, "wait")
  <2>1. CloserMove(c, "once", "wait") /\ UNCHANGED <<queueClosed, closedCh>>
    BY <1>4, CloserMoves DEF Once, Steps
  <2>2. once' = "done"
    BY <1>4 DEF Once
  <2> QED
    BY <1>4, <2>1, <2>2
<1>5. CASE CloseCh(c)
  <2>1. CloserMove(c, "closing", "cancel") /\ closedCh' /\ UNCHANGED <<queueClosed, once>>
    BY <1>5, CloserMoves DEF CloseCh, Steps
  <2> QED
    BY <2>1
<1>6. CASE Cancel(c)
  <2>1. CloserMove(c, "cancel", "closeQueue") /\ UNCHANGED <<queueClosed, closedCh, once>>
    BY <1>6, CloserMoves DEF Cancel, Steps
  <2> QED
    BY <2>1
<1>7. CASE CloseQueue(c)
  <2>1. CloserMove(c, "closeQueue", "wait") /\ queueClosed' /\ once' = "done" /\ UNCHANGED closedCh
    BY <1>7, CloserMoves DEF CloseQueue, Steps
  <2>2. \A s \in Callers : pc[s] # "send"
    BY <1>7, DynPoolAssumption DEF CloseQueue
  <2> QED
    BY <2>1, <2>2
<1> QED
  BY <1>1, <1>2, <1>3, <1>4, <1>5, <1>6, <1>7 DEF CloseStep, Once

LEMMA CloseInvNext ==
  ASSUME TypeOK, CloseInv, [Next]_vars
  PROVE  CloseInv'
<1>1. ASSUME UNCHANGED <<intakeVars, mu, pc>> PROVE CloseInv'
  BY <1>1 DEF intakeVars, CloseInv, LockInv, OnceInv, Closing, NoChannelPanic
<1>2. ASSUME NEW w \in Slots,
             LoopStep(w) \/ WorkerTake(w) \/ WorkerStop(w) \/ JobReturn(w) \/ IdleFire(w)
      PROVE  CloseInv'
  <2>1. UNCHANGED <<intakeVars, callVars>>
    BY <1>2 DEF LoopStep, WorkerPark, DecWorker, ReapLoad, ReapSwap, WorkerDone, WorkerTake,
                WorkerStop, JobReturn, IdleFire
  <2> QED
    BY <1>1, <2>1 DEF callVars
<1>3. ASSUME NEW s \in CtxCallers, CtxExpire(s) PROVE CloseInv'
  BY <1>1, <1>3 DEF CtxExpire
<1>4. CASE UNCHANGED vars
  BY <1>1, <1>4 DEF vars, callVars
<1> QED
  BY <1>2, <1>3, <1>4, SubmitCloseInv, CloserCloseInv DEF Next, Terminated

\* "Serialize send vs close to avoid send on closed channel": no send and no close finds
\* its channel closed, for callers of both kinds and closers in any number.
THEOREM Guarded == Spec => []NoChannelPanic
<1>1. CloseInv => NoChannelPanic
  BY DEF CloseInv
<1>2. CounterExact => TypeOK
  BY DEF CounterExact
<1> QED
  BY CloseInvInit, CloseInvNext, Exact, <1>1, <1>2, PTL DEF Spec

-----------------------------------------------------------------------------
(* With callers of TrySubmit only, maybeScaleUp runs under p.mu, and two   *)
(* more promises hold: the minimum of workers stays alive and Wait leaves  *)
(* nothing behind.  (Neither holds for SubmitWithContext, which scales up  *)
(* after it has unlocked.)                                                 *)

InRegion(s) == pc[s] \in {"send", "load", "len", "add", "spawn", "undo"}

\* From its send to its return a caller holds the lock.
RegionInv == \A s \in Callers : InRegion(s) => mu = s

\* So the counter it has loaded cannot grow before it adds to it: nobody overshoots.
RoomInv ==
  /\ \A s \in Callers : pc[s] \in {"len", "add"} => workers < MaxWorkers
  /\ \A s \in Callers : pc[s] # "undo"

\* A worker that is about to drop itself has seen more than the minimum.
ReapInv == \A w \in Slots : worker[w] = "swap" => loaded[w] > MinWorkers

\* The other exits are taken only in a pool that is being closed.
StopInv ==
  /\ \A w \in Slots : worker[w] = "stopping" => cancelled
  /\ queueClosed => cancelled
  /\ \A c \in Closers : pc[c] = "closeQueue" => cancelled

\* Once the queue is closed nobody is, or gets, into the region that spawns.
DoneInv ==
  /\ once = "done" => queueClosed /\ \A s \in Callers : ~InRegion(s)
  /\ \A c \in Closers : pc[c] \in {"wait", "waited"} => once = "done"

TryInv ==
  /\ CounterExact /\ CloseInv
  /\ RegionInv /\ RoomInv /\ ReapInv /\ StopInv /\ DoneInv
  /\ MinWorkersAlive /\ StoppedAfterWait

LEMMA TryInvInit == Init => TryInv
<1> SUFFICES ASSUME Init PROVE TryInv
  OBVIOUS
<1>1. \A p \in Callers \cup Closers : pc[p] = "idle"
  BY DEF Init
<1>2. RegionInv /\ RoomInv /\ DoneInv /\ StoppedAfterWait
  BY <1>1 DEF Init, RegionInv, InRegion, RoomInv, DoneInv, StoppedAfterWait
<1>3. ReapInv /\ StopInv
  BY <1>1 DEF Init, ReapInv, StopInv
<1>4. MinWorkersAlive
  BY CounterInit, DynPoolAssumption DEF Size, MinWorkersAlive
<1> QED
  BY <1>2, <1>3, <1>4, CounterInit, CloseInvInit DEF TryInv

\* While nobody overshoots and no worker leaves, the size does not shrink.
LEMMA SizeKept ==
  ASSUME TypeOK, [Next]_vars, UNCHANGED cancelled, MinWorkersAlive, workers' >= workers
  PROVE  MinWorkersAlive'
<1>1. CountStep /\ workers \in Nat
  BY Effect, Arithmetic DEF TypeOK
<1>2. Size' >= Size
  BY <1>1 DEF CountStep
<1>3. Size \in Nat /\ Size' \in Nat
  BY <1>1 DEF CountStep
<1> QED
  BY <1>2, <1>3, DynPoolAssumption DEF MinWorkersAlive, Size

\* A worker that is not yet gone does not come back from nowhere.
LEMMA LiveShrinks ==
  ASSUME StoppedAfterWait, Live' \subseteq Live,
         \A c \in Closers : pc'[c] = "waited" => pc[c] = "waited" \/ Live = {}
  PROVE  StoppedAfterWait'
BY DEF StoppedAfterWait

LEMMA TryWorker ==
  ASSUME TryInv, [Next]_vars, NEW w \in Slots,
         LoopStep(w) \/ WorkerTake(w) \/ WorkerStop(w) \/ JobReturn(w) \/ IdleFire(w)
  PROVE  /\ RegionInv' /\ RoomInv' /\ ReapInv' /\ StopInv' /\ DoneInv'
         /\ MinWorkersAlive' /\ StoppedAfterWait'
<1> USE DEF TryInv, Resume
<1>1. UNCHANGED <<intakeVars, mu, pc>>
  BY DEF LoopStep, WorkerPark, DecWorker, ReapLoad, ReapSwap, WorkerDone, WorkerTake,
         WorkerStop, JobReturn, IdleFire, callVars
<1>2. RegionInv' /\ DoneInv'
  BY <1>1 DEF intakeVars, RegionInv, DoneInv, InRegion
<1>3. TypeOK /\ workers \in Nat
  BY DEF CounterExact, TypeOK
<1>4. RoomInv'
  <2>1. workers' \in Nat /\ (workers' = workers \/ workers' = workers - 1)
    BY <1>3, CounterNext, WorkerEffect DEF SameCount, WorkerGone, CounterExact, TypeOK
  <2>2. workers < MaxWorkers => workers' < MaxWorkers
    BY <1>3, <2>1, DynPoolAssumption
  <2> QED
    BY <1>1, <2>2 DEF RoomInv
<1>5. ReapInv'
  <2>1. CASE ReapLoad(w)
    <3>1. /\ \A v \in Slots : v # w => worker'[v] = worker[v] /\ loaded'[v] = loaded[v]
          /\ worker'[w] = "swap" => loaded'[w] = workers /\ ~(workers <= MinWorkers)
      BY <1>3, <2>1 DEF ReapLoad, TypeOK
    <3> QED
      BY <1>3, <3>1, DynPoolAssumption DEF ReapInv
  <2>2. CASE ReapSwap(w)
    <3>1. /\ \A v \in Slots : v # w => worker'[v] = worker[v] /\ loaded'[v] = loaded[v]
          /\ worker'[w] # "swap"
      BY <1>3, <2>2 DEF ReapSwap, TypeOK
    <3> QED
      BY <3>1 DEF ReapInv
  <2>3. CASE \/ WorkerPark(w) \/ DecWorker(w) \/ WorkerDone(w)
             \/ WorkerTake(w) \/ WorkerStop(w) \/ JobReturn(w) \/ IdleFire(w)
    <3>1. UNCHANGED loaded
      BY <2>3 DEF WorkerPark, DecWorker, WorkerDone, WorkerTake, WorkerStop, JobReturn, IdleFire,
                  sizeVars
    <3>2. \A v \in Slots : worker'[v] = "swap" => worker[v] = "swap"
      BY <1>3, <2>3 DEF WorkerPark, DecWorker, WorkerDone, WorkerTake, StartJob, WorkerStop,
                        JobReturn, IdleFire, TypeOK
    <3> QED
      BY <3>1, <3>2 DEF ReapInv
  <2> QED
    BY <2>1, <2>2, <2>3 DEF LoopStep
<1>6. StopInv'
  <2>1. \A v \in Slots : worker'[v] = "stopping" => worker[v] = "stopping" \/ cancelled
    <3>1. CASE WorkerStop(w)
      BY <1>3, <3>1 DEF WorkerStop, StopInv, TypeOK
    <3>2. CASE LoopStep(w) \/ WorkerTake(w) \/ JobReturn(w) \/ IdleFire(w)
      BY <1>3, <3>2 DEF LoopStep, WorkerPark, DecWorker, ReapLoad, ReapSwap, WorkerDone,
                        WorkerTake, StartJob, JobReturn, IdleFire, TypeOK
    <3> QED
      BY <3>1, <3>2
  <2> QED
    BY <1>1, <2>1 DEF intakeVars, StopInv
<1>7. StoppedAfterWait'
  <2>1. Live' \subseteq Live
    BY <1>3 DEF LoopStep, WorkerPark, DecWorker, ReapLoad, ReapSwap, WorkerDone, WorkerTake,
                StartJob, WorkerStop, JobReturn, IdleFire, Live, TypeOK
  <2> QED
    BY <1>1, <2>1, LiveShrinks
<1>8. MinWorkersAlive'
  <2>1. CASE workers' >= workers
    BY <1>1, <1>3, <2>1, SizeKept DEF intakeVars
  <2>2. CASE DecWorker(w)
    BY <1>1, <2>2 DEF DecWorker, StopInv, intakeVars, MinWorkersAlive
  <2>3. CASE ReapSwap(w) /\ workers = loaded[w]
    <3>1. workers > MinWorkers
      BY <2>3 DEF ReapSwap, ReapInv
    <3>2. Excess = 0
      <4>1. Pending("undo") = {}
        BY DEF Pending, RoomInv
      <4> QED
        BY <4>1, FS_EmptySet DEF Excess
    <3>3. workers = Size + Excess
      BY DEF CounterExact, Size, Excess
    <3>4. CountStep
      BY <1>3, Effect, Arithmetic
    <3>5. workers' = workers - 1
      BY <2>3 DEF ReapSwap
    <3>6. Size' \in Nat /\ Size' >= MinWorkers
      BY <1>3, <3>1, <3>2, <3>3, <3>4, <3>5, DynPoolAssumption DEF CountStep
    <3> QED
      BY <3>6 DEF MinWorkersAlive, Size
  <2>4. CASE UNCHANGED workers
    BY <1>3, <2>1, <2>4
  <2> QED
    BY <2>2, <2>3, <2>4 DEF LoopStep, WorkerPark, ReapLoad, ReapSwap, WorkerDone, WorkerTake,
                            WorkerStop, JobReturn, IdleFire, sizeVars
<1> QED
  BY <1>2, <1>4, <1>5, <1>6, <1>7, <1>8

\* A caller outside the region after its step, or the holder of the lock inside it.
LEMMA RegionMove ==
  ASSUME TypeOK, RegionInv, NEW s \in Callers,
         NEW step \in Steps, pc' = [pc EXCEPT ![s] = step],
         \/ /\ step \notin {"send", "load", "len", "add", "spawn", "undo"}
            /\ mu' = mu \/ mu = s
         \/ mu' = s /\ mu \in {None, s}
  PROVE  RegionInv'
<1>1. \A t \in Callers : t # s => pc'[t] = pc[t]
  BY DEF TypeOK
<1>2. pc'[s] = step
  BY DEF TypeOK
<1>3. ASSUME NEW t \in Callers, t # s, InRegion(t)' PROVE mu = t /\ mu # s /\ mu # None
  BY <1>1, <1>3, DynPoolAssumption DEF RegionInv, InRegion
<1> QED
  BY <1>2, <1>3 DEF RegionInv, InRegion

\* The closers take no notice of a caller, and one that does not enter the region cannot
\* do so after Close.
LEMMA DoneMove ==
  ASSUME TypeOK, DoneInv, UNCHANGED intakeVars, NEW s \in Callers,
         NEW step \in Steps, pc' = [pc EXCEPT ![s] = step],
         \/ step \notin {"send", "load", "len", "add", "spawn", "undo"}
         \/ InRegion(s)
         \/ once # "done"
  PROVE  DoneInv' /\ \A c \in Closers : pc'[c] = pc[c]
<1>1. \A c \in Closers : pc'[c] = pc[c]
  BY DynPoolAssumption DEF TypeOK
<1>2. \A t \in Callers : t # s => pc'[t] = pc[t]
  BY DEF TypeOK
<1>3. pc'[s] = step
  BY DEF TypeOK
<1> QED
  BY <1>1, <1>2, <1>3 DEF DoneInv, InRegion, intakeVars

LEMMA TrySubmits ==
  ASSUME CtxCallers = {}, TryInv, [Next]_vars, NEW s \in Callers,
         (\E j \in Jobs : Call(s, j)) \/ Lock(s) \/ TryStep(s)
  PROVE  /\ RegionInv' /\ RoomInv' /\ ReapInv' /\ StopInv' /\ DoneInv'
         /\ MinWorkersAlive' /\ StoppedAfterWait'
<1> USE DEF TryInv
<1>1. TypeOK /\ workers \in Nat
  BY DEF CounterExact, TypeOK
<1>2. UNCHANGED <<intakeVars, sizeVars>>
  BY DEF Call, Lock, TryStep, TryCheck, TrySend
<1>3. PICK step \in {"idle", "check", "lock", "send", "load"} :
        /\ pc' = [pc EXCEPT ![s] = step]
        /\ \/ step \in {"idle", "check", "lock"} /\ (mu' = mu \/ mu = s)
           \/ step = "send" /\ mu = None /\ mu' = s /\ ~closedCh
           \/ step = "load" /\ InRegion(s) /\ mu = s /\ mu' = s
  <2>1. pc[s] = "send" => InRegion(s) /\ mu = s
    BY DEF InRegion, RegionInv
  <2>2. CASE \E j \in Jobs : Call(s, j)
    BY <2>2 DEF Call
  <2>3. CASE Lock(s)
    BY <2>3 DEF Lock, Return, GoTo
  <2>4. CASE TryCheck(s)
    BY <2>4 DEF TryCheck, Return, GoTo
  <2>5. CASE TrySend(s)
    BY <2>1, <2>5 DEF TrySend, Return, GoTo
  <2> QED
    BY <2>2, <2>3, <2>4, <2>5 DEF TryStep
<1>4. step \in Steps
  BY DEF Steps
<1>5. RegionInv'
  BY <1>1, <1>3, <1>4, RegionMove
<1>6. step = "send" => once # "done"
  BY <1>3 DEF DoneInv, CloseInv, OnceInv
<1>7. DoneInv' /\ \A c \in Closers : pc'[c] = pc[c]
  BY <1>1, <1>2, <1>3, <1>4, <1>6, DoneMove
<1>8. RoomInv'
  <2>1. pc'[s] = step /\ \A t \in Callers : t # s => pc'[t] = pc[t]
    BY <1>1, <1>3 DEF TypeOK
  <2> QED
    BY <1>2, <1>3, <2>1 DEF RoomInv, sizeVars
<1>9. \A w \in Slots : worker'[w] = worker[w] \/ (worker[w] = "parked" /\ worker'[w] = "run")
  <2>1. UNCHANGED worker \/ Send(call[s])
    BY DEF Call, Lock, TryStep, TryCheck, TrySend, workVars
  <2> QED
    BY <1>1, <2>1 DEF Send, StartJob, Resume, Parked, TypeOK
<1>10. ReapInv' /\ StopInv'
  BY <1>2, <1>7, <1>9 DEF ReapInv, StopInv, intakeVars, sizeVars
<1>11. StoppedAfterWait'
  <2>1. Live' \subseteq Live
    BY <1>9 DEF Live
  <2> QED
    BY <1>7, <2>1, LiveShrinks
<1>12. MinWorkersAlive'
  BY <1>1, <1>2, SizeKept DEF intakeVars, sizeVars
<1> QED
  BY <1>5, <1>7, <1>8, <1>10, <1>11, <1>12

LEMMA TryScale ==
  ASSUME TryInv, [Next]_vars, NEW s \in Callers, ScaleStep(s)
  PROVE  /\ RegionInv' /\ RoomInv' /\ ReapInv' /\ StopInv' /\ DoneInv'
         /\ MinWorkersAlive' /\ StoppedAfterWait'
<1> USE DEF TryInv
<1>1. TypeOK /\ workers \in Nat
  BY DEF CounterExact, TypeOK
<1>2. UNCHANGED <<intakeVars, loaded>>
  BY DEF ScaleStep, ScaleLoad, ScaleLen, ScaleAdd, ScaleSpawn, ScaleUndo, sizeVars
<1>3. InRegion(s) /\ mu = s /\ pc[s] # "undo"
  BY DEF ScaleStep, ScaleLoad, ScaleLen, ScaleAdd, ScaleSpawn, ScaleUndo, InRegion, RegionInv,
         RoomInv
<1>4. PICK step \in {"idle", "len", "add", "spawn"} :
        /\ pc' = [pc EXCEPT ![s] = step]
        /\ mu' = mu \/ step = "idle"
        /\ \/ step \in {"len", "add"} /\ workers < MaxWorkers /\ workers' = workers
           \/ step = "spawn" /\ workers' = workers + 1
           \/ step = "idle" /\ workers' = workers
  <2>1. CASE ScaleLoad(s)
    BY <1>1, <2>1, DynPoolAssumption DEF ScaleLoad, Finish, Return, GoTo, sizeVars
  <2>2. CASE ScaleLen(s)
    BY <2>2 DEF ScaleLen, Finish, Return, GoTo, sizeVars, RoomInv
  <2>3. CASE ScaleAdd(s)
    <3>1. workers + 1 <= MaxWorkers
      BY <1>1, <2>3, DynPoolAssumption DEF ScaleAdd, RoomInv
    <3> QED
      BY <2>3, <3>1 DEF ScaleAdd, GoTo
  <2>4. CASE ScaleSpawn(s)
    BY <2>4 DEF ScaleSpawn, Finish, Return, sizeVars
  <2> QED
    BY <1>3, <2>1, <2>2, <2>3, <2>4 DEF ScaleStep, ScaleUndo
<1>5. step \in Steps
  BY DEF Steps
<1>6. RegionInv'
  BY <1>1, <1>3, <1>4, <1>5, RegionMove
<1>7. DoneInv' /\ \A c \in Closers : pc'[c] = pc[c]
  BY <1>1, <1>2, <1>3, <1>4, <1>5, DoneMove
<1>8. RoomInv'
  <2>1. pc'[s] = step /\ \A t \in Callers : t # s => pc'[t] = pc[t]
    BY <1>1, <1>4 DEF TypeOK
  <2>2. \A t \in Callers : t # s => pc[t] \notin {"len", "add", "undo"}
    BY <1>3 DEF RegionInv, InRegion
  <2> QED
    BY <1>4, <2>1, <2>2 DEF RoomInv
<1>9. \A w \in Slots : worker'[w] = worker[w] \/ worker'[w] = "select"
  BY <1>1 DEF ScaleStep, ScaleLoad, ScaleLen, ScaleAdd, ScaleSpawn, ScaleUndo, Resume, workVars,
              TypeOK
<1>10. ReapInv' /\ StopInv'
  BY <1>2, <1>7, <1>9 DEF ReapInv, StopInv, intakeVars
<1>11. StoppedAfterWait'
  <2>1. \A c \in Closers : pc[c] # "waited"
    BY <1>3 DEF DoneInv
  <2> QED
    BY <1>7, <2>1 DEF StoppedAfterWait
<1>12. MinWorkersAlive'
  <2>1. workers' >= workers
    BY <1>1, <1>4
  <2> QED
    BY <1>1, <1>2, <2>1, SizeKept DEF intakeVars
<1> QED
  BY <1>6, <1>7, <1>8, <1>10, <1>11, <1>12

LEMMA TryClose ==
  ASSUME TryInv, [Next]_vars, NEW c \in Closers,
         CloseCall(c) \/ CloseStep(c) \/ CloseQueue(c)
  PROVE  /\ RegionInv' /\ RoomInv' /\ ReapInv' /\ StopInv' /\ DoneInv'
         /\ MinWorkersAlive' /\ StoppedAfterWait'
<1> USE DEF TryInv
<1>1. TypeOK /\ workers \in Nat
  BY DEF CounterExact, TypeOK
<1>2. UNCHANGED <<workers, loaded, mu>>
  BY DEF CloseCall, CloseStep, Once, CloseCh, Cancel, WaitReturn, CloseQueue, sizeVars
<1>3. PICK from \in Steps, to \in Steps :
        /\ CloserMove(c, from, to)
        /\ \/ /\ from \in {"idle", "cancel"} /\ to \in {"once", "closeQueue"}
              /\ to = "closeQueue" => cancelled'
              /\ UNCHANGED <<queueClosed, once>>
           \/ from = "once" /\ to = "closing" /\ once' = "busy" /\ UNCHANGED queueClosed
              /\ once = "new"
           \/ from = "once" /\ to = "wait" /\ UNCHANGED <<queueClosed, once>> /\ once = "done"
           \/ from = "closing" /\ to = "cancel" /\ UNCHANGED <<queueClosed, once>>
           \/ from = "closeQueue" /\ to = "wait" /\ once' = "done" /\ queueClosed' /\ mu = None
           \/ from = "wait" /\ to = "waited" /\ UNCHANGED <<queueClosed, once>> /\ Live = {}
  <2> USE <1>1, CloserMoves DEF Steps
  <2>1. CASE CloseCall(c)
    <3>1. CloserMove(c, "idle", "once")
      BY <2>1 DEF CloseCall
    <3> QED
      BY <2>1, <3>1 DEF CloseCall, intakeVars
  <2>2. CASE Once(c)
    <3>1. CASE once = "new" /\ once' = "busy" /\ GoTo(c, "closing")
      <4>1. CloserMove(c, "once", "closing")
        BY <2>2, <3>1 DEF Once
      <4> QED
        BY <2>2, <3>1, <4>1 DEF Once
    <3>2. CASE once = "done" /\ UNCHANGED once /\ GoTo(c, "wait")
      <4>1. CloserMove(c, "once", "wait")
        BY <2>2, <3>2 DEF Once
      <4> QED
        BY <2>2, <3>2, <4>1 DEF Once
    <3> QED
      BY <2>2, <3>1, <3>2 DEF Once
  <2>3. CASE CloseCh(c)
    <3>1. CloserMove(c, "closing", "cancel")
      BY <2>3 DEF CloseCh
    <3> QED
      BY <2>3, <3>1 DEF CloseCh
  <2>4. CASE Cancel(c)
    <3>1. CloserMove(c, "cancel", "closeQueue")
      BY <2>4 DEF Cancel
    <3> QED
      BY <2>4, <3>1 DEF Cancel
  <2>5. CASE CloseQueue(c)
    <3>1. CloserMove(c, "closeQueue", "wait")
      BY <2>5 DEF CloseQueue
    <3> QED
      BY <2>5, <3>1 DEF CloseQueue
  <2>6. CASE WaitReturn(c)
    <3>1. CloserMove(c, "wait", "waited")
      BY <2>6 DEF WaitReturn
    <3> QED
      BY <2>6, <3>1 DEF WaitReturn, intakeVars
  <2> QED
    BY <2>1, <2>2, <2>3, <2>4, <2>5, <2>6 DEF CloseStep
<1>4. cancelled => cancelled'
  BY DEF CloseCall, CloseStep, Once, CloseCh, Cancel, WaitReturn, CloseQueue, intakeVars
<1>5. RegionInv' /\ RoomInv'
  BY <1>2, <1>3 DEF CloserMove, RegionInv, RoomInv, InRegion
<1>6. DoneInv'
  <2>1. mu = None => \A s \in Callers : ~InRegion(s)
    BY DynPoolAssumption DEF RegionInv
  <2> QED
    BY <1>3, <2>1 DEF CloserMove, DoneInv, InRegion
<1>7. \A w \in Slots : \/ worker'[w] = worker[w]
                       \/ worker[w] = "parked" /\ worker'[w] = "stopping" /\ cancelled'
  <2>1. UNCHANGED worker \/ (WakeParked /\ cancelled')
    BY DEF CloseCall, CloseStep, Once, CloseCh, Cancel, WaitReturn, CloseQueue, workVars, StopInv
  <2> QED
    BY <2>1 DEF WakeParked, Parked
<1>8. ReapInv'
  BY <1>2, <1>7 DEF ReapInv
<1>9. StopInv'
  <2>1. queueClosed' => cancelled'
    BY <1>3, <1>4 DEF CloserMove, StopInv
  <2>2. \A d \in Closers : pc'[d] = "closeQueue" => cancelled'
    BY <1>3, <1>4 DEF CloserMove, StopInv
  <2> QED
    BY <1>4, <1>7, <2>1, <2>2 DEF StopInv
<1>10. StoppedAfterWait'
  <2>1. Live' \subseteq Live
    BY <1>7 DEF Live
  <2>2. \A d \in Closers : pc'[d] = "waited" => pc[d] = "waited" \/ Live = {}
    BY <1>3 DEF CloserMove
  <2> QED
    BY <2>1, <2>2, LiveShrinks
<1>11. MinWorkersAlive'
  <2>1. CASE UNCHANGED cancelled
    BY <1>1, <1>2, <2>1, SizeKept
  <2>2. CASE cancelled'
    BY <2>2 DEF MinWorkersAlive
  <2> QED
    BY <2>1, <2>2
       DEF CloseCall, CloseStep, Once, CloseCh, Cancel, WaitReturn, CloseQueue, intakeVars
<1> QED
  BY <1>5, <1>6, <1>8, <1>9, <1>10, <1>11

LEMMA TryInvNext ==
  ASSUME CtxCallers = {}
  PROVE  TryInv /\ [Next]_vars => TryInv'
<1> SUFFICES ASSUME TryInv, [Next]_vars PROVE TryInv'
  OBVIOUS
<1>1. CounterExact' /\ CloseInv'
  BY CounterNext, CloseInvNext DEF TryInv, CounterExact
<1>2. CASE UNCHANGED vars
  <2>1. /\ RegionInv' /\ RoomInv' /\ ReapInv' /\ StopInv' /\ DoneInv'
    BY <1>2 DEF vars, intakeVars, callVars, workVars, sizeVars, TryInv, RegionInv, RoomInv, ReapInv,
                StopInv, DoneInv, InRegion
  <2>2. MinWorkersAlive' /\ StoppedAfterWait'
    BY <1>2 DEF vars, intakeVars, callVars, workVars, TryInv, MinWorkersAlive, StoppedAfterWait,
                Counted, Pending, Live
  <2> QED
    BY <1>1, <2>1, <2>2 DEF TryInv
<1>3. CASE Next
  <2>1. /\ RegionInv' /\ RoomInv' /\ ReapInv' /\ StopInv' /\ DoneInv'
        /\ MinWorkersAlive' /\ StoppedAfterWait'
    <3>1. ASSUME NEW w \in Slots,
                 LoopStep(w) \/ WorkerTake(w) \/ WorkerStop(w) \/ JobReturn(w) \/ IdleFire(w)
          PROVE  /\ RegionInv' /\ RoomInv' /\ ReapInv' /\ StopInv' /\ DoneInv'
                 /\ MinWorkersAlive' /\ StoppedAfterWait'
      BY <3>1, TryWorker
    <3>2. CASE UNCHANGED vars
      BY <1>2, <3>2 DEF TryInv
    <3> QED
      BY <1>3, <3>1, <3>2, TrySubmits, TryScale, TryClose DEF Next, Terminated
  <2> QED
    BY <1>1, <2>1 DEF TryInv
<1> QED
  BY <1>2, <1>3

\* minWorkers is the "minimum number of workers kept alive": while the pool is open and
\* jobs come through TrySubmit, reaping and scaling up never leave fewer.
THEOREM MinAlive ==
  ASSUME CtxCallers = {}
  PROVE  Spec => []MinWorkersAlive
<1>1. TryInv => MinWorkersAlive
  BY DEF TryInv
<1> QED
  BY <1>1, TryInvInit, TryInvNext, PTL DEF Spec

\* "Wait blocks until all workers have exited", and with TrySubmit nobody spawns another
\* one behind its back.
THEOREM StoppedForGood ==
  ASSUME CtxCallers = {}
  PROVE  Spec => []StoppedAfterWait
<1>1. TryInv => StoppedAfterWait
  BY DEF TryInv
<1> QED
  BY <1>1, TryInvInit, TryInvNext, PTL DEF Spec
-----------------------------------------------------------------------------
(* The pool is a queue, whoever submits and however the pool is scaled:    *)
(* the jobs accepted are the jobs started followed by the jobs buffered,   *)
(* because a worker parks only over an empty buffer.                       *)

ParkInv == Parked # {} => queue = <<>>
FifoConservation == accepted = started \o queue
FifoInv == ParkInv /\ FifoConservation

LEMMA SendFifoInv ==
  ASSUME TypeOK, FifoInv, NEW j \in Jobs, Send(j)
  PROVE  FifoInv'
<1>1. CASE \E w \in Parked : StartJob(w, j) /\ UNCHANGED queue
  <2>1. queue = <<>> /\ queue' = <<>>
    BY <1>1 DEF FifoInv, ParkInv
  <2>2. accepted' = Append(accepted, j) /\ started' = Append(started, j)
    BY <1>1 DEF Send, StartJob
  <2>3. started \in Seq(Jobs) /\ queue \in Seq(Jobs) /\ accepted = started \o queue
    BY DEF FifoInv, FifoConservation, TypeOK
  <2>4. accepted' = started' \o queue'
    BY <2>1, <2>2, <2>3, NothingLeft
  <2> QED
    BY <2>1, <2>4 DEF FifoInv, ParkInv, FifoConservation
<1>2. CASE /\ Parked = {}
           /\ queue' = Append(queue, j)
           /\ UNCHANGED <<worker, task, started>>
  <2>1. Parked' = {}
    BY <1>2 DEF Parked
  <2>2. started \in Seq(Jobs) /\ queue \in Seq(Jobs) /\ accepted = started \o queue
    BY DEF FifoInv, FifoConservation, TypeOK
  <2>3. accepted' = Append(accepted, j) /\ queue' = Append(queue, j)
    BY <1>2 DEF Send
  <2>4. Append(accepted, j) = started \o Append(queue, j)
    BY <2>2, GrowRest
  <2>5. accepted' = started' \o queue'
    BY <1>2, <2>3, <2>4, Zenon
  <2> QED
    BY <2>1, <2>5 DEF FifoInv, ParkInv, FifoConservation
<1> QED
  BY <1>1, <1>2 DEF Send

\* Everybody else leaves the jobs alone and parks nobody.
LEMMA OtherFifoInv ==
  ASSUME FifoInv, UNCHANGED <<queue, accepted, started>>, Parked' \subseteq Parked
  PROVE  FifoInv'
BY DEF FifoInv, ParkInv, FifoConservation

LEMMA FifoInvNext ==
  ASSUME TypeOK, FifoInv, [Next]_vars
  PROVE  FifoInv'
<1>1. ASSUME NEW w \in Slots, WorkerTake(w) PROVE FifoInv'
  <2>1. Parked = {} /\ Parked' \subseteq Parked
    BY <1>1 DEF WorkerTake, StartJob, Resume, Parked, FifoInv, ParkInv, TypeOK
  <2>2. accepted' = started' \o queue'
    BY <1>1, MoveHead DEF WorkerTake, StartJob, FifoInv, FifoConservation, TypeOK
  <2> QED
    BY <2>1, <2>2 DEF FifoInv, ParkInv, FifoConservation
<1>2. ASSUME NEW w \in Slots, WorkerPark(w) PROVE FifoInv'
  BY <1>2 DEF WorkerPark, FifoInv, ParkInv, FifoConservation
<1>3. ASSUME NEW w \in Slots, WorkerStop(w) \/ JobReturn(w) \/ IdleFire(w) PROVE FifoInv'
  <2>1. Parked' \subseteq Parked /\ UNCHANGED <<queue, accepted, started>>
    BY <1>3 DEF WorkerStop, JobReturn, IdleFire, Resume, Parked, TypeOK
  <2> QED
    BY <2>1, OtherFifoInv
<1>4. ASSUME NEW w \in Slots, DecWorker(w) \/ ReapLoad(w) \/ ReapSwap(w) \/ WorkerDone(w)
      PROVE  FifoInv'
  <2>1. Parked' \subseteq Parked
    BY <1>4 DEF DecWorker, ReapLoad, ReapSwap, WorkerDone, Resume, Parked, TypeOK
  <2>2. UNCHANGED <<queue, accepted, started>>
    BY <1>4 DEF DecWorker, ReapLoad, ReapSwap, WorkerDone
  <2> QED
    BY <2>1, <2>2, OtherFifoInv
<1>5. ASSUME UNCHANGED workVars PROVE FifoInv'
  BY <1>5, OtherFifoInv DEF workVars, Parked
<1>6. ASSUME NEW s \in Callers, TrySend(s) \/ CtxSend(s) PROVE FifoInv'
  <2>1. call[s] \in Jobs
    BY <1>6 DEF TrySend, CtxSend, TypeOK
  <2> QED
    BY <1>5, <1>6, <2>1, SendFifoInv DEF TrySend, CtxSend
<1>7. ASSUME NEW s \in Callers, ScaleSpawn(s) PROVE FifoInv'
  <2>1. Parked' \subseteq Parked /\ UNCHANGED <<queue, accepted, started>>
    BY <1>7 DEF ScaleSpawn, Resume, Parked, TypeOK
  <2> QED
    BY <2>1, OtherFifoInv
<1>8. ASSUME NEW c \in Closers, Cancel(c) \/ CloseQueue(c) PROVE FifoInv'
  <2>1. Parked' = {} /\ UNCHANGED <<queue, accepted, started>>
    BY <1>8 DEF Cancel, CloseQueue, WakeParked, Parked
  <2> QED
    BY <2>1, OtherFifoInv
<1>9. ASSUME NEW s \in Callers, NEW j \in Jobs, Call(s, j) PROVE FifoInv'
  BY <1>5, <1>9 DEF Call
<1>10. ASSUME NEW s \in Callers,
              \/ Lock(s) \/ TryCheck(s) \/ CtxCheck(s) \/ CtxExpire(s) \/ CtxBackoff(s)
              \/ ScaleLoad(s) \/ ScaleLen(s) \/ ScaleAdd(s) \/ ScaleUndo(s)
       PROVE  FifoInv'
  BY <1>5, <1>10 DEF Lock, TryCheck, CtxCheck, CtxExpire, CtxBackoff, ScaleLoad, ScaleLen,
                     ScaleAdd, ScaleUndo
<1>11. ASSUME NEW c \in Closers, CloseCall(c) \/ Once(c) \/ CloseCh(c) \/ WaitReturn(c)
       PROVE  FifoInv'
  BY <1>5, <1>11 DEF CloseCall, Once, CloseCh, WaitReturn
<1>12. CASE UNCHANGED vars
  BY <1>5, <1>12 DEF vars
<1> QED
  BY <1>1, <1>2, <1>3, <1>4, <1>6, <1>7, <1>8, <1>9, <1>10, <1>11, <1>12
     DEF Next, LoopStep, ScaleStep, TryStep, CtxStep, CloseStep, Terminated

-----------------------------------------------------------------------------
(* A job is named once: it is the call of one caller, is accepted once and *)
(* runs in one worker.  Unlike in WorkerPool a caller keeps its job after  *)
(* the send, until maybeScaleUp has returned.                              *)

Asking(s) == pc[s] \in {"check", "lock", "send", "backoff"}

JobsDistinct ==
  /\ IsInjective(accepted)
  /\ \A s \in Callers : Asking(s) => call[s] \notin Range(accepted)
  /\ \A s, t \in Callers : call[s] # None /\ call[s] = call[t] => s = t

RunInv ==
  /\ \A w \in Slots : task[w] # None <=> worker[w] = "run"
  /\ \A w \in Slots : task[w] # None => task[w] \in Range(started)
  /\ \A v, w \in Slots : task[v] # None /\ task[v] = task[w] => v = w

\* What the proofs of the following invariants start from.
JobInv == TypeOK /\ FifoInv /\ JobsDistinct /\ RunInv

LEMMA JobInvInit == Init => JobInv
<1> SUFFICES ASSUME Init PROVE JobInv
  OBVIOUS
<1>1. FifoInv
  <2>1. <<>> \o <<>> = <<>>
    OBVIOUS
  <2>2. Parked = {}
    BY DEF Init, Parked
  <2>3. accepted = started \o queue
    BY <2>1 DEF Init
  <2> QED
    BY <2>2, <2>3 DEF FifoInv, ParkInv, FifoConservation
<1>2. JobsDistinct
  <2>1. IsInjective(accepted)
    BY DEF Init, IsInjective
  <2>2. \A s \in Callers : pc[s] = "idle" /\ call[s] = None
    BY DEF Init
  <2> QED
    BY <2>1, <2>2 DEF JobsDistinct, Asking
<1>3. RunInv
  <2>1. \A w \in Slots : task[w] = None /\ worker[w] # "run"
    BY DEF Init
  <2> QED
    BY <2>1 DEF RunInv
<1> QED
  BY <1>1, <1>2, <1>3, TypeInit DEF JobInv

LEMMA OtherJobsDistinct ==
  ASSUME JobsDistinct, UNCHANGED accepted,
         \A s \in Callers : /\ call'[s] \in {call[s], None}
                            /\ Asking(s)' => Asking(s) /\ call'[s] = call[s]
  PROVE  JobsDistinct'
BY DEF JobsDistinct

\* A caller that returns or goes on, and asks for its job only if it did before.
LEMMA MoveJobsDistinct ==
  ASSUME TypeOK, JobsDistinct, UNCHANGED accepted, NEW s \in Callers,
         \/ Return(s)
         \/ \E step \in Steps : /\ GoTo(s, step)
                                /\ Asking(s) \/ step \notin {"check", "lock", "send", "backoff"}
  PROVE  JobsDistinct'
<1>1. \A t \in Callers : t # s => call'[t] = call[t] /\ pc'[t] = pc[t]
  BY DEF Return, GoTo, TypeOK
<1>2. call'[s] \in {call[s], None} /\ (Asking(s)' => Asking(s) /\ call'[s] = call[s])
  BY DEF Return, GoTo, TypeOK, Asking
<1> QED
  BY <1>1, <1>2, OtherJobsDistinct DEF Asking

LEMMA OtherRunInv ==
  ASSUME RunInv, UNCHANGED <<task, started>>,
         \A w \in Slots : worker'[w] = "run" <=> worker[w] = "run"
  PROVE  RunInv'
BY DEF RunInv

LEMMA StartRunInv ==
  ASSUME TypeOK, RunInv, NEW w \in Slots, worker[w] # "run",
         NEW j \in Jobs, j \notin Range(started), StartJob(w, j)
  PROVE  RunInv'
<1>1. task' = [task EXCEPT ![w] = j] /\ worker' = [worker EXCEPT ![w] = "run"]
  BY DEF StartJob, Resume
<1>2. Range(started') = Range(started) \cup {j}
  BY AppendFresh DEF StartJob, TypeOK
<1>3. j # None
  BY DynPoolAssumption
<1>4. \A v \in Slots : v # w => task'[v] = task[v] /\ worker'[v] = worker[v] /\ task[v] # j
  BY <1>1, <1>3 DEF TypeOK, RunInv
<1>5. task'[w] = j /\ worker'[w] = "run"
  BY <1>1 DEF TypeOK
<1> QED
  BY <1>2, <1>3, <1>4, <1>5 DEF RunInv

LEMMA StartedAccepted ==
  ASSUME TypeOK, FifoInv
  PROVE  Range(started) \subseteq Range(accepted)
BY PartOfHistory DEF TypeOK, FifoInv, FifoConservation

LEMMA SendDistinct ==
  ASSUME JobInv, NEW s \in Callers, pc[s] = "send", Send(call[s]), GoTo(s, "load")
  PROVE  JobsDistinct'
<1> USE DEF JobInv
<1>1. call[s] \in Jobs /\ call[s] \notin Range(accepted) /\ IsInjective(accepted)
  BY DEF TypeOK, JobsDistinct, Asking
<1>2. accepted \in Seq(Jobs) /\ accepted' = Append(accepted, call[s])
  BY DEF Send, TypeOK
<1>3. IsInjective(accepted') /\ Range(accepted') = Range(accepted) \cup {call[s]}
  BY <1>1, <1>2, AppendFresh
<1>4. UNCHANGED call /\ pc'[s] = "load" /\ \A t \in Callers : t # s => pc'[t] = pc[t]
  BY DEF GoTo, TypeOK
<1>5. \A t \in Callers : t # s => call[t] # call[s]
  BY <1>1, DynPoolAssumption DEF JobsDistinct
<1>6. \A t \in Callers : Asking(t)' => t # s /\ Asking(t)
  BY <1>4 DEF Asking
<1> QED
  BY <1>3, <1>4, <1>5, <1>6 DEF JobsDistinct

LEMMA SendRunInv ==
  ASSUME JobInv, NEW s \in Callers, pc[s] = "send", Send(call[s])
  PROVE  RunInv'
<1>1. call[s] \in Jobs /\ call[s] \notin Range(started)
  BY StartedAccepted DEF JobInv, TypeOK, JobsDistinct, Asking
<1>2. CASE \E w \in Parked : StartJob(w, call[s])
  <2>1. PICK w \in Parked : StartJob(w, call[s])
    BY <1>2
  <2>2. w \in Slots /\ worker[w] = "parked"
    BY DEF Parked
  <2> QED
    BY <1>1, <2>1, <2>2, StartRunInv DEF JobInv
<1>3. CASE UNCHANGED <<worker, task, started>>
  BY <1>3, OtherRunInv DEF JobInv
<1> QED
  BY <1>2, <1>3 DEF Send

LEMMA JobsDistinctNext ==
  ASSUME JobInv, [Next]_vars
  PROVE  JobsDistinct'
<1> USE DEF JobInv
<1>1. ASSUME UNCHANGED <<accepted, pc, call>> PROVE JobsDistinct'
  BY <1>1, OtherJobsDistinct DEF Asking
<1>2. ASSUME NEW w \in Slots,
             LoopStep(w) \/ WorkerTake(w) \/ WorkerStop(w) \/ JobReturn(w) \/ IdleFire(w)
      PROVE  JobsDistinct'
  BY <1>1, <1>2 DEF LoopStep, WorkerPark, DecWorker, ReapLoad, ReapSwap, WorkerDone, WorkerTake,
                    WorkerStop, JobReturn, IdleFire, callVars
<1>3. ASSUME NEW s \in Callers, NEW j \in Jobs, Call(s, j) PROVE JobsDistinct'
  <2>1. /\ call'[s] = j /\ j # None
        /\ \A t \in Callers : t # s => call'[t] = call[t] /\ pc'[t] = pc[t]
    BY <1>3, DynPoolAssumption DEF Call, TypeOK
  <2>2. accepted' = accepted /\ j \notin Range(accepted) /\ \A t \in Callers : call[t] # j
    BY <1>3 DEF Call, workVars, Fresh
  <2>3. \A t \in Callers : Asking(t)' => t = s \/ Asking(t)
    BY <2>1 DEF Asking
  <2> QED
    BY <2>1, <2>2, <2>3 DEF JobsDistinct
<1>4. ASSUME NEW s \in Callers, Lock(s) \/ TryCheck(s) \/ CtxCheck(s) \/ CtxBackoff(s)
      PROVE  JobsDistinct'
  <2>1. Return(s) \/ \E step \in Steps : GoTo(s, step) /\ Asking(s)
    BY <1>4 DEF Lock, TryCheck, CtxCheck, CtxBackoff, Asking, Steps
  <2>2. UNCHANGED accepted
    BY <1>4 DEF Lock, TryCheck, CtxCheck, CtxBackoff, workVars
  <2> QED
    BY <2>1, <2>2, MoveJobsDistinct
<1>5. ASSUME NEW s \in Callers, TrySend(s) \/ CtxSend(s) PROVE JobsDistinct'
  <2>1. CASE Send(call[s]) /\ GoTo(s, "load")
    BY <1>5, <2>1, SendDistinct DEF TrySend, CtxSend
  <2>2. CASE UNCHANGED workVars /\ (Return(s) \/ GoTo(s, "backoff"))
    <3>1. UNCHANGED accepted /\ Asking(s) /\ "backoff" \in Steps
      BY <1>5, <2>2 DEF TrySend, CtxSend, workVars, Asking, Steps
    <3> QED
      BY <2>2, <3>1, MoveJobsDistinct
  <2> QED
    BY <1>5, <2>1, <2>2 DEF TrySend, CtxSend
<1>6. ASSUME NEW s \in Callers, ScaleStep(s) PROVE JobsDistinct'
  <2>1. \/ Return(s)
        \/ \E step \in Steps : /\ GoTo(s, step)
                               /\ step \notin {"check", "lock", "send", "backoff"}
    BY <1>6 DEF ScaleStep, ScaleLoad, ScaleLen, ScaleAdd, ScaleSpawn, ScaleUndo, Finish, Steps
  <2>2. UNCHANGED accepted
    BY <1>6 DEF ScaleStep, ScaleLoad, ScaleLen, ScaleAdd, ScaleSpawn, ScaleUndo, workVars
  <2> QED
    BY <2>1, <2>2, MoveJobsDistinct
<1>7. ASSUME NEW s \in Callers, CtxExpire(s) PROVE JobsDistinct'
  BY <1>1, <1>7 DEF CtxExpire, workVars
<1>8. ASSUME NEW c \in Closers, CloseCall(c) \/ CloseStep(c) \/ CloseQueue(c)
      PROVE  JobsDistinct'
  <2>1. UNCHANGED <<accepted, call>>
    BY <1>8 DEF CloseCall, CloseStep, Once, CloseCh, Cancel, WaitReturn, CloseQueue, GoTo, workVars
  <2>2. \A s \in Callers : pc'[s] = pc[s]
    BY <1>8, DynPoolAssumption
       DEF CloseCall, CloseStep, Once, CloseCh, Cancel, WaitReturn, CloseQueue, GoTo, TypeOK
  <2> QED
    BY <2>1, <2>2, OtherJobsDistinct DEF Asking
<1>9. CASE UNCHANGED vars
  BY <1>1, <1>9 DEF vars, callVars, workVars
<1> QED
  BY <1>2, <1>3, <1>4, <1>5, <1>6, <1>7, <1>8, <1>9 DEF Next, TryStep, CtxStep, Terminated

LEMMA RunInvNext ==
  ASSUME JobInv, [Next]_vars
  PROVE  RunInv'
<1> USE DEF JobInv
<1>1. ASSUME NEW w \in Slots, WorkerTake(w) PROVE RunInv'
  <2>1. Head(queue) \in Jobs /\ Head(queue) \notin Range(started)
    BY <1>1, NextToStart DEF WorkerTake, TypeOK, FifoInv, FifoConservation, JobsDistinct
  <2> QED
    BY <1>1, <2>1, StartRunInv DEF WorkerTake
<1>2. ASSUME NEW w \in Slots, WorkerPark(w) \/ WorkerStop(w) \/ IdleFire(w) \/ DecWorker(w)
      PROVE  RunInv'
  <2>1. \A v \in Slots : worker'[v] = "run" <=> worker[v] = "run"
    BY <1>2 DEF WorkerPark, WorkerStop, IdleFire, DecWorker, Resume, TypeOK
  <2> QED
    BY <1>2, <2>1, OtherRunInv DEF WorkerPark, WorkerStop, IdleFire, DecWorker
<1>3. ASSUME NEW w \in Slots, ReapLoad(w) \/ ReapSwap(w) \/ WorkerDone(w) PROVE RunInv'
  <2>1. \A v \in Slots : worker'[v] = "run" <=> worker[v] = "run"
    BY <1>3 DEF ReapLoad, ReapSwap, WorkerDone, Resume, TypeOK
  <2> QED
    BY <1>3, <2>1, OtherRunInv DEF ReapLoad, ReapSwap, WorkerDone
<1>4. ASSUME NEW w \in Slots, JobReturn(w) PROVE RunInv'
  <2>1. /\ task'[w] = None /\ worker'[w] = "select" /\ UNCHANGED started
        /\ \A v \in Slots : v # w => task'[v] = task[v] /\ worker'[v] = worker[v]
    BY <1>4 DEF JobReturn, Resume, TypeOK
  <2> QED
    BY <2>1 DEF RunInv
<1>5. ASSUME UNCHANGED workVars PROVE RunInv'
  BY <1>5, OtherRunInv DEF workVars
<1>6. ASSUME NEW s \in Callers, TrySend(s) \/ CtxSend(s) PROVE RunInv'
  BY <1>5, <1>6, SendRunInv DEF TrySend, CtxSend
<1>7. ASSUME NEW s \in Callers, ScaleSpawn(s) PROVE RunInv'
  <2>1. \A v \in Slots : worker'[v] = "run" <=> worker[v] = "run"
    BY <1>7 DEF ScaleSpawn, Resume, TypeOK
  <2> QED
    BY <1>7, <2>1, OtherRunInv DEF ScaleSpawn
<1>8. ASSUME NEW s \in Callers, NEW j \in Jobs, Call(s, j) PROVE RunInv'
  BY <1>5, <1>8 DEF Call
<1>9. ASSUME NEW s \in Callers,
             \/ Lock(s) \/ TryCheck(s) \/ CtxCheck(s) \/ CtxExpire(s) \/ CtxBackoff(s)
             \/ ScaleLoad(s) \/ ScaleLen(s) \/ ScaleAdd(s) \/ ScaleUndo(s)
      PROVE  RunInv'
  BY <1>5, <1>9 DEF Lock, TryCheck, CtxCheck, CtxExpire, CtxBackoff, ScaleLoad, ScaleLen,
                    ScaleAdd, ScaleUndo
<1>10. ASSUME NEW c \in Closers, Cancel(c) \/ CloseQueue(c) PROVE RunInv'
  <2>1. UNCHANGED <<task, started>>
    BY <1>10 DEF Cancel, CloseQueue
  <2>2. \A w \in Slots : worker'[w] = "run" <=> worker[w] = "run"
    BY <1>10 DEF Cancel, CloseQueue, WakeParked, Parked, TypeOK
  <2> QED
    BY <2>1, <2>2, OtherRunInv
<1>11. ASSUME NEW c \in Closers, CloseCall(c) \/ Once(c) \/ CloseCh(c) \/ WaitReturn(c)
       PROVE  RunInv'
  BY <1>5, <1>11 DEF CloseCall, Once, CloseCh, WaitReturn
<1>12. CASE UNCHANGED vars
  BY <1>5, <1>12 DEF vars
<1> QED
  BY <1>1, <1>2, <1>3, <1>4, <1>6, <1>7, <1>8, <1>9, <1>10, <1>11, <1>12
     DEF Next, LoopStep, ScaleStep, TryStep, CtxStep, CloseStep, Terminated

\* What of the refinement holds for callers of both kinds.
RefInv == JobInv /\ CloseInv /\ CounterExact

LEMMA RefInvInit == Init => RefInv
BY JobInvInit, CloseInvInit, CounterInit DEF RefInv

LEMMA RefInvNext == RefInv /\ [Next]_vars => RefInv'
<1> SUFFICES ASSUME RefInv, [Next]_vars PROVE RefInv'
  OBVIOUS
<1>1. CounterExact' /\ CloseInv'
  BY CounterNext, CloseInvNext DEF RefInv, CounterExact
<1>2. TypeOK'
  BY <1>1 DEF CounterExact
<1> QED
  BY <1>1, <1>2, FifoInvNext, JobsDistinctNext, RunInvNext DEF RefInv, JobInv

\* Whoever submits, and however often the pool is scaled up or reaped in between: the
\* jobs accepted are those started followed by those buffered, so none is lost, started
\* twice or overtaken.
THEOREM Fifo == Spec => [](FifoConservation /\ IsInjective(accepted))
<1>1. RefInv => FifoConservation /\ IsInjective(accepted)
  BY DEF RefInv, JobInv, FifoInv, JobsDistinct
<1> QED
  BY <1>1, RefInvInit, RefInvNext, PTL DEF Spec

-----------------------------------------------------------------------------
(* The pool implements the abstract executor when submissions go through   *)
(* TrySubmit: then no worker is live after a Wait, as Executor's Start     *)
(* demands.  The hard cap gives the bound on the jobs that run at a time.  *)

Finished == {j \in Range(started) : \A w \in Slots : task[w] # j}
Stopped == \E c \in Closers : pc[c] = "waited"

\* The library operators of the instance are those of this module.
LEMMA SameOperators ==
  ASSUME NEW S
  PROVE  Abstract!Cardinality(S) = Cardinality(S) /\ Abstract!Range(S) = Range(S)
<1>1. Abstract!Cardinality(S) = Cardinality(S)
  BY DEF Abstract!Cardinality, Cardinality
<1>2. Abstract!Range(S) = Range(S)
  BY DEF Abstract!Range, Range
<1> QED
  BY <1>1, <1>2

LEMMA RunningIs == Abstract!Running = Range(started) \ Finished
BY SameOperators DEF Abstract!Running, Finished

\* While a counted worker is not running a job, one more job may run.
LEMMA RoomToRun ==
  ASSUME RefInv, HardCap, NEW w \in Counted, worker[w] # "run"
  PROVE  Abstract!Cardinality(Abstract!Running) < MaxWorkers
<1> DEFINE R == Range(started) \ Finished
           others == Counted \ {w}
           runner == [j \in R |-> CHOOSE v \in Slots : task[v] = j]
<1>1. ASSUME NEW j \in R
      PROVE  runner[j] \in others /\ task[runner[j]] = j
  <2>1. \E v \in Slots : task[v] = j
    BY DEF Finished
  <2>2. runner[j] \in Slots /\ task[runner[j]] = j
    BY <2>1
  <2>3. j # None
    BY DynPoolAssumption DEF RefInv, JobInv, TypeOK, Range
  <2>4. worker[runner[j]] = "run"
    BY <2>2, <2>3 DEF RefInv, JobInv, RunInv
  <2> QED
    BY <2>2, <2>4 DEF Counted
<1>2. runner \in Injection(R, others)
  BY <1>1 DEF Injection, IsInjective
<1>3. IsFiniteSet(others) /\ Cardinality(others) = Cardinality(Counted) - 1
  BY Finite, FS_RemoveElement
<1> HIDE DEF R, others, runner
<1>4. IsFiniteSet(R) /\ Cardinality(R) <= Cardinality(others)
  BY <1>2, <1>3, FS_Injection
<1>5. Cardinality(R) \in Nat
  BY <1>4, FS_CardinalityType
<1>6. Cardinality(Counted) <= MaxWorkers
  BY Finite, DynPoolAssumption DEF HardCap
<1>7. Abstract!Cardinality(Abstract!Running) = Cardinality(R)
  BY RunningIs, SameOperators, Zenon DEF R
<1> QED
  BY <1>3, <1>4, <1>5, <1>6, <1>7, Finite, DynPoolAssumption

\* A started job joins those that run; the finished ones stay finished.
LEMMA StartFinished ==
  ASSUME TypeOK, NEW w \in Slots, task[w] = None,
         NEW j \in Jobs, j \notin Range(started), StartJob(w, j)
  PROVE  Finished' = Finished
<1>1. Range(started') = Range(started) \cup {j}
  BY AppendFresh DEF StartJob, TypeOK
<1>2. task'[w] = j /\ \A v \in Slots : v # w => task'[v] = task[v]
  BY DEF StartJob, TypeOK
<1>3. None \notin Range(started)
  BY DynPoolAssumption DEF TypeOK, Range
<1>4. ASSUME NEW i \in Range(started)
      PROVE  (\A v \in Slots : task'[v] # i) <=> (\A v \in Slots : task[v] # i)
  BY <1>2, <1>3
<1> QED
  BY <1>1, <1>2, <1>4 DEF Finished

\* Steps that leave the jobs and the intake alone are stutters of the executor.
LEMMA Stutter ==
  ASSUME UNCHANGED <<accepted, started, queueClosed>>, Finished' = Finished, Stopped' = Stopped
  PROVE  [Abstract!Next]_(Abstract!vars)
BY DEF Abstract!vars, Finished, Stopped

LEMMA TakeIsStart ==
  ASSUME RefInv, HardCap, StoppedAfterWait, NEW w \in Slots, WorkerTake(w)
  PROVE  Abstract!Start
<1> USE DEF RefInv, JobInv
<1>1. ~Stopped /\ Stopped' = Stopped
  <2>1. w \in Live
    BY DEF WorkerTake, Live
  <2> QED
    BY <2>1 DEF WorkerTake, callVars, Stopped, StoppedAfterWait
<1>2. /\ Head(queue) \in Jobs /\ Head(queue) \notin Range(started)
      /\ Len(started) < Len(accepted) /\ accepted[Len(started) + 1] = Head(queue)
  BY NextToStart DEF WorkerTake, TypeOK, FifoInv, FifoConservation, JobsDistinct
<1>3. Abstract!Cardinality(Abstract!Running) < MaxWorkers
  <2>1. w \in Counted /\ worker[w] # "run"
    BY DEF WorkerTake, Counted
  <2> QED
    BY <2>1, RoomToRun
<1>4. task[w] = None
  BY DEF WorkerTake, RunInv
<1>5. Finished' = Finished
  BY <1>2, <1>4, StartFinished DEF WorkerTake
<1>6. /\ started' = Append(started, accepted[Len(started) + 1])
      /\ UNCHANGED <<accepted, queueClosed>>
  BY <1>2 DEF WorkerTake, StartJob, intakeVars
<1> QED
  BY <1>1, <1>2, <1>3, <1>5, <1>6 DEF Abstract!Start, Finished, Stopped

LEMMA ReturnIsFinish ==
  ASSUME RefInv, NEW w \in Slots, JobReturn(w), NEW j \in Jobs, j = task[w]
  PROVE  Abstract!Finish(j)
<1> USE DEF RefInv, JobInv
<1>1. j # None /\ j \in Range(started)
  BY DEF JobReturn, RunInv
<1>2. j \in Range(started) \ Finished
  BY <1>1 DEF Finished
<1>3. task'[w] = None /\ \A v \in Slots : v # w => task'[v] = task[v]
  BY DEF JobReturn, TypeOK
<1>4. None \notin Range(started)
  BY DynPoolAssumption DEF TypeOK, Range
<1>5. \A v \in Slots : v # w => task[v] # j
  BY <1>1 DEF RunInv
<1>6. Finished' = Finished \cup {j}
  <2>1. UNCHANGED started
    BY DEF JobReturn
  <2>2. ASSUME NEW i \in Range(started)
        PROVE  (\A v \in Slots : task'[v] # i) <=> (\A v \in Slots : task[v] # i) \/ i = j
    BY <1>3, <1>4, <1>5
  <2> QED
    BY <1>1, <2>1, <2>2 DEF Finished
<1>7. UNCHANGED <<accepted, started, queueClosed>> /\ Stopped' = Stopped
  BY DEF JobReturn, intakeVars, callVars, Stopped
<1> QED
  BY <1>2, <1>6, <1>7, RunningIs DEF Abstract!Finish, Finished, Stopped

LEMMA SendIsAccept ==
  ASSUME RefInv, HardCap, StoppedAfterWait, NEW s \in Callers, pc[s] = "send", Send(call[s]),
         UNCHANGED queueClosed, Stopped' = Stopped, NEW j \in Jobs, j = call[s]
  PROVE  Abstract!HandOff(j) \/ Abstract!Accept(j)
<1> USE DEF RefInv, JobInv
<1>1. ~queueClosed
  BY DEF CloseInv, NoChannelPanic
<1>2. j \notin Range(accepted) /\ j \notin Range(started)
  BY StartedAccepted DEF JobsDistinct, Asking
<1>3. accepted' = Append(accepted, j)
  BY DEF Send
<1>4. CASE \E w \in Parked : StartJob(w, j)
  <2>1. PICK w \in Parked : StartJob(w, j)
    BY <1>4
  <2>2. w \in Slots /\ worker[w] = "parked" /\ task[w] = None /\ queue = <<>>
    BY DEF Parked, FifoInv, ParkInv, RunInv
  <2>3. accepted = started
    BY <2>2, ConcatEmptySeq DEF FifoInv, FifoConservation, TypeOK
  <2>4. Abstract!Cardinality(Abstract!Running) < MaxWorkers
    <3>1. w \in Counted
      BY <2>2 DEF Counted
    <3> QED
      BY <2>2, <3>1, RoomToRun
  <2>5. Finished' = Finished /\ started' = Append(started, j)
    BY <1>2, <2>1, <2>2, StartFinished DEF StartJob
  <2>6. ~Stopped
    BY <2>2 DEF Stopped, StoppedAfterWait, Live
  <2> QED
    BY <1>1, <1>2, <1>3, <2>3, <2>4, <2>5, <2>6, SameOperators
       DEF Abstract!HandOff, Finished, Stopped
<1>5. CASE UNCHANGED <<worker, task, started>>
  <2>1. Finished' = Finished
    BY <1>5 DEF Finished
  <2> QED
    BY <1>1, <1>2, <1>3, <1>5, <2>1, SameOperators DEF Abstract!Accept, Finished, Stopped
<1> QED
  BY <1>4, <1>5 DEF Send

LEMMA CloseQueueIsClose ==
  ASSUME RefInv, NEW c \in Closers, CloseQueue(c)
  PROVE  Abstract!Close
<1>1. ~queueClosed
  BY DEF RefInv, CloseInv, NoChannelPanic, CloseQueue
<1>2. Finished' = Finished /\ UNCHANGED <<accepted, started>> /\ queueClosed'
  BY DEF CloseQueue, Finished
<1>3. Stopped' = Stopped
  BY DEF CloseQueue, GoTo, Stopped, RefInv, JobInv, TypeOK
<1> QED
  BY <1>1, <1>2, <1>3 DEF Abstract!Close, Finished, Stopped

LEMMA WaitReturnIsStop ==
  ASSUME RefInv, NEW c \in Closers, WaitReturn(c)
  PROVE  Abstract!Stop
<1>1. Range(started) \ Finished = {}
  <2>1. \A w \in Slots : task[w] = None
    BY DEF RefInv, JobInv, RunInv, WaitReturn, Live
  <2>2. None \notin Range(started)
    BY DynPoolAssumption DEF RefInv, JobInv, TypeOK, Range
  <2> QED
    BY <2>1, <2>2 DEF Finished
<1>2. Finished' = Finished /\ UNCHANGED <<accepted, started, queueClosed>>
  BY DEF WaitReturn, workVars, intakeVars, Finished
<1>3. Stopped'
  BY DEF WaitReturn, GoTo, Stopped, RefInv, JobInv, TypeOK
<1> QED
  BY <1>1, <1>2, <1>3, RunningIs DEF Abstract!Stop, Finished, Stopped

LEMMA RefStep ==
  RefInv /\ HardCap /\ StoppedAfterWait /\ [Next]_vars => [Abstract!Next]_(Abstract!vars)
<1> SUFFICES ASSUME RefInv, HardCap, StoppedAfterWait, [Next]_vars
             PROVE  [Abstract!Next]_(Abstract!vars)
  OBVIOUS
<1> USE DEF RefInv, JobInv
<1>1. ASSUME UNCHANGED <<accepted, started, task, queueClosed>>, Stopped' = Stopped
      PROVE  [Abstract!Next]_(Abstract!vars)
  BY <1>1, Stutter DEF Finished
<1>2. ASSUME NEW w \in Slots, WorkerTake(w) PROVE Abstract!Next
  BY <1>2, TakeIsStart DEF Abstract!Next
<1>3. ASSUME NEW w \in Slots, LoopStep(w) \/ WorkerStop(w) \/ IdleFire(w)
      PROVE  [Abstract!Next]_(Abstract!vars)
  BY <1>1, <1>3 DEF LoopStep, WorkerPark, DecWorker, ReapLoad, ReapSwap, WorkerDone, WorkerStop,
                    IdleFire, intakeVars, callVars, Stopped
<1>4. ASSUME NEW w \in Slots, JobReturn(w) PROVE Abstract!Next
  <2>1. task[w] \in Jobs
    BY <1>4 DEF JobReturn, RunInv, TypeOK
  <2>2. PICK j \in Jobs : j = task[w]
    BY <2>1
  <2>3. Abstract!Finish(j)
    BY <1>4, <2>2, ReturnIsFinish
  <2> QED
    BY <2>3 DEF Abstract!Next
<1>5. ASSUME NEW s \in Callers, NEW step, pc' = [pc EXCEPT ![s] = step]
      PROVE  Stopped' = Stopped
  <2>1. \A c \in Closers : pc'[c] = pc[c]
    BY <1>5, DynPoolAssumption DEF TypeOK
  <2> QED
    BY <2>1 DEF Stopped
<1>6. ASSUME NEW s \in Callers, NEW j \in Jobs, Call(s, j)
      PROVE  [Abstract!Next]_(Abstract!vars)
  BY <1>1, <1>5, <1>6 DEF Call, intakeVars, workVars
<1>7. ASSUME NEW s \in Callers,
             Lock(s) \/ TryCheck(s) \/ CtxCheck(s) \/ CtxBackoff(s) \/ ScaleStep(s)
      PROVE  [Abstract!Next]_(Abstract!vars)
  <2>1. UNCHANGED <<accepted, started, task, queueClosed>>
    BY <1>7 DEF Lock, TryCheck, CtxCheck, CtxBackoff, ScaleStep, ScaleLoad, ScaleLen, ScaleAdd,
                ScaleSpawn, ScaleUndo, intakeVars, workVars
  <2>2. \E step : pc' = [pc EXCEPT ![s] = step]
    BY <1>7 DEF Lock, TryCheck, CtxCheck, CtxBackoff, ScaleStep, ScaleLoad, ScaleLen, ScaleAdd,
                ScaleSpawn, ScaleUndo, Finish, Return, GoTo
  <2> QED
    BY <1>1, <1>5, <2>1, <2>2
<1>8. ASSUME NEW s \in Callers, CtxExpire(s) PROVE [Abstract!Next]_(Abstract!vars)
  BY <1>1, <1>8 DEF CtxExpire, intakeVars, workVars, Stopped
<1>9. ASSUME NEW s \in Callers, TrySend(s) \/ CtxSend(s) PROVE [Abstract!Next]_(Abstract!vars)
  <2>1. UNCHANGED queueClosed /\ pc[s] = "send" /\ call[s] \in Jobs
    BY <1>9 DEF TrySend, CtxSend, intakeVars, TypeOK
  <2>2. \E step : pc' = [pc EXCEPT ![s] = step]
    BY <1>9 DEF TrySend, CtxSend, Return, GoTo
  <2>3. Stopped' = Stopped
    BY <1>5, <2>2
  <2>4. CASE Send(call[s])
    <3>1. PICK j \in Jobs : j = call[s]
      BY <2>1
    <3>2. Abstract!HandOff(j) \/ Abstract!Accept(j)
      BY <2>1, <2>3, <2>4, <3>1, SendIsAccept
    <3> QED
      BY <3>2 DEF Abstract!Next
  <2>5. CASE UNCHANGED workVars
    BY <1>1, <2>1, <2>3, <2>5 DEF workVars
  <2> QED
    BY <1>9, <2>4, <2>5 DEF TrySend, CtxSend
<1>10. ASSUME NEW c \in Closers, CloseCall(c) \/ Once(c) \/ CloseCh(c) \/ Cancel(c)
       PROVE  [Abstract!Next]_(Abstract!vars)
  <2>1. UNCHANGED <<accepted, started, task, queueClosed>>
    BY <1>10 DEF CloseCall, Once, CloseCh, Cancel, intakeVars, workVars
  <2>2. \A d \in Closers : pc'[d] = "waited" <=> pc[d] = "waited"
    BY <1>10 DEF CloseCall, Once, CloseCh, Cancel, GoTo, TypeOK
  <2> QED
    BY <1>1, <2>1, <2>2 DEF Stopped
<1>11. ASSUME NEW c \in Closers, CloseQueue(c) \/ WaitReturn(c) PROVE Abstract!Next
  BY <1>11, CloseQueueIsClose, WaitReturnIsStop DEF Abstract!Next
<1>12. CASE UNCHANGED vars
  BY <1>1, <1>12 DEF vars, intakeVars, callVars, workVars, Stopped
<1> QED
  BY <1>2, <1>3, <1>4, <1>6, <1>7, <1>8, <1>9, <1>10, <1>11, <1>12
     DEF Next, TryStep, CtxStep, CloseStep, Terminated

\* With TrySubmit the dynamic pool keeps the promise of the abstract executor at every
\* size it takes: jobs are accepted once and only while the queue is open, start in the
\* order of acceptance, never more than maxWorkers at a time, and none starts or runs
\* after a Wait has returned.
THEOREM Implements ==
  ASSUME CtxCallers = {}
  PROVE  Spec => ImplementsExecutor
<1>1. Init => Abstract!Init
  <2> SUFFICES ASSUME Init PROVE Abstract!Init
    OBVIOUS
  <2>1. Finished = {}
    BY DEF Init, Finished, Range
  <2>2. ~Stopped
    BY DEF Init, Stopped
  <2> QED
    BY <2>1, <2>2 DEF Init, Abstract!Init, Finished, Stopped
<1> QED
  BY <1>1, RefInvInit, RefInvNext, RefStep, Capped, StoppedForGood, PTL
     DEF Spec, ImplementsExecutor, Abstract!Spec
=============================================================================
