----------------------------- MODULE RateLimit ------------------------------
(***************************************************************************)
(* The token bucket of scale/ratelimit/ratelimit.go.  WaitN refills the    *)
(* bucket for the time that has passed, takes its tokens if they are there *)
(* and otherwise sleeps, without the lock, until they should be.  Whoever  *)
(* wakes up starts again: sleepers are not served in any order.            *)
(*                                                                         *)
(* A tick is a nanosecond, the unit of time.Time and time.Duration, and    *)
(* tokens are counted in units of which a tick brings Rate and an event    *)
(* costs Cost: waits are whole ticks, and seldom what the deficit needs.   *)
(* The lock is held from the reading of the clock to the return or the     *)
(* sleep, which is therefore one action.                                   *)
(***************************************************************************)
EXTENDS Integers

CONSTANTS Callers,      (* goroutines that call WaitN                      *)
          Burst,        (* l.burst, in events                              *)
          Cost,         (* units of one event                              *)
          Rate,         (* l.rate, in units for each tick                  *)
          MaxDeadline,  (* bound: how far away a deadline is at most       *)
          MaxCalls      (* bound: how often each of them calls WaitN       *)

\* NewLimiter: a limiter without a rate has no burst either.
ASSUME RateAssumption ==
  /\ Burst \in Nat
  /\ Cost \in Nat \ {0}
  /\ Rate \in Nat
  /\ Rate = 0 => Burst = 0
  /\ MaxDeadline \in Nat
  /\ MaxCalls \in Nat

VARIABLES tokens,       (* l.tokens                                        *)
          elapsed,      (* what the time since l.last brings, up to a fill *)
          pc,           (* next step of each caller                        *)
          calls,        (* how often it has called                         *)
          want,         (* the units that it wants                         *)
          timer,        (* ticks until its timer fires                     *)
          left,         (* ticks until its deadline, -1 when that is past  *)
          cancelled,    (* its context is cancelled                        *)
          overtaken,    (* history: others were served while it slept      *)
          owed          (* history: units granted ahead of the rate        *)

bucketVars == <<tokens, elapsed, owed>>
callerVars == <<pc, calls, want, timer, left, cancelled, overtaken>>
vars == <<bucketVars, callerVars>>

Capacity == Burst * Cost

\* No deadline: a deadline that never comes closer and is beyond every wait.
Never == Capacity + MaxDeadline + 1

Init ==
  /\ tokens = Capacity
  /\ elapsed = 0
  /\ owed = 0
  /\ pc = [c \in Callers |-> "idle"]
  /\ calls = [c \in Callers |-> 0]
  /\ want = [c \in Callers |-> 0]
  /\ timer = [c \in Callers |-> 0]
  /\ left = [c \in Callers |-> Never]
  /\ cancelled = [c \in Callers |-> FALSE]
  /\ overtaken = [c \in Callers |-> FALSE]

AtMost(n, bound) == IF n > bound THEN bound ELSE n
AtLeast(n, bound) == IF n < bound THEN bound ELSE n

-----------------------------------------------------------------------------
(* advance: the tokens at this moment, kept with l.last = now.             *)

Uncapped == tokens + elapsed   \* mutant: max is not looked at

Available == AtMost(tokens + elapsed, Capacity)

Store(n) == tokens' = n /\ elapsed' = 0

GoTo(c, step) ==
  /\ pc' = [pc EXCEPT ![c] = step]
  /\ UNCHANGED <<calls, want, left, cancelled>>

Return(c) ==
  /\ pc' = [pc EXCEPT ![c] = "idle"]
  /\ want' = [want EXCEPT ![c] = 0]
  /\ left' = [left EXCEPT ![c] = Never]
  /\ cancelled' = [cancelled EXCEPT ![c] = FALSE]
  /\ UNCHANGED calls

\* A call for no events, for more than the burst or without a rate returns at once.
WaitN(c, n, deadline) ==
  /\ pc[c] = "idle"
  /\ calls[c] < MaxCalls
  /\ calls' = [calls EXCEPT ![c] = @ + 1]
  /\ IF n \in 1..Burst /\ Rate > 0
       THEN /\ pc' = [pc EXCEPT ![c] = "try"]
            /\ want' = [want EXCEPT ![c] = n * Cost]
            /\ left' = [left EXCEPT ![c] = deadline]
       ELSE UNCHANGED <<pc, want, left>>
  /\ UNCHANGED <<bucketVars, timer, cancelled, overtaken>>

\* The context is not looked at: a call whose context is done may still be served.
Grant(c) ==
  /\ pc[c] = "try"
  /\ Available >= want[c]
  /\ Store(Available - want[c])
  /\ owed' = owed + want[c]
  /\ Return(c)
  /\ overtaken' = [d \in Callers |-> pc[d] = "sleep"]
  /\ UNCHANGED timer

Deficit(c) == want[c] - Available

\* The predicted wait: what the deficit needs, to the nearest whole tick.
Predicted(c) == (2 * Deficit(c) + Rate) \div (2 * Rate)

Refuse(c) ==
  /\ pc[c] = "try"
  /\ Deficit(c) > 0
  /\ Predicted(c) > left[c]
  /\ Store(Available)
  /\ Return(c)
  /\ UNCHANGED <<owed, timer, overtaken>>

SleepShort(c) ==   \* mutant: the half is not added, so the wait is always rounded down
  /\ pc[c] = "try"
  /\ Deficit(c) > 0
  /\ Predicted(c) <= left[c]
  /\ Store(Available)
  /\ GoTo(c, "sleep")
  /\ timer' = [timer EXCEPT ![c] = Deficit(c) \div Rate]
  /\ UNCHANGED <<owed, overtaken>>

Sleep(c) ==
  /\ pc[c] = "try"
  /\ Deficit(c) > 0
  /\ Predicted(c) <= left[c]
  /\ Store(Available)
  /\ GoTo(c, "sleep")
  /\ timer' = [timer EXCEPT ![c] = Predicted(c)]
  /\ UNCHANGED <<owed, overtaken>>

GiveUpOnly(c) ==   \* mutant: the timer's case is missing
  /\ pc[c] = "sleep"
  /\ timer[c] = 0
  /\ cancelled[c] \/ left[c] <= 0
  /\ GoTo(c, "try")
  /\ overtaken' = [overtaken EXCEPT ![c] = FALSE]
  /\ UNCHANGED <<bucketVars, timer>>

Wake(c) ==   \* case <-timer.C
  /\ pc[c] = "sleep"
  /\ timer[c] = 0
  /\ GoTo(c, "try")
  /\ overtaken' = [overtaken EXCEPT ![c] = FALSE]
  /\ UNCHANGED <<bucketVars, timer>>

GiveUp(c) ==   \* case <-ctx.Done()
  /\ pc[c] = "sleep"
  /\ cancelled[c] \/ left[c] <= 0
  /\ Return(c)
  /\ timer' = [timer EXCEPT ![c] = 0]
  /\ overtaken' = [overtaken EXCEPT ![c] = FALSE]
  /\ UNCHANGED bucketVars

\* Before its deadline; later it would change nothing.
Cancel(c) ==
  /\ pc[c] # "idle"
  /\ ~cancelled[c] /\ left[c] > 0
  /\ cancelled' = [cancelled EXCEPT ![c] = TRUE]
  /\ UNCHANGED <<bucketVars, pc, calls, want, timer, left, overtaken>>

Tick ==
  /\ elapsed' = AtMost(elapsed + Rate, Capacity)
  /\ timer' = [c \in Callers |-> AtLeast(timer[c] - 1, 0)]
  /\ left' = [c \in Callers |-> IF left[c] = Never THEN Never ELSE AtLeast(left[c] - 1, -1)]
  /\ owed' = AtLeast(owed - Rate, 0)
  /\ UNCHANGED <<tokens, pc, calls, want, cancelled, overtaken>>

-----------------------------------------------------------------------------
Step(c) == Grant(c) \/ Refuse(c) \/ Sleep(c) \/ Wake(c) \/ GiveUp(c)

Next ==
  \/ \E c \in Callers :
       \/ \E n \in 0..Burst + 1, deadline \in 0..MaxDeadline \cup {Never} : WaitN(c, n, deadline)
       \/ Step(c)
       \/ Cancel(c)
  \/ Tick

Spec == Init /\ [][Next]_vars

\* Goroutines keep running and time goes on; nobody has to cancel anything.
Fairness == WF_vars(Tick) /\ \A c \in Callers : WF_vars(Step(c))

-----------------------------------------------------------------------------
(* Properties.                                                             *)

\* The variables keep their types and the bucket never holds more than the burst.
TypeOK ==
  /\ tokens \in 0..Capacity
  /\ elapsed \in 0..Capacity
  /\ pc \in [Callers -> {"idle", "try", "sleep"}]
  /\ calls \in [Callers -> 0..MaxCalls]
  /\ want \in [Callers -> 0..Capacity]
  /\ timer \in [Callers -> 0..Capacity]
  /\ left \in [Callers -> -1..Never]
  /\ cancelled \in [Callers -> BOOLEAN]
  /\ overtaken \in [Callers -> BOOLEAN]
  /\ owed \in Nat

\* The limiter admits exactly what its rate and its burst allow: what has been granted
\* ahead of the rate and what is still to be had add up to the burst.  So in any stretch
\* of time no more than the burst and the refill of that time is granted, and nothing
\* of it is withheld, however often and by whomever the bucket is refilled.
RateExact == owed + Available = Capacity

\* Waits are predicted to the nearest tick: a waiter that nobody overtakes wakes with less
\* than half a tick's refill still missing, and when its tokens have been there for half a
\* tick at most.  No waiter sleeps beyond its deadline.
WaitPredicted ==
  \A c \in Callers : pc[c] = "sleep" =>
    /\ timer[c] > 0 => timer[c] <= left[c]
    /\ \/ overtaken[c]
       \/ /\ 2 * Deficit(c) < (2 * timer[c] + 1) * Rate
          /\ timer[c] > 0 => 2 * Deficit(c) >= (2 * timer[c] - 1) * Rate

\* Although sleepers are overtaken by those who come later, a WaitN returns once no
\* new calls are made.
WaitReturns == \A c \in Callers : pc[c] # "idle" ~> pc[c] = "idle"
=============================================================================
