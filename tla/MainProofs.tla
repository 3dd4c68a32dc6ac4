----------------------------- MODULE MainProofs -----------------------------
(***************************************************************************)
(* Proofs about the small examples that main runs.  The limiter, for any   *)
(* callers, burst, rate and deadlines, as RateLimit specifies it: its      *)
(* types, the exact rate, and the predictions of the waits, all inductive  *)
(* given the types.  As parts of MainSpec: the monitor of                  *)
(* heartbeat_time.go raises no false alarm, and an operation of            *)
(* contextio_net.go times out for a context of its own direction.          *)
(***************************************************************************)
EXTENDS Main, TLAPS

(* The rate limiter.                                                       *)

LEMMA CapacityType == Capacity \in Nat /\ Never \in Nat /\ Never > Capacity
  BY RateAssumption DEF Capacity, Never

\* A request of no more than Burst events fits into the bucket.
LEMMA RequestFits ==
  ASSUME NEW n \in 1..Burst
  PROVE  n * Cost \in 0..Capacity
<1> DEFINE rest == Burst - n
<1>1. n \in Nat /\ rest \in Nat /\ Burst = n + rest
  BY RateAssumption
<1> HIDE DEF rest
<1>2. n * Cost \in Nat /\ rest * Cost \in Nat
  BY <1>1, RateAssumption
<1>3. Burst * Cost = n * Cost + rest * Cost
  BY <1>1, RateAssumption
<1> QED
  BY <1>2, <1>3 DEF Capacity

LEMMA AvailableType ==
  ASSUME TypeOK
  PROVE  Available \in 0..Capacity
  BY CapacityType DEF TypeOK, Available, AtMost

\* What a Store leaves is what is available next.
LEMMA Stored ==
  ASSUME TypeOK, NEW n \in 0..Capacity, Store(n)
  PROVE  Available' = n
  BY CapacityType DEF Store, Available, AtMost, Capacity

\* One tick brings the units of the rate, unless the bucket is full.
LEMMA Refill ==
  ASSUME TypeOK, Tick
  PROVE  Available' = AtMost(Available + Rate, Capacity)
<1>1. Capacity' = Capacity
  BY DEF Capacity
<1> QED
  BY <1>1, CapacityType, RateAssumption DEF TypeOK, Tick, Available, AtMost

\* What an integer division leaves is less than the divisor.
LEMMA Division ==
  ASSUME NEW a \in Nat, NEW b \in Nat \ {0}
  PROVE  b * (a \div b) <= a /\ a < b * (a \div b) + b
<1>1. b * (a \div b) <= a
  OBVIOUS
<1>2. a < b * (a \div b) + b
  OBVIOUS
<1> QED
  BY <1>1, <1>2

\* The wait for a deficit is within half a tick of what the deficit needs, and it is
\* no more ticks than units are missing, since a tick brings at least one unit.
LEMMA Rounded ==
  ASSUME NEW c \in Callers, TypeOK, Deficit(c) > 0
  PROVE  /\ Predicted(c) \in 0..Capacity
         /\ 2 * Deficit(c) < (2 * Predicted(c) + 1) * Rate
         /\ 2 * Deficit(c) >= (2 * Predicted(c) - 1) * Rate
<1> DEFINE d == Deficit(c)
           w == Predicted(c)
<1>1. d \in 1..Capacity
  BY AvailableType, CapacityType DEF Deficit, TypeOK
<1>2. Rate \in Nat \ {0}
  BY <1>1, RateAssumption DEF Capacity
<1>3. w = (2 * d + Rate) \div (2 * Rate)
  BY DEF Predicted
<1> HIDE DEF d, w
<1>4. w \in Nat
  BY <1>1, <1>2, <1>3, CapacityType
<1>5. (2 * Rate) * w <= 2 * d + Rate /\ 2 * d + Rate < (2 * Rate) * w + 2 * Rate
  <2>1. 2 * d + Rate \in Nat /\ 2 * Rate \in Nat \ {0}
    BY <1>1, <1>2, CapacityType
  <2> QED
    BY <1>3, <2>1, Division
<1>6. (2 * w + 1) * Rate = (2 * Rate) * w + Rate /\ (2 * w - 1) * Rate = (2 * Rate) * w - Rate
  BY <1>2, <1>4
<1>7. w <= d
  <2>1. SUFFICES ASSUME w >= d + 1 PROVE FALSE
    BY <1>1, <1>4, CapacityType
  <2>2. (w - 1) * Rate >= w - 1
    BY <1>2, <1>4, <2>1, <1>1, CapacityType
  <2>3. (2 * Rate) * w = 2 * ((w - 1) * Rate) + 2 * Rate
    BY <1>2, <1>4
  <2> QED
    BY <1>1, <1>2, <1>4, <1>5, <2>1, <2>2, <2>3, CapacityType
<1> QED
  BY <1>1, <1>2, <1>4, <1>5, <1>6, <1>7, CapacityType DEF d, w

\* The variables keep their types, for every value of the constants.
THEOREM TypeCorrect == Spec => []TypeOK
<1>1. Init => TypeOK
  BY CapacityType, RateAssumption DEF Init, TypeOK
<1>2. TypeOK /\ [Next]_vars => TypeOK'
  <2> SUFFICES ASSUME TypeOK, [Next]_vars PROVE TypeOK'
    OBVIOUS
  <2> USE CapacityType, AvailableType
  <2>1. ASSUME NEW c \in Callers, NEW n \in 0..Burst + 1,
               NEW dl \in 0..MaxDeadline \cup {Never}, WaitN(c, n, dl)
        PROVE  TypeOK'
    <3>1. n \in 1..Burst => n * Cost \in 0..Capacity
      BY RequestFits
    <3>2. dl \in -1..Never
      BY RateAssumption DEF Never
    <3>3. calls[c] + 1 \in 0..MaxCalls
      BY <2>1, RateAssumption DEF WaitN, TypeOK
    <3>4. CASE n \in 1..Burst /\ Rate > 0
      BY <2>1, <3>1, <3>2, <3>3, <3>4 DEF WaitN, bucketVars, TypeOK
    <3>5. CASE ~(n \in 1..Burst /\ Rate > 0)
      BY <2>1, <3>3, <3>5 DEF WaitN, bucketVars, TypeOK
    <3> QED
      BY <3>4, <3>5
  <2>2. ASSUME NEW c \in Callers, Grant(c) PROVE TypeOK'
    <3>1. Available - want[c] \in 0..Capacity /\ owed + want[c] \in Nat
      BY <2>2 DEF Grant, TypeOK
    <3> QED
      BY <2>2, <3>1 DEF Grant, Store, Return, TypeOK
  <2>3. ASSUME NEW c \in Callers, Refuse(c) PROVE TypeOK'
    BY <2>3 DEF Refuse, Store, Return, TypeOK
  <2>4. ASSUME NEW c \in Callers, Sleep(c) PROVE TypeOK'
    <3>1. Predicted(c) \in 0..Capacity
      BY <2>4, Rounded DEF Sleep
    <3> QED
      BY <2>4, <3>1 DEF Sleep, Store, GoTo, TypeOK
  <2>5. ASSUME NEW c \in Callers, Wake(c) \/ GiveUp(c) \/ Cancel(c) PROVE TypeOK'
    <3>1. CASE Wake(c)
      BY <3>1 DEF Wake, GoTo, bucketVars, TypeOK
    <3>2. CASE GiveUp(c)
      BY <3>2 DEF GiveUp, Return, bucketVars, TypeOK
    <3>3. CASE Cancel(c)
      BY <3>3 DEF Cancel, bucketVars, TypeOK
    <3> QED
      BY <2>5, <3>1, <3>2, <3>3
  <2>6. CASE Tick
    <3>1. elapsed' \in 0..Capacity /\ owed' \in Nat
      BY <2>6, RateAssumption DEF Tick, AtMost, AtLeast, TypeOK
    <3>2. \A c \in Callers : /\ AtLeast(timer[c] - 1, 0) \in 0..Capacity
                             /\ left[c] \in -1..Never
                             /\ AtLeast(left[c] - 1, -1) \in -1..Never
      BY DEF AtLeast, TypeOK
    <3> QED
      BY <2>6, <3>1, <3>2 DEF Tick, TypeOK
  <2>7. CASE UNCHANGED vars
    BY <2>7 DEF vars, bucketVars, callerVars, TypeOK
  <2> QED
    BY <2>1, <2>2, <2>3, <2>4, <2>5, <2>6, <2>7 DEF Next, Step
<1> QED
  BY <1>1, <1>2, PTL DEF Spec

-----------------------------------------------------------------------------
\* The units granted ahead of the rate and those still available add up to the burst,
\* for any number of callers.
THEOREM Exact == Spec => []RateExact
<1>1. Init => RateExact
  BY CapacityType DEF Init, RateExact, Available, AtMost
<1>2. TypeOK /\ RateExact /\ [Next]_vars => RateExact'
  <2> SUFFICES ASSUME TypeOK, RateExact, [Next]_vars PROVE RateExact'
    OBVIOUS
  <2> USE CapacityType, AvailableType
  <2>0. Capacity' = Capacity
    BY DEF Capacity
  <2>1. ASSUME UNCHANGED bucketVars PROVE RateExact'
    BY <2>0, <2>1 DEF bucketVars, RateExact, Available, AtMost
  <2>2. ASSUME NEW c \in Callers, Grant(c) PROVE RateExact'
    <3>1. Available - want[c] \in 0..Capacity
      BY <2>2 DEF Grant, TypeOK
    <3>2. Available' = Available - want[c]
      BY <2>2, <3>1, Stored DEF Grant
    <3> QED
      BY <2>0, <2>2, <3>2 DEF Grant, RateExact, TypeOK
  <2>3. ASSUME NEW c \in Callers, Refuse(c) \/ Sleep(c) PROVE RateExact'
    <3>1. Available' = Available
      BY <2>3, Stored DEF Refuse, Sleep
    <3> QED
      BY <2>0, <2>3, <3>1 DEF Refuse, Sleep, RateExact
  <2>4. CASE Tick
    BY <2>0, <2>4, Refill, RateAssumption DEF Tick, AtMost, AtLeast, RateExact, TypeOK
  <2> QED
    BY <2>1, <2>2, <2>3, <2>4
       DEF Next, Step, WaitN, Wake, GiveUp, Cancel, vars
<1> QED
  BY <1>1, <1>2, TypeCorrect, PTL DEF Spec

\* A waiter that is not overtaken wakes within half a tick of the moment when its units
\* are there, and none sleeps beyond its deadline, for any rate, burst and number of callers.
THEOREM Prediction == Spec => []WaitPredicted
<1>1. Init => WaitPredicted
  BY DEF Init, WaitPredicted
<1>2. TypeOK /\ WaitPredicted /\ [Next]_vars => WaitPredicted'
  <2> DEFINE Goal(d) ==
        /\ timer[d] > 0 => timer[d] <= left[d]
        /\ \/ overtaken[d]
           \/ /\ 2 * Deficit(d) < (2 * timer[d] + 1) * Rate
              /\ timer[d] > 0 => 2 * Deficit(d) >= (2 * timer[d] - 1) * Rate
  <2> SUFFICES ASSUME TypeOK, WaitPredicted, [Next]_vars,
                      NEW d \in Callers, pc'[d] = "sleep"
               PROVE  Goal(d)'
    BY DEF WaitPredicted
  <2> USE CapacityType, AvailableType, RateAssumption
  <2>a. pc[d] = "sleep" => Goal(d)
    BY DEF WaitPredicted
  <2>0. ASSUME pc[d] = "sleep", timer'[d] = timer[d], left'[d] = left[d],
               overtaken'[d] = overtaken[d], want'[d] = want[d], Available' = Available
        PROVE  Goal(d)'
    BY <2>0, <2>a DEF Deficit
  <2>1. ASSUME UNCHANGED <<tokens, elapsed>> PROVE Available' = Available
    BY <2>1 DEF Available, Capacity
  <2>2. ASSUME NEW c \in Callers, NEW n \in 0..Burst + 1,
               NEW dl \in 0..MaxDeadline \cup {Never}, WaitN(c, n, dl)
        PROVE  Goal(d)'
    <3>1. pc[d] = "sleep" /\ c # d /\ UNCHANGED <<timer, overtaken, tokens, elapsed>>
      BY <2>2 DEF WaitN, bucketVars, TypeOK
    <3>2. left'[d] = left[d] /\ want'[d] = want[d]
      BY <2>2, <3>1 DEF WaitN, TypeOK
    <3> QED
      BY <2>0, <2>1, <3>1, <3>2
  <2>3. ASSUME NEW c \in Callers, Grant(c) PROVE Goal(d)'
    <3>1. pc[d] = "sleep" /\ left'[d] = left[d] /\ timer'[d] = timer[d] /\ overtaken'[d]
      BY <2>3 DEF Grant, Return, TypeOK
    <3> QED
      BY <2>a, <3>1
  <2>4. ASSUME NEW c \in Callers, Refuse(c) PROVE Goal(d)'
    <3>1. Available' = Available
      BY <2>4, Stored DEF Refuse
    <3> QED
      BY <2>0, <2>4, <3>1 DEF Refuse, Return, TypeOK
  <2>5. ASSUME NEW c \in Callers, Sleep(c) PROVE Goal(d)'
    <3>1. Available' = Available
      BY <2>5, Stored DEF Sleep
    <3>2. CASE d = c
      <4>1. /\ Predicted(d) \in 0..Capacity
            /\ 2 * Deficit(d) < (2 * Predicted(d) + 1) * Rate
            /\ 2 * Deficit(d) >= (2 * Predicted(d) - 1) * Rate
        BY <2>5, <3>2, Rounded DEF Sleep
      <4>2. timer'[d] = Predicted(d) /\ left'[d] = left[d] /\ Predicted(d) <= left[d]
        BY <2>5, <3>2 DEF Sleep, GoTo, TypeOK
      <4>3. Deficit(d)' = Deficit(d)
        BY <2>5, <3>1 DEF Sleep, GoTo, Deficit
      <4> QED
        BY <4>1, <4>2, <4>3
    <3>3. CASE d # c
      BY <2>0, <2>5, <3>1, <3>3 DEF Sleep, GoTo, TypeOK
    <3> QED
      BY <3>2, <3>3
  <2>6. ASSUME NEW c \in Callers, Wake(c) \/ GiveUp(c) PROVE Goal(d)'
    <3>1. /\ pc[d] = "sleep" /\ c # d /\ UNCHANGED <<tokens, elapsed>>
          /\ timer'[d] = timer[d] /\ left'[d] = left[d]
          /\ overtaken'[d] = overtaken[d] /\ want'[d] = want[d]
      BY <2>6 DEF Wake, GiveUp, GoTo, Return, bucketVars, TypeOK
    <3> QED
      BY <2>0, <2>1, <3>1
  <2>7. ASSUME NEW c \in Callers, Cancel(c) PROVE Goal(d)'
    BY <2>0, <2>1, <2>7 DEF Cancel, bucketVars, TypeOK
  <2>8. CASE Tick
    <3>1. /\ pc[d] = "sleep"
          /\ timer[d] \in Nat /\ left[d] \in -1..Never /\ want[d] \in 0..Capacity
          /\ timer'[d] = AtLeast(timer[d] - 1, 0)
          /\ left'[d] = IF left[d] = Never THEN Never ELSE AtLeast(left[d] - 1, -1)
          /\ overtaken'[d] = overtaken[d] /\ want'[d] = want[d]
      BY <2>8 DEF Tick, TypeOK
    <3>2. timer'[d] > 0 => timer'[d] <= left'[d]
      BY <2>a, <3>1 DEF AtLeast, TypeOK
    <3>3. Available' = AtMost(Available + Rate, Capacity)
      BY <2>8, Refill
    <3>4. Deficit(d) \in Int /\ Deficit(d)' \in Int
      BY <3>1, <3>3 DEF Deficit, AtMost
    <3>5. Deficit(d)' <= Deficit(d) /\ (Deficit(d) <= 0 => Deficit(d)' <= 0)
      BY <3>1, <3>3 DEF Deficit, AtMost
    <3>6. Deficit(d) >= Rate => Deficit(d)' = Deficit(d) - Rate
      BY <3>1, <3>3 DEF Deficit, AtMost
    <3>7. Deficit(d) <= Rate => Deficit(d)' <= 0
      BY <3>1, <3>3 DEF Deficit, AtMost
    <3> DEFINE t == timer[d]
               D == Deficit(d)
               E == Deficit(d)'
    <3>8. SUFFICES ASSUME ~overtaken[d]
                   PROVE  /\ 2 * E < (2 * timer'[d] + 1) * Rate
                          /\ timer'[d] > 0 => 2 * E >= (2 * timer'[d] - 1) * Rate
      BY <3>1, <3>2
    <3>9. /\ 2 * D < (2 * t + 1) * Rate
          /\ t > 0 => 2 * D >= (2 * t - 1) * Rate
      BY <2>a, <3>1, <3>8
    <3>10. CASE t = 0
      BY <3>1, <3>4, <3>5, <3>9, <3>10 DEF AtLeast
    <3>11. CASE t > 0
      <4>1. timer'[d] = t - 1
        BY <3>1, <3>11 DEF AtLeast
      <4> HIDE DEF t, D, E
      <4>2. t \in Nat /\ D \in Int /\ E \in Int
        BY <3>1, <3>4 DEF t, D, E
      <4>3. /\ (2 * t + 1) * Rate = 2 * (t * Rate) + Rate
            /\ (2 * t - 1) * Rate = 2 * (t * Rate) - Rate
            /\ (2 * (t - 1) + 1) * Rate = 2 * (t * Rate) - Rate
            /\ (2 * (t - 1) - 1) * Rate = 2 * (t * Rate) - 3 * Rate
        BY <4>2
      <4>4. t >= 2 => t * Rate >= 2 * Rate
        BY <4>2
      <4>5. t = 1 => t * Rate = Rate
        BY <4>2
      <4>6. D <= Rate => E <= 0
        BY <3>7 DEF D, E
      <4>7. D >= Rate => E = D - Rate
        BY <3>6 DEF D, E
      <4>8. Rate > 0
        BY <3>9, <4>2, <4>3, <3>11 DEF t
      <4>9. CASE t = 1
        BY <3>9, <3>11, <4>1, <4>2, <4>3, <4>5, <4>6, <4>7, <4>8, <4>9
      <4>10. CASE t >= 2
        <5>1. D >= Rate
          BY <3>9, <4>2, <4>3, <4>4, <4>8, <4>10
        <5>2. E = D - Rate
          BY <4>7, <5>1
        <5> QED
          BY <3>9, <4>1, <4>2, <4>3, <4>10, <5>2
      <4> QED
        BY <4>2, <4>9, <4>10, <3>11 DEF t
    <3> QED
      BY <3>1, <3>10, <3>11
  <2>9. CASE UNCHANGED vars
    BY <2>0, <2>1, <2>9 DEF vars, bucketVars, callerVars
  <2> QED
    BY <2>2, <2>3, <2>4, <2>5, <2>6, <2>7, <2>8, <2>9 DEF Next, Step
<1> QED
  BY <1>1, <1>2, TypeCorrect, PTL DEF Spec

-----------------------------------------------------------------------------
(* Main: the examples share no variable but the name of the chosen one.    *)

allVars == <<vars, example, flowVars, heartbeatVars, connVars, condVars, groupVars>>

LEMMA ExampleStays ==
  ASSUME [MainNext]_allVars
  PROVE  UNCHANGED example
<1>1. F!Next => UNCHANGED example
  <2>1. ASSUME NEW p, F!Moves(p) \/ F!Fire(p) PROVE UNCHANGED example
    BY <2>1 DEF F!Moves, F!Tick, F!EndOfInput, F!Quit, F!Return, F!Join, F!Fire, F!Leave, F!wiring
  <2>2. ASSUME NEW p, NEW q, F!Pass(p, q) PROVE UNCHANGED example
    BY <2>2 DEF F!Pass, F!wiring
  <2> QED
    BY <2>1, <2>2 DEF F!Next, F!Cancel, F!Terminated, F!vars, F!wiring
<1>2. H!Next => UNCHANGED example
  BY DEF H!Next, H!Tick, H!CloseDone, H!WorkerStep, H!sendPulse, H!TakeWork, H!sendResult,
         H!Begin, H!Deliver, H!Quit, H!CloseChannels, H!MonitorStep, H!Listen, H!SeePulse,
         H!SeeEnd, H!Alarm, H!Terminated, H!vars
<1>3. N!Next => UNCHANGED example
  BY DEF N!Next, N!Clear, N!Watch, N!Cancel, N!Expire, N!ClientStep, N!Tie, N!Transfer,
         N!TimeOut, N!Return, N!Close, N!ServerStep, N!Accept, N!ReadString, N!Echo, N!Hangup,
         N!contextVars, N!vars
<1>4. C!Next => UNCHANGED example
  BY DEF C!Next, C!push, C!Click, C!Step, C!pop, C!subscribe, C!Announce, C!Wait, C!fn, C!To,
         C!Over, C!vars
<1>5. G!Next => UNCHANGED example
  BY DEF G!Next, G!Go, G!Expire, G!Step, G!pretendWork, G!Record, G!Done, G!vars
<1> QED
  BY <1>1, <1>2, <1>3, <1>4, <1>5 DEF MainNext, allVars

-----------------------------------------------------------------------------
(* Heartbeat.  Between two messages that the monitor receives at most one  *)
(* interval passes: it is half over when the clock is odd, and over when   *)
(* a pulse is waiting, which stops the time until it has been received.    *)

PulseInv ==
  /\ monitor # "alarm"
  /\ example = "heartbeat_time" =>
       /\ worker \in {"select", "send", "return", "resultsClosed", "exited"}
       /\ clock \in 0..3
       /\ waiting \in 0..2
       /\ monitor = "select" /\ waiting > 0 =>
            pulse = 1 \/ (waiting = 1 /\ clock \in {1, 3})

LEMMA PulseInit == MainInit => PulseInv
BY DEF MainInit, H!Init, H!Timed, PulseInv

LEMMA TickPulse ==
  ASSUME PulseInv, H!Tick
  PROVE  PulseInv'
<1>1. /\ example = "heartbeat_time" /\ example' = example
      /\ UNCHANGED <<worker, monitor>>
      /\ worker \in {"select", "send"} => pulse = 0
      /\ monitor = "select" => worker \in {"select", "send"}
  BY DEF H!Tick, H!Timed, H!Prompt, H!Listening, PulseInv
<1>2. clock \in 0..3 /\ clock' = (clock + 1) % 4
  BY <1>1 DEF H!Tick, H!Interval, PulseInv
<1>3. clock' \in 0..3 /\ (clock' \in {1, 3} \/ clock' % 2 = 0)
  BY <1>2
<1>4. clock' \in {1, 3} \/ pulse' = 1
  BY <1>3 DEF H!Tick, H!Interval
<1>5. waiting' = IF monitor = "select" THEN waiting + 1 ELSE 0
  BY DEF H!Tick, H!Listening
<1>6. monitor = "select" /\ waiting > 0 => waiting = 1 /\ clock \in {1, 3}
  BY <1>1 DEF PulseInv
<1>7. clock \in {1, 3} => clock' \in {0, 2}
  BY <1>2
<1>8. monitor = "select" => \/ waiting' = 1 /\ (clock' \in {1, 3} \/ pulse' = 1)
                            \/ waiting' = 2 /\ pulse' = 1
  BY <1>1, <1>4, <1>5, <1>6, <1>7 DEF PulseInv
<1> QED
  BY <1>1, <1>3, <1>5, <1>8 DEF PulseInv

\* Every message sends the monitor printing, and it comes back with a new timer.
LEMMA StepPulse ==
  ASSUME PulseInv, H!WorkerStep \/ H!MonitorStep \/ H!CloseDone
  PROVE  PulseInv'
<1> USE DEF PulseInv, H!tickers, H!Timed, H!Unitwise, H!Listening, H!Receives
<1>1. CASE H!sendPulse
  BY <1>1 DEF H!sendPulse
<1>2. CASE H!TakeWork \/ H!sendResult
  BY <1>2 DEF H!TakeWork, H!sendResult
<1>3. CASE H!Begin \/ H!Deliver
  BY <1>3 DEF H!Begin, H!Deliver
<1>4. CASE H!Quit \/ H!CloseChannels
  BY <1>4 DEF H!Quit, H!CloseChannels
<1>5. CASE H!Listen
  BY <1>5 DEF H!Listen
<1>6. CASE H!SeePulse \/ H!SeeEnd
  BY <1>6 DEF H!SeePulse, H!SeeEnd
<1>7. CASE H!Alarm
  BY <1>7 DEF H!Alarm, H!Timeout, H!Interval
<1>8. CASE H!CloseDone
  BY <1>8 DEF H!CloseDone
<1> QED
  BY <1>1, <1>2, <1>3, <1>4, <1>5, <1>6, <1>7, <1>8 DEF H!WorkerStep, H!MonitorStep

LEMMA PulseNext == PulseInv /\ [MainNext]_allVars => PulseInv'
<1> SUFFICES ASSUME PulseInv, [MainNext]_allVars PROVE PulseInv'
  OBVIOUS
<1>1. CASE UNCHANGED <<example, heartbeatVars>>
  BY <1>1 DEF heartbeatVars, PulseInv
<1>2. CASE H!Next
  <2>1. CASE H!Terminated
    BY <2>1 DEF H!Terminated, H!vars, H!tickers, PulseInv
  <2> QED
    BY <1>2, <2>1, TickPulse, StepPulse DEF H!Next
<1> QED
  BY <1>1, <1>2, ExampleStays DEF MainNext, allVars

\* A worker of heartbeat_time.go that does its job is never taken for dead, although
\* pulses are dropped while the monitor prints and the worker spends part of its time in
\* sendResult: the alarm needs two intervals without a message, and one is all that passes.
THEOREM NeverDead == MainSpec => []NoFalseAlarm
<1>1. PulseInv => NoFalseAlarm
  BY DEF PulseInv, NoFalseAlarm, H!NoFalseAlarm
<1> QED
  BY <1>1, PulseInit, PulseNext, PTL DEF MainSpec, allVars

-----------------------------------------------------------------------------
(* ConnDeadline.  Whose deadline may stand on the connection: that of the  *)
(* context of the call in progress, if that one has a deadline, or the     *)
(* past, if some context of the same direction that has none is done.      *)

Stale(d) ==
  \E c \in used[d] : (c \in cancelledCtx \/ c \in expired) /\ c \notin timed

CulpritInv ==
  /\ dir \in {"read", "write"}
  /\ used \in [{"read", "write"} -> SUBSET (1..MaxCtx)]
  /\ expired \subseteq timed
  /\ timed \subseteq 1..MaxCtx
  /\ deadline \in [{"read", "write"} -> 0..MaxCtx + 1]
  /\ watchers \in [1..MaxCtx -> [{"read", "write"} -> Nat]]
  /\ \A d \in {"read", "write"} : deadline[d] = MaxCtx + 1 => Stale(d)
  /\ \A c \in 1..MaxCtx, d \in {"read", "write"} :
       watchers[c][d] > 0 => c \in used[d] \ timed
  /\ client \in {"tie", "call"} => ctx \in used[dir]
  /\ client = "tie" => deadline[dir] \in {0, MaxCtx + 1}
  /\ client = "call" => deadline[dir] \in {0, ctx, MaxCtx + 1}
  /\ TimeoutCulprit

USE DEF N!Contexts, N!Directions, N!None, N!Past, N!Done

LEMMA CulpritInit == MainInit => CulpritInv
<1> SUFFICES ASSUME MainInit PROVE CulpritInv
  OBVIOUS
<1>1. MaxCtx \in Nat /\ MaxCtx + 1 # 0
  BY ConnAssumption DEF N!ConnAssumption
<1>2. N!Init
  BY DEF MainInit
<1>3. timed \subseteq 1..MaxCtx
  BY <1>2 DEF N!Init
<1> QED
  BY <1>1, <1>2, <1>3 DEF N!Init, CulpritInv, TimeoutCulprit, N!TimeoutCulprit

\* The steps of the client.
LEMMA ClientCulprit ==
  ASSUME CulpritInv, \/ \E c \in 1..MaxCtx, d \in {"read", "write"} : N!Clear(d, c)
                     \/ N!ClientStep \/ N!Close
  PROVE  CulpritInv'
<1> USE DEF N!contextVars, N!callVars, N!peerVars
<1>1. MaxCtx \in Nat /\ MaxCtx + 1 \in Nat /\ MaxCtx + 1 # 0 /\ MaxCtx + 1 \notin 1..MaxCtx
  BY ConnAssumption DEF N!ConnAssumption
<1>2. UNCHANGED <<timed, expired, cancelledCtx>>
  BY DEF N!Clear, N!ClientStep, N!Tie, N!Transfer, N!TimeOut, N!Return, N!Close
<1>3. ASSUME NEW c \in 1..MaxCtx, NEW d \in {"read", "write"}, N!Clear(d, c) PROVE CulpritInv'
  <2>1. /\ dir' = d /\ ctx' = c /\ ~timedOut' /\ client' = "tie" /\ watchers' = watchers
        /\ used' = [used EXCEPT ![d] = @ \cup {c}] /\ deadline' = [deadline EXCEPT ![d] = 0]
    BY <1>3 DEF N!Clear
  <2>2. /\ used' \in [{"read", "write"} -> SUBSET (1..MaxCtx)]
        /\ deadline' \in [{"read", "write"} -> 0..MaxCtx + 1]
        /\ c \in used'[d] /\ deadline'[d] = 0
        /\ \A e \in {"read", "write"} : used[e] \subseteq used'[e]
        /\ \A e \in {"read", "write"} : e # d => deadline'[e] = deadline[e]
    BY <1>1, <2>1 DEF CulpritInv
  <2>3. \A e \in {"read", "write"} : deadline'[e] = MaxCtx + 1 => Stale(e)'
    BY <1>1, <1>2, <2>2 DEF CulpritInv, Stale
  <2> QED
    BY <1>1, <1>2, <2>1, <2>2, <2>3 DEF CulpritInv, TimeoutCulprit, N!TimeoutCulprit
<1>4. ASSUME N!Tie PROVE CulpritInv'
  <2>1. /\ client = "tie" /\ client' = "call" /\ UNCHANGED <<dir, ctx, timedOut, used>>
        /\ ctx \in used[dir] /\ ctx \in 1..MaxCtx
    BY <1>4 DEF N!Tie, CulpritInv
  <2>2. CASE ctx \in timed
    <3>1. deadline' = [deadline EXCEPT ![dir] = ctx] /\ watchers' = watchers
      BY <1>4, <2>2 DEF N!Tie
    <3>2. /\ deadline' \in [{"read", "write"} -> 0..MaxCtx + 1] /\ deadline'[dir] = ctx
          /\ \A e \in {"read", "write"} : e # dir => deadline'[e] = deadline[e]
      BY <1>1, <2>1, <3>1 DEF CulpritInv
    <3>3. \A e \in {"read", "write"} : deadline'[e] = MaxCtx + 1 => Stale(e)'
      BY <1>1, <1>2, <2>1, <3>2 DEF CulpritInv, Stale
    <3> QED
      BY <1>2, <2>1, <3>1, <3>2, <3>3 DEF CulpritInv, TimeoutCulprit, N!TimeoutCulprit
  <2>3. CASE ctx \notin timed
    <3>1. watchers' = [watchers EXCEPT ![ctx][dir] = @ + 1] /\ deadline' = deadline
      BY <1>4, <2>3 DEF N!Tie
    <3>2. /\ watchers' \in [1..MaxCtx -> [{"read", "write"} -> Nat]]
          /\ \A c \in 1..MaxCtx, d \in {"read", "write"} :
               watchers'[c][d] > 0 => watchers[c][d] > 0 \/ (c = ctx /\ d = dir)
      BY <2>1, <3>1 DEF CulpritInv
    <3>3. \A e \in {"read", "write"} : deadline'[e] = MaxCtx + 1 => Stale(e)'
      BY <1>2, <2>1, <3>1 DEF CulpritInv, Stale
    <3> QED
      BY <1>2, <2>1, <2>3, <3>1, <3>2, <3>3 DEF CulpritInv, TimeoutCulprit, N!TimeoutCulprit
  <2> QED
    BY <2>2, <2>3
<1>5. ASSUME N!Transfer \/ N!Close PROVE CulpritInv'
  <2>1. /\ UNCHANGED <<deadline, watchers, dir, ctx, used>>
        /\ client' \in {"idle", "closed"}
        /\ timedOut' = timedOut \/ timedOut' = FALSE
    BY <1>5 DEF N!Transfer, N!Return, N!Close
  <2>2. \A e \in {"read", "write"} : deadline'[e] = MaxCtx + 1 => Stale(e)'
    BY <1>2, <2>1 DEF CulpritInv, Stale
  <2> QED
    BY <1>2, <2>1, <2>2 DEF CulpritInv, TimeoutCulprit, N!TimeoutCulprit
<1>6. ASSUME N!TimeOut PROVE CulpritInv'
  <2>1. /\ UNCHANGED <<deadline, watchers, dir, ctx, used>> /\ client' = "idle"
        /\ client = "call" /\ deadline[dir] \in expired \cup {MaxCtx + 1}
    BY <1>6 DEF N!TimeOut, N!Return, N!Due
  <2>2. \A e \in {"read", "write"} : deadline'[e] = MaxCtx + 1 => Stale(e)'
    BY <1>2, <2>1 DEF CulpritInv, Stale
  <2>3. ctx \in used[dir] /\ (ctx \in expired \/ deadline[dir] = MaxCtx + 1)
    BY <1>1, <2>1 DEF CulpritInv
  <2>4. TimeoutCulprit'
    BY <1>2, <2>1, <2>3 DEF CulpritInv, Stale, TimeoutCulprit, N!TimeoutCulprit
  <2> QED
    BY <1>2, <2>1, <2>2, <2>4 DEF CulpritInv
<1> QED
  BY <1>3, <1>4, <1>5, <1>6 DEF N!ClientStep

\* Those of the contexts and of the goroutines that wait for one.
LEMMA ContextCulprit ==
  ASSUME CulpritInv, NEW c \in 1..MaxCtx,
         N!Cancel(c) \/ N!Expire(c) \/ \E d \in {"read", "write"} : N!Watch(c, d)
  PROVE  CulpritInv'
<1> USE DEF N!contextVars, N!callVars, N!peerVars
<1>1. MaxCtx \in Nat /\ MaxCtx + 1 \in Nat /\ MaxCtx + 1 # 0 /\ MaxCtx + 1 \notin 1..MaxCtx
  BY ConnAssumption DEF N!ConnAssumption
<1>2. ASSUME N!Cancel(c) \/ N!Expire(c) PROVE CulpritInv'
  <2>1. /\ UNCHANGED <<timed, deadline, watchers, client, dir, ctx, timedOut, used>>
        /\ cancelledCtx \subseteq cancelledCtx' /\ expired \subseteq expired'
        /\ expired' \subseteq timed
    BY <1>2 DEF N!Cancel, N!Expire, CulpritInv
  <2>2. \A e \in {"read", "write"} : deadline'[e] = MaxCtx + 1 => Stale(e)'
    BY <2>1 DEF CulpritInv, Stale
  <2>3. TimeoutCulprit'
    BY <2>1 DEF CulpritInv, TimeoutCulprit, N!TimeoutCulprit
  <2> QED
    BY <2>1, <2>2, <2>3 DEF CulpritInv
<1>3. ASSUME NEW d \in {"read", "write"}, N!Watch(c, d) PROVE CulpritInv'
  <2>1. /\ UNCHANGED <<timed, expired, cancelledCtx, client, dir, ctx, timedOut, used>>
        /\ c \in cancelledCtx \cup expired /\ watchers[c][d] > 0
        /\ watchers' = [watchers EXCEPT ![c][d] = @ - 1]
        /\ deadline' = [deadline EXCEPT ![d] = MaxCtx + 1]
    BY <1>3 DEF N!Watch
  <2>2. /\ watchers' \in [1..MaxCtx -> [{"read", "write"} -> Nat]]
        /\ \A b \in 1..MaxCtx, e \in {"read", "write"} : watchers'[b][e] > 0 => watchers[b][e] > 0
    <3>1. watchers \in [1..MaxCtx -> [{"read", "write"} -> Nat]]
      BY DEF CulpritInv
    <3>2. watchers' = [watchers EXCEPT ![c] = [watchers[c] EXCEPT ![d] = watchers[c][d] - 1]]
      BY <2>1
    <3>3. watchers[c][d] - 1 \in Nat
      BY <2>1, <3>1
    <3>4. [watchers[c] EXCEPT ![d] = watchers[c][d] - 1] \in [{"read", "write"} -> Nat]
      BY <3>1, <3>3
    <3> QED
      BY <2>1, <3>1, <3>2, <3>4
  <2>3. /\ deadline' \in [{"read", "write"} -> 0..MaxCtx + 1]
        /\ \A e \in {"read", "write"} : e # d => deadline'[e] = deadline[e]
        /\ deadline'[d] = MaxCtx + 1
    BY <1>1, <2>1 DEF CulpritInv
  <2>4. Stale(d)'
    BY <2>1 DEF CulpritInv, Stale
  <2>5. \A e \in {"read", "write"} : deadline'[e] = MaxCtx + 1 => Stale(e)'
    BY <2>1, <2>3, <2>4 DEF CulpritInv, Stale
  <2>6. TimeoutCulprit'
    BY <2>1 DEF CulpritInv, TimeoutCulprit, N!TimeoutCulprit
  <2> QED
    BY <2>1, <2>2, <2>3, <2>5, <2>6 DEF CulpritInv
<1> QED
  BY <1>2, <1>3

LEMMA CulpritNext == CulpritInv /\ [MainNext]_allVars => CulpritInv'
<1> SUFFICES ASSUME CulpritInv, [MainNext]_allVars PROVE CulpritInv'
  OBVIOUS
<1>1. CASE UNCHANGED <<timed, expired, cancelledCtx, deadline, watchers, client, dir, ctx,
                       timedOut, used>>
  <2>1. \A e \in {"read", "write"} : deadline'[e] = MaxCtx + 1 => Stale(e)'
    BY <1>1 DEF CulpritInv, Stale
  <2>2. TimeoutCulprit'
    BY <1>1 DEF CulpritInv, TimeoutCulprit, N!TimeoutCulprit
  <2> QED
    BY <1>1, <2>1, <2>2 DEF CulpritInv
<1>2. CASE N!ServerStep
  BY <1>1, <1>2 DEF N!ServerStep, N!Accept, N!ReadString, N!Echo, N!Hangup, N!contextVars,
                    N!callVars
<1>3. CASE UNCHANGED connVars
  BY <1>1, <1>3 DEF connVars
<1>4. CASE N!Next
  BY <1>1, <1>2, <1>4, ClientCulprit, ContextCulprit
     DEF N!Next, N!vars, N!contextVars, N!callVars
<1> QED
  BY <1>3, <1>4 DEF MainNext, allVars

\* An operation of contextio_net.go that times out has its own context to thank, or one of
\* an earlier call of the same direction without a deadline of its own, whose goroutine
\* outlived the call: never the other direction, nor the deadline of an earlier call.
THEOREM Culprit == MainSpec => []TimeoutCulprit
<1>1. CulpritInv => TimeoutCulprit
  BY DEF CulpritInv
<1> QED
  BY <1>1, CulpritInit, CulpritNext, PTL DEF MainSpec, allVars
=============================================================================
