-------------------------------- MODULE Main --------------------------------
(***************************************************************************)
(* cmd/gopatterns: main runs the one example that it finds in the registry *)
(* under the name it is given.  The examples here are those whose packages *)
(* are small: everything in flows/, ratelimit, heartbeat, cond,            *)
(* contextio_net and errgroupx.  The packages do not call each other, so   *)
(* only the goroutines of the chosen example ever move.                    *)
(***************************************************************************)
EXTENDS RateLimit, Sequences

CONSTANTS Examples, Items, FanWorkers,                   \* see Flows
          ChunkChannel, TimerChannel, OrChannel,         \* see Flows
          Units,                                         \* see Heartbeat
          MaxCtx, MaxOps, Room,                          \* see ConnDeadline
          Poppers, PerPopper, Listeners,                 \* see Cond
          Tasks, Failing, Limit                          \* see ErrGroup

VARIABLES example,   \* the name of what main runs
          net, st, closed, got,
          worker, monitor, done, clock, pulse, workGen, waiting, heartbeat, results,
          timed, cancelledCtx, expired, deadline, watchers, client, dir, ctx, ops,
          timedOut, used, line, server,
          items, pushed, popped, taken, waiterPc, asleep, clicked,
          next, step, result, err, ctxErr

flowVars == <<net, st, closed, got>>
heartbeatVars == <<worker, monitor, done, clock, pulse, workGen, waiting, heartbeat, results>>
connVars == <<timed, cancelledCtx, expired, deadline, watchers, client, dir, ctx, ops,
              timedOut, used, line, server>>
condVars == <<items, pushed, popped, taken, waiterPc, asleep, clicked>>
groupVars == <<next, step, result, err, ctxErr>>

F == INSTANCE Flows
H == INSTANCE Heartbeat
N == INSTANCE ConnDeadline WITH cancelled <- cancelledCtx
C == INSTANCE Cond WITH pc <- waiterPc, got <- taken
G == INSTANCE ErrGroup

ASSUME FlowsAssumption == F!FlowsAssumption
ASSUME ConnAssumption == N!ConnAssumption

\* The keys of registry.Examples, shortened.
Names == Examples \cup {"ratelimit", "heartbeat_time", "heartbeat_workunit",
                        "contextio_net", "signal", "broadcast", "errgroup"}

MainInit ==
  /\ example \in Names
  /\ Init
  /\ F!Start
  /\ H!Init
  /\ N!Init
  /\ C!Init
  /\ G!Init

RateLimited(A) == example = "ratelimit" /\ A

\* ex.Func()
MainNext ==
  \/ RateLimited(Next)
     /\ UNCHANGED <<example, flowVars, heartbeatVars, connVars, condVars, groupVars>>
  \/ F!Next /\ UNCHANGED <<vars, heartbeatVars, connVars, condVars, groupVars>>
  \/ H!Next /\ UNCHANGED <<vars, flowVars, connVars, condVars, groupVars>>
  \/ N!Next /\ UNCHANGED <<vars, flowVars, heartbeatVars, condVars, groupVars>>
  \/ C!Next /\ UNCHANGED <<vars, flowVars, heartbeatVars, connVars, groupVars>>
  \/ G!Next /\ UNCHANGED <<vars, flowVars, heartbeatVars, connVars, condVars>>

MainSpec ==
  /\ MainInit
  /\ [][MainNext]_<<vars, example, flowVars, heartbeatVars, connVars, condVars, groupVars>>
  /\ WF_vars(RateLimited(Tick))
  /\ \A c \in Callers : WF_vars(RateLimited(Step(c)))
  /\ F!Fairness
  /\ H!Fairness
  /\ N!Fairness
  /\ C!Fairness
  /\ G!Fairness

-----------------------------------------------------------------------------
(* Properties: those of RateLimit, and of the packages that are instances. *)

\* Channels of flows/: nobody sends on or closes a closed one.
ChannelsSafe == F!ChannelsSafe

\* The consumers of flows/ receive their values in order, none twice.
Delivery == F!Delivery

\* The consumers of flows/ receive everything unless a context is cancelled.
Complete == F!Complete

\* The consumers of Tee stay in step.
TeeInStep == F!TeeInStep

\* A worker of heartbeat_time.go that does its job is never taken for dead.
NoFalseAlarm == H!NoFalseAlarm

\* An operation of contextio_net.go times out for a context of its direction only.
TimeoutCulprit == N!TimeoutCulprit

\* Cancelling a context ends the goroutines of flows/ that were given it.
CancelEnds == F!CancelEnds

\* The goroutines of Or return when one of its inputs closes.
OrCollapses == F!OrCollapses

\* Operations of contextio_net.go and the goroutines behind their contexts come to an end.
OperationsReturn == N!OperationsReturn

\* The queue of primitives/cond loses no wake-up and no item.
ItemsPopped == C!ItemsPopped

\* main comes back from the examples of flows/, of heartbeat and of errgroupx, from the last
\* one with an error if a task failed, and with one that was not itself caused by another.
MainReturns == F!ConsumersReturn /\ H!HeartbeatsEnd /\ G!FirstErrorReported
=============================================================================
