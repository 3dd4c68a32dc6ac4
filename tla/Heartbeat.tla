----------------------------- MODULE Heartbeat ------------------------------
(***************************************************************************)
(* The two workers of scale/heartbeat and the monitors that listen to      *)
(* them.  doWork pulses on a ticker and offers the time of every second    *)
(* tick as a result; its monitor calls it dead after two intervals without *)
(* either.  worker pulses once for each unit of its work.                  *)
(*                                                                         *)
(* Time is counted in half intervals.  It passes only when the worker, and *)
(* a monitor that is listening, have nothing left to do: they react at     *)
(* once.  Printing may keep the monitor away for as long as it likes.  The *)
(* clock stands still in the other example, whose units may take any time. *)
(***************************************************************************)
EXTENDS Naturals

CONSTANT Units   \* bound: units of work; the code has 10

VARIABLES example,   (* the name of what main runs                         *)
          worker,    (* next step of the worker                            *)
          monitor,   (* next step of the example's loop                    *)
          done,      (* done is closed                                     *)
          clock,     (* half intervals, modulo the period of workGen       *)
          pulse,     (* ticks waiting in the channel pulse                 *)
          workGen,   (* ticks waiting in the channel workGen               *)
          waiting,   (* half intervals since the monitor made its timer    *)
          heartbeat, (* pulses buffered in the worker's heartbeat          *)
          results    (* history: results received                          *)

tickers == <<clock, pulse, workGen, waiting>>
vars == <<example, worker, monitor, done, tickers, heartbeat, results>>

Timed == example = "heartbeat_time"
Unitwise == example = "heartbeat_workunit"

Interval == 2
Timeout == 2 * Interval

Init ==
  /\ worker = IF Timed THEN "select" ELSE "begin"
  /\ monitor = "select"
  /\ done = FALSE
  /\ clock = 0
  /\ pulse = 0
  /\ workGen = 0
  /\ waiting = 0
  /\ heartbeat = 0
  /\ results = 0

Listening == monitor = "select"
Receives == monitor' = "print"   \* the monitor prints, and listens again

-----------------------------------------------------------------------------
(* doWork                                                                  *)

Prompt ==
  /\ worker \in {"select", "send"} => pulse = 0 /\ ~done
  /\ worker = "select" => workGen = 0
  /\ worker = "send" => ~Listening
  /\ worker \notin {"return", "resultsClosed"}
  /\ Listening => worker # "exited" /\ waiting < Timeout

TickBothSlow ==   \* mutant: the pulses, too, come at twice the interval
  /\ Timed /\ Prompt
  /\ clock' = (clock + 1) % (2 * Interval)
  /\ pulse' = IF clock' = 0 THEN 1 ELSE pulse
  /\ workGen' = IF clock' = 0 THEN 1 ELSE workGen
  /\ waiting' = IF Listening THEN waiting + 1 ELSE 0
  /\ UNCHANGED <<example, worker, monitor, done, heartbeat, results>>

\* A ticker drops its tick when one is waiting.
Tick ==
  /\ Timed /\ Prompt
  /\ clock' = (clock + 1) % (2 * Interval)
  /\ pulse' = IF clock' % Interval = 0 THEN 1 ELSE pulse
  /\ workGen' = IF clock' = 0 THEN 1 ELSE workGen
  /\ waiting' = IF Listening THEN waiting + 1 ELSE 0
  /\ UNCHANGED <<example, worker, monitor, done, heartbeat, results>>

sendPulse ==   \* case <-pulse, here and in sendResult: dropped if nobody listens
  /\ Timed
  /\ worker \in {"select", "send"}
  /\ pulse = 1
  /\ pulse' = 0
  /\ IF Listening THEN Receives ELSE UNCHANGED monitor
  /\ UNCHANGED <<example, worker, done, clock, workGen, waiting, heartbeat, results>>

TakeWork ==   \* case r := <-workGen
  /\ Timed
  /\ worker = "select"
  /\ workGen = 1
  /\ workGen' = 0
  /\ worker' = "send"
  /\ UNCHANGED <<example, monitor, done, clock, pulse, waiting, heartbeat, results>>

sendResult ==   \* case results <- r
  /\ Timed
  /\ worker = "send"
  /\ Listening
  /\ worker' = "select"
  /\ Receives
  /\ UNCHANGED <<example, done, tickers, heartbeat, results>>

-----------------------------------------------------------------------------
(* worker                                                                  *)

Begin ==   \* the first select of a unit: its default drops a pulse, too
  /\ Unitwise
  /\ worker = "begin"
  /\ heartbeat' = 1
  /\ worker' = "send"
  /\ UNCHANGED <<example, monitor, done, tickers, results>>

Deliver ==   \* case results <- i
  /\ Unitwise
  /\ worker = "send"
  /\ Listening
  /\ results' = results + 1
  /\ worker' = IF results' = Units THEN "return" ELSE "begin"
  /\ Receives
  /\ UNCHANGED <<example, done, tickers, heartbeat>>

-----------------------------------------------------------------------------
(* Both workers, and the monitors.                                         *)

Quit ==   \* case <-done; in sendResult it leads back to the loop of doWork
  /\ done
  /\ worker \in {"select", "send", "begin"}
  /\ worker' = IF Timed /\ worker = "send" THEN "select" ELSE "return"
  /\ UNCHANGED <<example, monitor, done, tickers, heartbeat, results>>

CloseChannels ==   \* the defers: results first, then heartbeat
  /\ worker \in {"return", "resultsClosed"}
  /\ worker' = IF worker = "return" THEN "resultsClosed" ELSE "exited"
  /\ UNCHANGED <<example, monitor, done, tickers, heartbeat, results>>

Listen ==   \* back in its select, with a new timer
  /\ monitor = "print"
  /\ monitor' = "select"
  /\ waiting' = 0
  /\ UNCHANGED <<example, worker, done, clock, pulse, workGen, heartbeat, results>>

SeePulse ==   \* a pulse from the buffer
  /\ Listening
  /\ heartbeat = 1
  /\ heartbeat' = 0
  /\ Receives
  /\ UNCHANGED <<example, worker, done, tickers, results>>

SeeEnd ==   \* ~ok; a closed heartbeat is drained first
  /\ Listening
  /\ worker \in {"resultsClosed", "exited"}
  /\ monitor' = "over"
  /\ done' = (done \/ Unitwise)   \* defer close(done)
  /\ UNCHANGED <<example, worker, tickers, heartbeat, results>>

Alarm ==   \* case <-time.After(2 * time.Second)
  /\ Timed
  /\ Listening
  /\ waiting = Timeout
  /\ monitor' = "alarm"
  /\ UNCHANGED <<example, worker, done, tickers, heartbeat, results>>

CloseDone ==   \* the AfterFunc
  /\ Timed
  /\ ~done
  /\ done' = TRUE
  /\ UNCHANGED <<example, worker, monitor, tickers, heartbeat, results>>

-----------------------------------------------------------------------------
WorkerStep == sendPulse \/ TakeWork \/ sendResult \/ Begin \/ Deliver \/ Quit \/ CloseChannels
MonitorStep == Listen \/ SeePulse \/ SeeEnd \/ Alarm

Terminated ==
  /\ Timed \/ Unitwise
  /\ worker = "exited"
  /\ monitor \in {"over", "alarm"}
  /\ UNCHANGED vars

Next == Tick \/ CloseDone \/ WorkerStep \/ MonitorStep \/ Terminated

\* Time goes on, and both goroutines keep running.
Running == Timed \/ Unitwise
Fairness ==
  /\ WF_vars(Tick)
  /\ WF_vars(Running /\ WorkerStep)
  /\ WF_vars(Running /\ MonitorStep)

-----------------------------------------------------------------------------
(* Properties.                                                             *)

\* A worker that does its job is never taken for dead, although pulses are dropped while
\* the monitor prints, its timer starts anew with every message, and the worker spends
\* part of its time in sendResult.
NoFalseAlarm == monitor # "alarm"

\* doWork and its monitor return when done is closed; the monitor of worker returns by
\* itself, after every unit has been reported, and leaves no goroutine behind.
HeartbeatsEnd ==
  Unitwise \/ (Timed /\ done) ~>
    /\ worker = "exited"
    /\ monitor \in {"over", "alarm"}
    /\ Unitwise => results = Units
=============================================================================
