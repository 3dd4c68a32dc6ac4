------------------------------ MODULE Healing -------------------------------
(***************************************************************************)
(* The healing supervisor of scale/healing/healing.go: a steward starts a  *)
(* ward, listens to its heartbeats and replaces it when they stop or when  *)
(* the ward exits.  A ward of doWorkFn publishes a stream of its own, and  *)
(* bridge, orForward and take make one stream of the streams of successive *)
(* wards.  irresponsibleWard publishes nothing and never pulses.           *)
(*                                                                         *)
(* Time is abstract: the timeout and the tickers may fire whenever a       *)
(* select listens to them, so that a healthy ward may be replaced, too.    *)
(* Value i of a ward is the i-th it has emitted since it began; the ward   *)
(* replays the given ints, of which number FailAfter + 1 is negative.      *)
(*                                                                         *)
(* Bound: MaxWards wards; the last one is not replaced.                    *)
(***************************************************************************)
EXTENDS Naturals, FiniteSets, Sequences

CONSTANTS MaxWards,   (* how many wards the steward starts at most         *)
          FailAfter,  (* values a ward emits before it sees the negative   *)
          Taken       (* the n of take: values main wants to see           *)

ASSUME HealingAssumption ==
  /\ MaxWards \in Nat \ {0}
  /\ FailAfter \in Nat
  /\ Taken \in Nat \ {0}

Wards == 1..MaxWards
Nothing == <<0, 0>>   \* no value; a value is <<ward, its number>>

VARIABLES cancelled,  (* ctx is done                                       *)
          kind,       (* what newSteward was given: "work", "irresponsible"*)
          steward,    (* next step of the steward                          *)
          beat,       (* pulses buffered in the steward's heartbeat        *)
          current,    (* the ward started last                             *)
          stopped,    (* wards whose cancelWard has been called            *)
          ward,       (* next step of each ward                            *)
          hb,         (* pulses buffered in the hb of the current ward     *)
          emitted,    (* history: values sent by wards, in order           *)
          source,     (* ward whose stream orForward reads                 *)
          forward,    (* next step of orForward                            *)
          bridge,     (* next step of bridge                               *)
          take,       (* next step of take                                 *)
          held,       (* the value held by each of the three               *)
          received    (* history: values received by main                  *)

stewardVars == <<steward, beat, current, stopped>>
wardVars == <<ward, hb, emitted>>
streamVars == <<source, forward, bridge, take, held, received>>
vars == <<cancelled, kind, stewardVars, wardVars, streamVars>>

Init ==
  /\ cancelled = FALSE
  /\ kind \in {"work", "irresponsible"}
  /\ steward = "start"
  /\ beat = 0
  /\ current = 0
  /\ stopped = {}
  /\ ward = [w \in Wards |-> "unborn"]
  /\ hb = 0
  /\ emitted = <<>>
  /\ source = 0
  /\ forward = "none"
  /\ bridge = "next"
  /\ take = "recv"
  /\ held = [stage \in {"forward", "bridge", "take"} |-> Nothing]
  /\ received = <<>>

WardDone(w) == cancelled \/ w \in stopped   \* wardCtx is a child of ctx

\* hb is closed; irresponsibleWard has none, and a nil channel is never ready.
HbClosed(w) == kind = "work" /\ ward[w] \in {"hbClosed", "exited"}

-----------------------------------------------------------------------------
(* The steward.                                                            *)

StartWard ==
  /\ steward = "start"
  /\ current' = current + 1
  /\ ward' = [ward EXCEPT ![current + 1] = IF kind = "work" THEN "publish" ELSE "wait"]
  /\ hb' = 0
  /\ steward' = "monitor"
  /\ UNCHANGED <<cancelled, kind, beat, stopped, emitted, streamVars>>

ReplaceNoCancel ==   \* mutant: the old ward is not cancelled
  /\ current < MaxWards
  /\ steward' = "start"
  /\ UNCHANGED <<cancelled, kind, beat, current, stopped, wardVars, streamVars>>

Replace ==
  /\ current < MaxWards
  /\ stopped' = stopped \cup {current}
  /\ steward' = "start"
  /\ UNCHANGED <<cancelled, kind, beat, current, wardVars, streamVars>>

GlobalStopBreak ==   \* mutant: break where the code returns
  /\ steward = "monitor"
  /\ cancelled
  /\ Replace

GlobalStop ==   \* case <-ctx.Done()
  /\ steward = "monitor"
  /\ cancelled
  /\ stopped' = stopped \cup {current}
  /\ steward' = "exited"
  /\ UNCHANGED <<cancelled, kind, beat, current, wardVars, streamVars>>

Pulse ==   \* case <-pulse.C, which drops the pulse when one is buffered
  /\ steward = "monitor"
  /\ beat' = 1
  /\ UNCHANGED <<cancelled, kind, steward, current, stopped, wardVars, streamVars>>

WardPulse ==   \* case _, ok := <-wardHB with ok; the timer is reset
  /\ steward = "monitor"
  /\ hb = 1
  /\ hb' = 0
  /\ UNCHANGED <<cancelled, kind, stewardVars, ward, emitted, streamVars>>

WardExited ==   \* case _, ok := <-wardHB with ~ok: buffered pulses come first
  /\ steward = "monitor"
  /\ HbClosed(current)
  /\ hb = 0
  /\ Replace

Timeout == steward = "monitor" /\ Replace   \* case <-timeoutTimer.C

\* Whoever ranges over the steward's heartbeat; Demo 2 has nobody there.
Listen ==
  /\ beat = 1
  /\ beat' = 0
  /\ UNCHANGED <<cancelled, kind, steward, current, stopped, wardVars, streamVars>>

-----------------------------------------------------------------------------
(* The wards.                                                              *)

WardTo(w, step) == ward' = [ward EXCEPT ![w] = step]

Publish(w) ==   \* case chStreams <- data, received by bridge
  /\ ward[w] = "publish"
  /\ bridge = "next"
  /\ WardTo(w, "emit")
  /\ bridge' = "range"
  /\ source' = w
  /\ forward' = "recv"
  /\ UNCHANGED <<cancelled, kind, stewardVars, hb, emitted, take, held, received>>

\* The number of values that w has emitted since it started.
Count(w) == Cardinality({i \in DOMAIN emitted : emitted[i][1] = w})

WardFail(w) ==   \* v < 0
  /\ ward[w] = "emit"
  /\ Count(w) = FailAfter
  /\ WardTo(w, "closeHb")
  /\ UNCHANGED <<cancelled, kind, stewardVars, hb, emitted, streamVars>>

\* case <-t.C, which drops the pulse when one is buffered.  Nobody listens to the hb of
\* a ward that was replaced.
WardTick(w) ==
  /\ ward[w] = "emit"
  /\ w = current
  /\ Count(w) < FailAfter
  /\ hb' = 1
  /\ UNCHANGED <<cancelled, kind, stewardVars, ward, emitted, streamVars>>

EmitResumed(w) ==   \* mutant: the index survives the ward
  /\ ward[w] = "emit"
  /\ Count(w) < FailAfter
  /\ forward = "recv"
  /\ source = w
  /\ emitted' = Append(emitted, <<w, Len(emitted) + 1>>)
  /\ forward' = "send"
  /\ held' = [held EXCEPT !["forward"] = <<w, Len(emitted) + 1>>]
  /\ UNCHANGED <<cancelled, kind, stewardVars, ward, hb, source, bridge, take, received>>

Emit(w) ==   \* case data <- v, received by orForward
  /\ ward[w] = "emit"
  /\ Count(w) < FailAfter
  /\ forward = "recv"
  /\ source = w
  /\ emitted' = Append(emitted, <<w, Count(w) + 1>>)
  /\ forward' = "send"
  /\ held' = [held EXCEPT !["forward"] = <<w, Count(w) + 1>>]
  /\ UNCHANGED <<cancelled, kind, stewardVars, ward, hb, source, bridge, take, received>>

WardStop(w) ==   \* case <-ctx.Done()
  /\ WardDone(w)
  /\ ward[w] \in {"publish", "wait"} \/ (ward[w] = "emit" /\ Count(w) < FailAfter)
  /\ WardTo(w, IF kind = "work" THEN "closeHb" ELSE "exited")
  /\ UNCHANGED <<cancelled, kind, stewardVars, hb, emitted, streamVars>>

CloseHb(w) ==
  /\ ward[w] = "closeHb"
  /\ WardTo(w, "hbClosed")
  /\ UNCHANGED <<cancelled, kind, stewardVars, hb, emitted, streamVars>>

CloseDataForgotten(w) ==   \* mutant: only hb is closed
  /\ ward[w] = "hbClosed"
  /\ UNCHANGED vars

CloseData(w) ==
  /\ ward[w] = "hbClosed"
  /\ WardTo(w, "exited")
  /\ UNCHANGED <<cancelled, kind, stewardVars, hb, emitted, streamVars>>
-----------------------------------------------------------------------------
(* orForward, of which bridge starts one for each stream, bridge, and take. *)

ForwardEndWithWard ==   \* mutant: orForward is given the context of the ward
  /\ forward \in {"recv", "send"}
  /\ WardDone(source) \/ (forward = "recv" /\ ward[source] = "exited")
  /\ forward' = "exited"
  /\ held' = [held EXCEPT !["forward"] = Nothing]
  /\ UNCHANGED <<cancelled, kind, stewardVars, wardVars, source, bridge, take, received>>

ForwardEnd ==   \* data is closed, or ctx is done
  /\ forward \in {"recv", "send"}
  /\ cancelled \/ (forward = "recv" /\ ward[source] = "exited")
  /\ forward' = "exited"
  /\ held' = [held EXCEPT !["forward"] = Nothing]
  /\ UNCHANGED <<cancelled, kind, stewardVars, wardVars, source, bridge, take, received>>

ForwardSend ==
  /\ forward = "send"
  /\ bridge = "range"
  /\ bridge' = "send"
  /\ forward' = "recv"
  /\ held' = [held EXCEPT !["bridge"] = held["forward"], !["forward"] = Nothing]
  /\ UNCHANGED <<cancelled, kind, stewardVars, wardVars, source, take, received>>

BridgeNext ==   \* the end of the range over orForward
  /\ bridge = "range"
  /\ forward = "exited"
  /\ bridge' = "next"
  /\ UNCHANGED <<cancelled, kind, stewardVars, wardVars, source, forward, take, held, received>>

BridgeSend ==
  /\ bridge = "send"
  /\ take = "recv"
  /\ take' = "send"
  /\ bridge' = "range"
  /\ held' = [held EXCEPT !["take"] = held["bridge"], !["bridge"] = Nothing]
  /\ UNCHANGED <<cancelled, kind, stewardVars, wardVars, source, forward, received>>

BridgeEnd ==   \* case <-ctx.Done(); the range itself does not listen to it
  /\ cancelled
  /\ bridge \in {"next", "send"}
  /\ bridge' = "exited"
  /\ held' = [held EXCEPT !["bridge"] = Nothing]
  /\ UNCHANGED <<cancelled, kind, stewardVars, wardVars, source, forward, take, received>>

TakeSend ==   \* main ranges over the stream, so it is always ready
  /\ take = "send"
  /\ received' = Append(received, held["take"])
  /\ take' = IF Len(received) + 1 = Taken THEN "exited" ELSE "recv"
  /\ held' = [held EXCEPT !["take"] = Nothing]
  /\ UNCHANGED <<cancelled, kind, stewardVars, wardVars, source, forward, bridge>>

TakeEnd ==
  /\ take \in {"recv", "send"}
  /\ cancelled \/ (take = "recv" /\ bridge = "exited")
  /\ take' = "exited"
  /\ held' = [held EXCEPT !["take"] = Nothing]
  /\ UNCHANGED <<cancelled, kind, stewardVars, wardVars, source, forward, bridge, received>>

Cancel ==   \* main, or the timer of Demo 1
  /\ ~cancelled
  /\ cancelled' = TRUE
  /\ UNCHANGED <<kind, stewardVars, wardVars, streamVars>>

-----------------------------------------------------------------------------
WardStep(w) == Publish(w) \/ WardFail(w) \/ Emit(w) \/ CloseHb(w) \/ CloseData(w)

\* Everybody has returned.
Terminated ==
  /\ steward = "exited"
  /\ bridge = "exited"
  /\ take = "exited"
  /\ \A w \in Wards : ward[w] \in {"unborn", "exited"}
  /\ UNCHANGED vars

Next ==
  \/ StartWard \/ GlobalStop \/ Pulse \/ WardPulse \/ WardExited \/ Timeout
  \/ Listen
  \/ \E w \in Wards : WardStep(w) \/ WardTick(w) \/ WardStop(w)
  \/ ForwardEnd \/ ForwardSend
  \/ BridgeNext \/ BridgeSend \/ BridgeEnd
  \/ TakeSend \/ TakeEnd
  \/ Cancel
  \/ Terminated

\* Goroutines keep running, and a select picks at random among its ready cases, so that
\* the steward, whose ticker fires again and again, comes to its other cases as well.
\* Nothing makes the timeout fire.
Fairness ==
  /\ WF_vars(StartWard)
  /\ SF_vars(GlobalStop \/ WardPulse \/ WardExited)
  /\ \A w \in Wards : WF_vars(WardStep(w) \/ WardStop(w))
  /\ WF_vars(ForwardEnd \/ ForwardSend)
  /\ WF_vars(BridgeNext \/ BridgeSend \/ BridgeEnd)
  /\ WF_vars(TakeSend \/ TakeEnd)

Spec == Init /\ [][Next]_vars /\ Fairness

-----------------------------------------------------------------------------
(* Properties.                                                             *)

Values == Wards \X (Nat \ {0})

\* The variables keep their types.
TypeOK ==
  /\ cancelled \in BOOLEAN
  /\ kind \in {"work", "irresponsible"}
  /\ steward \in {"start", "monitor", "exited"}
  /\ beat \in 0..1
  /\ current \in 0..MaxWards
  /\ stopped \subseteq Wards
  /\ ward \in [Wards -> {"unborn", "publish", "wait", "emit", "closeHb", "hbClosed", "exited"}]
  /\ hb \in 0..1
  /\ emitted \in Seq(Values)
  /\ source \in 0..MaxWards
  /\ forward \in {"none", "recv", "send", "exited"}
  /\ bridge \in {"next", "range", "send", "exited"}
  /\ take \in {"recv", "send", "exited"}
  /\ held \in [{"forward", "bridge", "take"} -> Values \cup {Nothing}]
  /\ received \in Seq(Values)

\* The streams of successive wards are never mixed, although a ward that was given up
\* may go on emitting while its successor is running: each ward's values follow one
\* another and "replay ints from the start" (healing.go:199).  It includes the types.
WardsInTurn ==
  /\ TypeOK
  /\ \A i \in DOMAIN emitted :
       \/ emitted[i][2] = 1
       \/ i > 1 /\ emitted[i] = <<emitted[i - 1][1], emitted[i - 1][2] + 1>>

\* What take, bridge and orForward hold, the oldest first.
Holding(stage) == IF held[stage] = Nothing THEN <<>> ELSE <<held[stage]>>
InFlight == Holding("take") \o Holding("bridge") \o Holding("forward")

\* While the context is alive, what the wards have emitted is what main has received
\* and what take, bridge and orForward hold, in this order; restarts lose nothing.
NothingLost == ~cancelled => emitted = received \o InFlight

\* A ward that has been replaced returns, also one that never got to publish its stream:
\* healing leaks no goroutine.
ReplacedWardsEnd == \A w \in Wards : w < current ~> ward[w] = "exited"

\* The stream does not stall behind a ward that has failed or was replaced: main receives
\* all it wants, unless the context is cancelled, or the last ward that the bound allows
\* has emitted everything up to its negative and is not replaced.
StreamResumes ==
  kind = "work" ~> cancelled \/ Len(received) = Taken \/ Count(MaxWards) = FailAfter

\* When the context is done the steward, every ward, also one started at the last
\* moment, and all stages of the stream return.
AllEnd ==
  cancelled ~> /\ steward = "exited"
               /\ bridge = "exited"
               /\ take = "exited"
               /\ forward \in {"none", "exited"}
               /\ \A w \in Wards : ward[w] \in {"unborn", "exited"}
=============================================================================
