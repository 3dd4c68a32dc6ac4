---------------------------- MODULE HealingProofs ----------------------------
(***************************************************************************)
(* Proofs about Healing, for any number of wards, of values per ward and   *)
(* of values taken: the streams of successive wards are never mixed, and   *)
(* restarts lose nothing.                                                  *)
(***************************************************************************)
EXTENDS Healing, Histories, FiniteSetTheorems

Stages == {"forward", "bridge", "take"}

\* The steward starts the wards in turn, and those to come do not run.
StewardInv ==
  /\ \A w \in Wards : w > current => ward[w] = "unborn"
  /\ steward = "start" => current < MaxWards
  /\ steward = "monitor" => current > 0

\* A stage holds a value exactly while it offers it to the next; while bridge waits for a
\* stream no orForward is at work.
StageInv ==
  /\ held["forward"] # Nothing <=> forward = "send"
  /\ held["bridge"] # Nothing <=> bridge = "send"
  /\ held["take"] # Nothing <=> take = "send"
  /\ bridge = "next" => forward \in {"none", "exited"}

Shape == TypeOK /\ StewardInv /\ StageInv

LEMMA ShapeInit == Init => Shape
<1> SUFFICES ASSUME Init PROVE Shape
  OBVIOUS
<1>1. MaxWards \in Nat /\ 0 < MaxWards
  BY HealingAssumption
<1>2. emitted \in Seq(Values) /\ received \in Seq(Values)
  BY DEF Init
<1>3. held \in [{"forward", "bridge", "take"} -> Values \cup {Nothing}]
  BY DEF Init
<1>4. TypeOK
  <2>1. ward \in [Wards -> {"unborn", "publish", "wait", "emit", "closeHb", "hbClosed", "exited"}]
    BY DEF Init
  <2>2. /\ cancelled \in BOOLEAN /\ kind \in {"work", "irresponsible"} /\ steward = "start"
        /\ beat = 0 /\ current = 0 /\ stopped = {} /\ hb = 0 /\ source = 0
        /\ forward = "none" /\ bridge = "next" /\ take = "recv"
    BY DEF Init
  <2> QED
    BY <1>1, <1>2, <1>3, <2>1, <2>2 DEF TypeOK
<1>5. StewardInv
  BY <1>1 DEF Init, StewardInv
<1>6. StageInv
  BY DEF Init, StageInv
<1> QED
  BY <1>4, <1>5, <1>6 DEF Shape

\* The steward, and whoever listens to it.
LEMMA StewardShape ==
  ASSUME Shape, StartWard \/ GlobalStop \/ Pulse \/ WardPulse \/ WardExited \/ Timeout \/ Listen
  PROVE  Shape'
<1> USE DEF wardVars, streamVars, stewardVars
<1>1. MaxWards \in Nat /\ current \in 0..MaxWards
  BY HealingAssumption DEF Shape, TypeOK
<1>2. UNCHANGED <<cancelled, kind, emitted, streamVars>>
  BY DEF StartWard, GlobalStop, Pulse, WardPulse, WardExited, Timeout, Replace, Listen
<1>3. StageInv'
  BY <1>2 DEF Shape, StageInv
<1>4. ASSUME StartWard PROVE Shape'
  <2>1. current + 1 \in Wards /\ current' = current + 1
    BY <1>1, <1>4 DEF StartWard, Shape, StewardInv, Wards
  <2>2. StewardInv'
    BY <1>1, <1>4, <2>1 DEF StartWard, Shape, StewardInv, TypeOK, Wards
  <2>3. TypeOK'
    BY <1>1, <1>2, <1>4, <2>1 DEF StartWard, Shape, TypeOK, Wards
  <2> QED
    BY <1>3, <2>2, <2>3 DEF Shape
<1>5. ASSUME steward = "monitor", UNCHANGED <<current, beat, wardVars>>,
             stopped' = stopped \cup {current},
             steward' = "exited" \/ (steward' = "start" /\ current < MaxWards)
      PROVE  Shape'
  <2>1. current \in Wards
    BY <1>1, <1>5 DEF Shape, StewardInv, Wards
  <2> QED
    BY <1>2, <1>3, <1>5, <2>1 DEF Shape, TypeOK, StewardInv
<1>6. ASSUME GlobalStop \/ WardExited \/ Timeout PROVE Shape'
  BY <1>5, <1>6 DEF GlobalStop, WardExited, Timeout, Replace
<1>7. ASSUME Pulse \/ WardPulse \/ Listen PROVE Shape'
  BY <1>2, <1>3, <1>7 DEF Pulse, WardPulse, Listen, Shape, TypeOK, StewardInv
<1> QED
  BY <1>4, <1>6, <1>7

(* Counting the values of a ward.                                          *)

LEMMA EmittedCount ==
  ASSUME emitted \in Seq(Values), NEW w
  PROVE  IsFiniteSet({i \in DOMAIN emitted : emitted[i][1] = w}) /\ Count(w) \in Nat
<1>1. IsFiniteSet(1..Len(emitted)) /\ DOMAIN emitted = 1..Len(emitted)
  BY FS_Interval
<1>2. IsFiniteSet({i \in DOMAIN emitted : emitted[i][1] = w})
  BY <1>1, FS_Subset
<1> QED
  BY <1>2, FS_CardinalityType DEF Count

\* The value a ward emits next.
LEMMA NextValue ==
  ASSUME Shape, NEW w \in Wards
  PROVE  /\ emitted \in Seq(Values) /\ Count(w) \in Nat
         /\ w # 0 /\ <<w, Count(w) + 1>> \in Values /\ <<w, Count(w) + 1>> # Nothing
<1>1. emitted \in Seq(Values)
  BY DEF Shape, TypeOK
<1>2. Count(w) \in Nat
  BY <1>1, EmittedCount
<1>3. w # 0 /\ Count(w) + 1 \in Nat \ {0}
  BY <1>2, HealingAssumption DEF Wards
<1>4. <<w, Count(w) + 1>> \in Values
  BY <1>3 DEF Values
<1> QED
  BY <1>1, <1>2, <1>3, <1>4 DEF Nothing

LEMMA EmitCounts ==
  ASSUME emitted \in Seq(Values), NEW w, NEW n, <<w, n>> \in Values,
         emitted' = Append(emitted, <<w, n>>)
  PROVE  /\ Count(w)' = Count(w) + 1
         /\ \A v : v # w => Count(v)' = Count(v)
<1> DEFINE Of(v) == {i \in DOMAIN emitted : emitted[i][1] = v}
<1>1. /\ Len(emitted) \in Nat /\ DOMAIN emitted = 1..Len(emitted)
      /\ DOMAIN emitted' = DOMAIN emitted \cup {Len(emitted) + 1}
      /\ \A i \in DOMAIN emitted : emitted'[i] = emitted[i]
      /\ emitted'[Len(emitted) + 1] = <<w, n>>
      /\ Len(emitted) + 1 \notin DOMAIN emitted
  OBVIOUS
<1>2. Of(w)' = Of(w) \cup {Len(emitted) + 1} /\ Len(emitted) + 1 \notin Of(w)
  BY <1>1
<1>3. ASSUME NEW v, v # w PROVE Of(v)' = Of(v)
  BY <1>1, <1>3
<1>4. IsFiniteSet(Of(w))
  BY EmittedCount
<1>5. Cardinality(Of(w) \cup {Len(emitted) + 1}) = Cardinality(Of(w)) + 1
  BY <1>2, <1>4, FS_AddElement
<1> QED
  BY <1>2, <1>3, <1>5 DEF Count

\* A ward that moves has been started.
LEMMA WardMoves ==
  ASSUME Shape, NEW w \in Wards, ward[w] # "unborn", NEW step \in {"emit", "closeHb", "hbClosed", "exited"},
         WardTo(w, step), UNCHANGED <<current, steward>>
  PROVE  /\ StewardInv'
         /\ ward' \in [Wards -> {"unborn", "publish", "wait", "emit", "closeHb", "hbClosed", "exited"}]
BY DEF Shape, StewardInv, TypeOK, WardTo

LEMMA WardShape ==
  ASSUME Shape, NEW w \in Wards, WardStep(w) \/ WardTick(w) \/ WardStop(w)
  PROVE  Shape'
<1> USE DEF wardVars, streamVars, stewardVars
<1>1. w \in 0..MaxWards /\ w # 0
  BY HealingAssumption DEF Wards
<1>2. ASSUME Publish(w) PROVE Shape'
  <2>1. /\ UNCHANGED <<cancelled, kind, stewardVars, hb, emitted, take, held, received>>
        /\ source' = w /\ forward' = "recv" /\ bridge = "next" /\ bridge' = "range"
        /\ ward[w] = "publish" /\ WardTo(w, "emit")
    BY <1>2 DEF Publish
  <2>2. StageInv'
    BY <2>1 DEF Shape, StageInv
  <2> QED
    BY <1>1, <2>1, <2>2, WardMoves DEF Shape, TypeOK
<1>3. ASSUME WardFail(w) \/ WardStop(w) \/ CloseHb(w) \/ CloseData(w) PROVE Shape'
  <2>1. /\ UNCHANGED <<cancelled, kind, stewardVars, hb, emitted, streamVars>>
        /\ ward[w] # "unborn"
        /\ \E step \in {"closeHb", "hbClosed", "exited"} : WardTo(w, step)
    BY <1>3 DEF WardFail, WardStop, CloseHb, CloseData
  <2>2. StageInv'
    BY <2>1 DEF Shape, StageInv
  <2> QED
    BY <2>1, <2>2, WardMoves DEF Shape, TypeOK
<1>4. ASSUME WardTick(w) PROVE Shape'
  BY <1>4 DEF WardTick, Shape, TypeOK, StewardInv, StageInv
<1>5. ASSUME Emit(w) PROVE Shape'
  <2>1. /\ UNCHANGED <<cancelled, kind, stewardVars, ward, hb, source, bridge, take, received>>
        /\ forward = "recv" /\ forward' = "send"
        /\ emitted' = Append(emitted, <<w, Count(w) + 1>>)
        /\ held' = [held EXCEPT !["forward"] = <<w, Count(w) + 1>>]
    BY <1>5 DEF Emit
  <2>2. <<w, Count(w) + 1>> \in Values /\ <<w, Count(w) + 1>> # Nothing
    BY NextValue
  <2>3. emitted' \in Seq(Values)
    BY <2>1, <2>2 DEF Shape, TypeOK
  <2>4. StageInv'
    BY <2>1, <2>2 DEF Shape, StageInv, TypeOK
  <2> QED
    BY <2>1, <2>2, <2>3, <2>4 DEF Shape, TypeOK, StewardInv
<1> QED
  BY <1>2, <1>3, <1>4, <1>5 DEF WardStep

LEMMA StreamShape ==
  ASSUME Shape, \/ ForwardEnd \/ ForwardSend \/ BridgeNext \/ BridgeSend \/ BridgeEnd
                \/ TakeSend \/ TakeEnd
  PROVE  Shape'
<1> USE DEF wardVars, stewardVars
<1>1. UNCHANGED <<cancelled, kind, stewardVars, wardVars, source>> /\ StewardInv'
  BY DEF ForwardEnd, ForwardSend, BridgeNext, BridgeSend, BridgeEnd, TakeSend, TakeEnd, Shape,
         StewardInv
<1>2. held \in [Stages -> Values \cup {Nothing}]
  BY DEF Shape, TypeOK, Stages
<1>3. ASSUME ForwardEnd \/ BridgeNext \/ BridgeEnd \/ TakeEnd PROVE Shape'
  <2>1. StageInv' /\ held' \in [Stages -> Values \cup {Nothing}] /\ received' = received
    BY <1>2, <1>3 DEF ForwardEnd, BridgeNext, BridgeEnd, TakeEnd, Shape, StageInv, Stages
  <2> QED
    BY <1>1, <1>3, <2>1 DEF ForwardEnd, BridgeNext, BridgeEnd, TakeEnd, Shape, TypeOK, Stages
<1>4. ASSUME ForwardSend \/ BridgeSend PROVE Shape'
  <2>1. StageInv' /\ held' \in [Stages -> Values \cup {Nothing}] /\ received' = received
    BY <1>2, <1>4 DEF ForwardSend, BridgeSend, Shape, StageInv, Stages
  <2> QED
    BY <1>1, <1>4, <2>1 DEF ForwardSend, BridgeSend, Shape, TypeOK, Stages
<1>5. ASSUME TakeSend PROVE Shape'
  <2>1. StageInv' /\ held' \in [Stages -> Values \cup {Nothing}]
    BY <1>2, <1>5 DEF TakeSend, Shape, StageInv, Stages
  <2>2. held["take"] \in Values
    BY <1>2, <1>5 DEF TakeSend, Shape, StageInv, Stages
  <2>3. received' \in Seq(Values)
    BY <1>5, <2>2 DEF TakeSend, Shape, TypeOK
  <2> QED
    BY <1>1, <1>5, <2>1, <2>3 DEF TakeSend, Shape, TypeOK, Stages
<1> QED
  BY <1>3, <1>4, <1>5

LEMMA ShapeNext == Shape /\ [Next]_vars => Shape'
<1> SUFFICES ASSUME Shape, [Next]_vars PROVE Shape'
  OBVIOUS
<1>1. CASE UNCHANGED vars
  BY <1>1 DEF vars, stewardVars, wardVars, streamVars, Shape, TypeOK, StewardInv, StageInv
<1>2. CASE Cancel
  BY <1>2 DEF Cancel, stewardVars, wardVars, streamVars, Shape, TypeOK, StewardInv, StageInv
<1> QED
  BY <1>1, <1>2, StewardShape, WardShape, StreamShape DEF Next, Terminated

-----------------------------------------------------------------------------
(* The streams of the wards.  A ward emits only into the stream that is    *)
(* being read, and it published that stream before it emitted anything.    *)

TurnInv ==
  /\ \A w \in Wards : ward[w] \in {"unborn", "publish"} => Count(w) = 0
  /\ source # 0 /\ Count(source) # 0 =>
       emitted # <<>> /\ emitted[Len(emitted)] = <<source, Count(source)>>
  /\ \A i \in DOMAIN emitted :
       \/ emitted[i][2] = 1
       \/ i > 1 /\ emitted[i] = <<emitted[i - 1][1], emitted[i - 1][2] + 1>>

LEMMA TurnInit == Init => TurnInv
<1> SUFFICES ASSUME Init PROVE TurnInv
  OBVIOUS
<1>1. DOMAIN emitted = {} /\ source = 0
  BY DEF Init
<1>2. ASSUME NEW w PROVE Count(w) = 0
  BY <1>1, FS_EmptySet DEF Count
<1> QED
  BY <1>1, <1>2 DEF TurnInv

\* Steps that emit nothing and leave the stream that is read alone.
LEMMA TurnKept ==
  ASSUME TurnInv, UNCHANGED <<emitted, source>>,
         \A w \in Wards : ward'[w] \in {"unborn", "publish"} => ward[w] \in {"unborn", "publish"}
  PROVE  TurnInv'
<1>1. \A w : Count(w)' = Count(w)
  BY DEF Count
<1> QED
  BY <1>1 DEF TurnInv

LEMMA PublishTurn ==
  ASSUME Shape, TurnInv, NEW w \in Wards, Publish(w)
  PROVE  TurnInv'
<1>1. /\ ward[w] = "publish" /\ source' = w /\ emitted' = emitted
      /\ ward' = [ward EXCEPT ![w] = "emit"]
  BY DEF Publish, WardTo
<1>2. \A v : Count(v)' = Count(v)
  BY <1>1 DEF Count
<1>3. Count(source') = 0
  BY <1>1 DEF TurnInv
<1> QED
  BY <1>1, <1>2, <1>3 DEF TurnInv, Shape, TypeOK

LEMMA EmitTurn ==
  ASSUME Shape, TurnInv, NEW w \in Wards, Emit(w)
  PROVE  TurnInv'
<1>1. /\ ward[w] = "emit" /\ source = w /\ UNCHANGED <<ward, source>>
      /\ emitted' = Append(emitted, <<w, Count(w) + 1>>)
  BY DEF Emit
<1>2. /\ emitted \in Seq(Values) /\ w # 0 /\ Count(w) \in Nat
      /\ <<w, Count(w) + 1>> \in Values
  BY NextValue
<1>3. /\ Count(w)' = Count(w) + 1
      /\ \A v \in Wards : v # w => Count(v)' = Count(v)
  BY <1>1, <1>2, EmitCounts
<1>4. /\ Len(emitted) \in Nat /\ Len(emitted') = Len(emitted) + 1
      /\ emitted'[Len(emitted')] = <<w, Count(w) + 1>>
      /\ \A i \in DOMAIN emitted : emitted'[i] = emitted[i] /\ i \in 1..Len(emitted)
      /\ DOMAIN emitted' = DOMAIN emitted \cup {Len(emitted')}
      /\ emitted' # <<>>
  BY <1>1, <1>2
<1>5. Count(w) # 0 => /\ emitted # <<>>
                      /\ emitted[Len(emitted)] = <<w, Count(w)>>
  BY <1>1, <1>2 DEF TurnInv
<1>6. ASSUME NEW i \in DOMAIN emitted'
      PROVE  \/ emitted'[i][2] = 1
             \/ i > 1 /\ emitted'[i] = <<emitted'[i - 1][1], emitted'[i - 1][2] + 1>>
  <2>1. CASE i \in DOMAIN emitted
    <3>1. emitted'[i] = emitted[i] /\ (i > 1 => i - 1 \in DOMAIN emitted)
      BY <1>2, <1>4, <2>1
    <3>2. i > 1 => emitted'[i - 1] = emitted[i - 1]
      BY <1>4, <3>1
    <3> QED
      BY <2>1, <3>1, <3>2 DEF TurnInv
  <2>2. CASE i = Len(emitted') /\ Count(w) = 0
    BY <1>4, <2>2
  <2>3. CASE i = Len(emitted') /\ Count(w) # 0
    <3>1. Len(emitted) > 0 /\ Len(emitted) \in DOMAIN emitted
      BY <1>2, <1>5, <2>3
    <3>2. i > 1 /\ i - 1 = Len(emitted) /\ emitted'[i - 1] = <<w, Count(w)>>
      BY <1>4, <1>5, <2>3, <3>1
    <3> QED
      BY <1>4, <2>3, <3>2
  <2> QED
    BY <1>4, <2>1, <2>2, <2>3
<1>7. \A v \in Wards : ward'[v] \in {"unborn", "publish"} => Count(v)' = 0
  BY <1>1, <1>3 DEF TurnInv
<1> QED
  BY <1>1, <1>3, <1>4, <1>6, <1>7 DEF TurnInv

LEMMA TurnNext == Shape /\ TurnInv /\ [Next]_vars => TurnInv'
<1> SUFFICES ASSUME Shape, TurnInv, [Next]_vars PROVE TurnInv'
  OBVIOUS
<1> USE DEF wardVars, streamVars
<1>1. CASE StartWard
  <2>1. current + 1 \in Wards /\ ward[current + 1] = "unborn"
    BY <1>1, HealingAssumption DEF StartWard, Shape, StewardInv, TypeOK, Wards
  <2>2. \A w \in Wards : w # current + 1 => ward'[w] = ward[w]
    BY <1>1 DEF StartWard, Shape, TypeOK
  <2> QED
    BY <1>1, <2>1, <2>2, TurnKept DEF StartWard
<1>2. CASE GlobalStop \/ Pulse \/ WardPulse \/ WardExited \/ Timeout \/ Listen \/ Cancel
  BY <1>2, TurnKept DEF GlobalStop, Pulse, WardPulse, WardExited, Timeout, Replace, Listen, Cancel
<1>3. ASSUME NEW w \in Wards, \/ WardFail(w) \/ CloseHb(w) \/ CloseData(w)
                              \/ WardTick(w) \/ WardStop(w)
      PROVE  TurnInv'
  <2>1. UNCHANGED <<emitted, source>>
    BY <1>3 DEF WardFail, CloseHb, CloseData, WardTick, WardStop
  <2>2. UNCHANGED ward \/ \E step \in {"closeHb", "hbClosed", "exited"} : WardTo(w, step)
    BY <1>3 DEF WardFail, CloseHb, CloseData, WardTick, WardStop
  <2>3. \A v \in Wards : ward'[v] \in {"unborn", "publish"} => ward[v] \in {"unborn", "publish"}
    BY <2>2 DEF WardTo, Shape, TypeOK
  <2> QED
    BY <2>1, <2>3, TurnKept
<1>4. CASE ForwardEnd \/ ForwardSend \/ BridgeNext \/ BridgeSend \/ BridgeEnd \/ TakeSend \/ TakeEnd
  BY <1>4, TurnKept
     DEF ForwardEnd, ForwardSend, BridgeNext, BridgeSend, BridgeEnd, TakeSend, TakeEnd
<1>5. CASE UNCHANGED vars
  BY <1>5, TurnKept DEF vars
<1> QED
  BY <1>1, <1>2, <1>3, <1>4, <1>5, PublishTurn, EmitTurn DEF Next, WardStep, Terminated

\* The streams of successive wards are never mixed, although a ward that was given up may
\* go on emitting while its successor runs: each ward's values follow one another from 1.
THEOREM InTurn == Spec => []WardsInTurn
<1>1. Shape /\ TurnInv => WardsInTurn
  BY DEF Shape, TurnInv, WardsInTurn
<1> QED
  BY <1>1, ShapeInit, ShapeNext, TurnInit, TurnNext, PTL DEF Spec

-----------------------------------------------------------------------------
(* What has been emitted and not yet received moves from stage to stage.   *)

LEMMA Moved ==
  ASSUME NEW S, NEW r \in Seq(S), NEW x \in Seq(S), NEW y \in Seq(S)
  PROVE  /\ x \o <<>> = x /\ <<>> \o x = x
         /\ r \o (x \o y) = (r \o x) \o y
BY ConcatEmptySeq, ConcatAssociative

LEMMA HoldingIs ==
  ASSUME Shape, NEW stage \in Stages
  PROVE  /\ Holding(stage) \in Seq(Values)
         /\ held[stage] = Nothing => Holding(stage) = <<>>
         /\ held[stage] # Nothing => held[stage] \in Values /\ Holding(stage) = <<held[stage]>>
BY DEF Shape, TypeOK, Stages, Holding

LEMMA EmitKept ==
  ASSUME Shape, NothingLost, NEW w \in Wards, Emit(w)
  PROVE  NothingLost'
<1> DEFINE v == <<w, Count(w) + 1>>
           front == Holding("take") \o Holding("bridge")
<1>1. v \in Values /\ v # Nothing /\ received \in Seq(Values)
  BY NextValue DEF Shape, TypeOK
<1>2. /\ cancelled' = cancelled /\ received' = received /\ emitted' = Append(emitted, v)
      /\ held' = [held EXCEPT !["forward"] = v] /\ held["forward"] = Nothing
  BY DEF Emit, Shape, StageInv
<1>3. /\ Holding("forward") = <<>>
      /\ Holding("take") \in Seq(Values) /\ Holding("bridge") \in Seq(Values)
  BY <1>2, HoldingIs DEF Stages
<1> HIDE DEF v
<1>4. held'["forward"] = v /\ held'["bridge"] = held["bridge"] /\ held'["take"] = held["take"]
  BY <1>2 DEF Shape, TypeOK
<1>5. /\ Holding("forward")' = <<v>> /\ Holding("bridge")' = Holding("bridge")
      /\ Holding("take")' = Holding("take")
  BY <1>1, <1>4 DEF Holding
<1>6. front \in Seq(Values) /\ front \o <<>> = front /\ front \o <<v>> = Append(front, v)
  BY <1>1, <1>3, ConcatEmptySeq, AppendIsConcat
<1>7. InFlight = front /\ InFlight' = Append(front, v)
  BY <1>3, <1>5, <1>6 DEF InFlight
<1> HIDE DEF front
<1>8. emitted = received \o front => Append(emitted, v) = received \o Append(front, v)
  BY <1>1, <1>6, GrowRest
<1> QED
  BY <1>2, <1>7, <1>8 DEF NothingLost

LEMMA ForwardKept ==
  ASSUME Shape, NothingLost, ForwardSend
  PROVE  NothingLost'
<1>1. /\ UNCHANGED <<cancelled, emitted, received>> /\ held["bridge"] = Nothing
      /\ held' = [held EXCEPT !["bridge"] = held["forward"], !["forward"] = Nothing]
  BY DEF ForwardSend, Shape, StageInv, wardVars
<1>2. held \in [Stages -> Values \cup {Nothing}]
  BY DEF Shape, TypeOK, Stages
<1>3. /\ held'["forward"] = Nothing /\ held'["bridge"] = held["forward"]
      /\ held'["take"] = held["take"]
  BY <1>1, <1>2 DEF Stages
<1>4. /\ Holding("forward")' = <<>> /\ Holding("bridge")' = Holding("forward")
      /\ Holding("take")' = Holding("take") /\ Holding("bridge") = <<>>
  <2>1. held["bridge"] = Nothing
    BY <1>1
  <2> QED
    BY <1>3, <2>1 DEF Holding, Nothing
<1>5. Holding("take") \in Seq(Values) /\ Holding("forward") \in Seq(Values)
  BY HoldingIs DEF Stages
<1>6. Holding("take") \o Holding("forward") \in Seq(Values)
  BY <1>5
<1>7. InFlight' = InFlight
  BY <1>4, <1>5, <1>6, Moved DEF InFlight
<1> QED
  BY <1>1, <1>7 DEF NothingLost

LEMMA BridgeKept ==
  ASSUME Shape, NothingLost, BridgeSend
  PROVE  NothingLost'
<1>1. /\ UNCHANGED <<cancelled, emitted, received>> /\ held["take"] = Nothing
      /\ held' = [held EXCEPT !["take"] = held["bridge"], !["bridge"] = Nothing]
  BY DEF BridgeSend, Shape, StageInv, wardVars
<1>2. held \in [Stages -> Values \cup {Nothing}]
  BY DEF Shape, TypeOK, Stages
<1>3. /\ held'["bridge"] = Nothing /\ held'["take"] = held["bridge"]
      /\ held'["forward"] = held["forward"]
  BY <1>1, <1>2 DEF Stages
<1>4. /\ Holding("forward")' = Holding("forward") /\ Holding("bridge")' = <<>>
      /\ Holding("take")' = Holding("bridge") /\ Holding("take") = <<>>
  <2>1. held["take"] = Nothing
    BY <1>1
  <2> QED
    BY <1>3, <2>1 DEF Holding, Nothing
<1>5. Holding("bridge") \in Seq(Values)
  BY HoldingIs DEF Stages
<1>6. InFlight' = InFlight
  BY <1>4, <1>5, Moved DEF InFlight
<1> QED
  BY <1>1, <1>6 DEF NothingLost

LEMMA TakeKept ==
  ASSUME Shape, NothingLost, TakeSend
  PROVE  NothingLost'
<1> DEFINE t == Holding("take")
           b == Holding("bridge")
           f == Holding("forward")
<1>1. /\ UNCHANGED <<cancelled, emitted>> /\ held["take"] # Nothing
      /\ received' = Append(received, held["take"])
      /\ held' = [held EXCEPT !["take"] = Nothing]
  BY DEF TakeSend, Shape, StageInv, wardVars
<1>2. held \in [Stages -> Values \cup {Nothing}] /\ received \in Seq(Values)
  BY DEF Shape, TypeOK, Stages
<1>3. /\ held'["take"] = Nothing /\ held'["bridge"] = held["bridge"]
      /\ held'["forward"] = held["forward"]
  BY <1>1, <1>2 DEF Stages
<1>4. t' = <<>> /\ b' = b /\ f' = f
  BY <1>3 DEF Holding
<1>5. /\ t \in Seq(Values) /\ b \in Seq(Values) /\ f \in Seq(Values)
      /\ held["take"] \in Values /\ t = <<held["take"]>>
  BY <1>1, HoldingIs DEF Stages
<1>6. received' = received \o t
  BY <1>1, <1>2, <1>5, AppendIsConcat
<1>7. InFlight = (t \o b) \o f /\ InFlight' = (<<>> \o b) \o f
  BY <1>4 DEF InFlight
<1> HIDE DEF t, b, f
<1>8. b \o f \in Seq(Values) /\ <<>> \o b = b /\ (t \o b) \o f = t \o (b \o f)
  BY <1>5, Moved
<1>9. (received \o t) \o (b \o f) = received \o (t \o (b \o f))
  BY <1>2, <1>5, <1>8, Moved
<1> QED
  BY <1>1, <1>6, <1>7, <1>8, <1>9 DEF NothingLost

LEMMA LostNext == Shape /\ NothingLost /\ [Next]_vars => NothingLost'
<1> SUFFICES ASSUME Shape, NothingLost, [Next]_vars PROVE NothingLost'
  OBVIOUS
<1>1. ASSUME UNCHANGED <<cancelled, emitted, received, held>> PROVE NothingLost'
  BY <1>1 DEF NothingLost, InFlight, Holding
<1>2. held = [held EXCEPT !["forward"] = held["forward"]]
      /\ held = [held EXCEPT !["bridge"] = held["bridge"]]
      /\ held = [held EXCEPT !["take"] = held["take"]]
  BY DEF Shape, TypeOK
<1>3. CASE ForwardEnd \/ BridgeEnd \/ TakeEnd
  <2>1. CASE cancelled
    <3>1. cancelled'
      BY <1>3, <2>1 DEF ForwardEnd, BridgeEnd, TakeEnd
    <3> QED
      BY <3>1 DEF NothingLost
  <2>2. CASE ~cancelled
    <3>1. held' = held
      BY <1>2, <1>3, <2>2 DEF ForwardEnd, BridgeEnd, TakeEnd, Shape, StageInv
    <3> QED
      BY <1>1, <1>3, <3>1 DEF ForwardEnd, BridgeEnd, TakeEnd, wardVars
  <2> QED
    BY <2>1, <2>2
<1>4. CASE Cancel
  BY <1>4 DEF Cancel, NothingLost
<1>5. CASE \/ StartWard \/ GlobalStop \/ Pulse \/ WardPulse \/ WardExited \/ Timeout \/ Listen
           \/ BridgeNext
  BY <1>1, <1>5 DEF StartWard, GlobalStop, Pulse, WardPulse, WardExited, Timeout, Replace, Listen,
                    BridgeNext, wardVars, streamVars
<1>6. ASSUME NEW w \in Wards, \/ Publish(w) \/ WardFail(w) \/ CloseHb(w) \/ CloseData(w)
                              \/ WardTick(w) \/ WardStop(w)
      PROVE  NothingLost'
  BY <1>1, <1>6 DEF Publish, WardFail, CloseHb, CloseData, WardTick, WardStop, streamVars
<1>7. CASE UNCHANGED vars
  BY <1>1, <1>7 DEF vars, wardVars, streamVars
<1> QED
  BY <1>3, <1>4, <1>5, <1>6, <1>7, EmitKept, ForwardKept, BridgeKept, TakeKept
     DEF Next, WardStep, Terminated

\* Restarts lose nothing: while the context is alive, what the wards have emitted is what
\* main has received and what take, bridge and orForward hold, in this order.
THEOREM NoneLost == Spec => []NothingLost
<1>1. Init => NothingLost
  BY ConcatEmptySeq DEF Init, NothingLost, InFlight, Holding
<1> QED
  BY <1>1, ShapeInit, ShapeNext, LostNext, PTL DEF Spec
=============================================================================
