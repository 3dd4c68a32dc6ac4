------------------------------- MODULE Flows --------------------------------
(***************************************************************************)
(* The packages under flows/: goroutines connected by unbuffered channels, *)
(* each a loop around a select.  A network gives for every goroutine what  *)
(* its select listens to; the actions below are the loops.  The operators  *)
(* Source, Relay, Tee, Bridge, OrTree ... are the functions of the code,   *)
(* and the networks are its examples.                                      *)
(*                                                                         *)
(* A context is the channel ctx.Done(): cancelling closes it, and it may   *)
(* be cancelled at any moment.  A value stands for what is computed from   *)
(* one item of the source.  The deferred closes of a goroutine are one     *)
(* step with its return, since no goroutine listens to two of its outputs. *)
(***************************************************************************)
EXTENDS Naturals, FiniteSets, SequencesExt

CONSTANTS Examples,      (* names of the examples to run                   *)
          Items,         (* how many items a source emits; a bound for the *)
                         (* generator, which goes on for ever              *)
          FanWorkers,    (* names of the workers of FanOut                 *)
          ChunkChannel,  (* the channels that ChunkedSource makes, in order*)
          TimerChannel,  (* the channels of After that Or combines         *)
          OrChannel      (* orDone of Or and of its recursive calls        *)

Chunks == Len(ChunkChannel)
Timers == Len(TimerChannel)

FlowsAssumption ==
  /\ Examples \subseteq {"pipeline", "ordone", "tee", "fanoutin", "generator",
                         "selectloop", "bridge", "or"}
  /\ Items \in Nat \ {0}
  /\ IsFiniteSet(FanWorkers)
  /\ {"src", "closer", "main", "bridge"} \cap FanWorkers = {}
  /\ \A names \in {ChunkChannel, TimerChannel, OrChannel} :
       /\ names \in Seq(STRING) /\ names # <<>> /\ IsInjective(names)
       /\ {"main", "chunker", "bridge", "c1", "c2", "ctx", "parent", "consumer"}
            \cap Range(names) = {}
  /\ Range(TimerChannel) \cap Range(OrChannel) = {}
  /\ Len(OrChannel) >= Timers   \* each recursive call has two channels fewer

None == "none"

-----------------------------------------------------------------------------
(* Goroutines.                                                             *)

Goroutine == [start |-> "recv",    \* where its loop begins
              watches |-> {},      \* channels whose closing ends every select
              in |-> None,         \* channel it receives from
              outs |-> {},         \* channels that get every value
              closes |-> {},       \* channels closed by its defers
              emits |-> <<>>,      \* the items of a source
              paced |-> TRUE,      \* a source waits for its ticker between items
              endless |-> FALSE,   \* a source never comes to an end
              chunk |-> 0,         \* spawned by "chunker" for this chunk
              joins |-> {}]        \* goroutines it waits for before it returns

UpTo(n) == [i \in 1..n |-> i]

Source(ctx, n, out) ==
  [Goroutine EXCEPT !.start = "pause", !.watches = {ctx}, !.emits = UpTo(n),
                    !.outs = {out}, !.closes = {out}]

numbers(ctx, out) ==
  [Goroutine EXCEPT !.start = "send", !.watches = {ctx}, !.emits = UpTo(Items),
                    !.outs = {out}, !.closes = {out}, !.endless = TRUE]

\* OrDone, and Map, whose fn is applied to one item after the other.
Relay(ctx, in, out) ==
  [Goroutine EXCEPT !.watches = {ctx}, !.in = in, !.outs = {out}, !.closes = {out}]

TeeOneSided(ctx, in, out1, out2) ==   \* mutant: o2 is nil from the beginning
  [Goroutine EXCEPT !.watches = {ctx}, !.in = in, !.outs = {out1}, !.closes = {out1, out2}]

Tee(ctx, in, out1, out2) ==
  [Goroutine EXCEPT !.watches = {ctx}, !.in = in, !.outs = {out1, out2},
                    !.closes = {out1, out2}]

FanOutWorker(ctx, in, out) ==
  [Goroutine EXCEPT !.watches = {ctx}, !.in = in, !.outs = {out}]

FanOutCloser(out) ==   \* wg.Wait(); close(out)
  [Goroutine EXCEPT !.start = "join", !.joins = FanWorkers, !.closes = {out}]

Consumer(in) == [Goroutine EXCEPT !.in = in]   \* for v := range in

ChunkItem(c, i) == 10 * c + i

\* The item c stands for the channel of chunk c; no ticker between the chunks.
ChunkedSource(ctx, out) ==
  [Goroutine EXCEPT !.start = "send", !.watches = {ctx}, !.emits = UpTo(Chunks),
                    !.outs = {out}, !.closes = {out}, !.paced = FALSE]

ChunkProducer(ctx, c) ==
  [Source(ctx, Items, ChunkChannel[c]) EXCEPT
     !.emits = [i \in 1..Items |-> ChunkItem(c, i)], !.chunk = c]

Bridge(ctx, streams, out) == Relay(ctx, streams, out)

\* What the recursive calls of Or are given: the rest of the channels and orDone.
OrInputs(chs) ==
  LET inputs[d \in DOMAIN OrChannel] ==
        IF d = 1 THEN chs
        ELSE IF Len(inputs[d - 1]) > 2
             THEN Append(SubSeq(inputs[d - 1], 4, Len(inputs[d - 1])), OrChannel[d - 1])
             ELSE <<>>
  IN inputs

\* The tree of goroutines that Or(chs...) starts.  Depth d listens to the first three
\* channels and to the tree of the others, its own output included.
OrTree(chs) ==
  LET inputs == OrInputs(chs)
      listens(d) ==
        IF Len(inputs[d]) = 2 THEN Range(inputs[d])
        ELSE Range(SubSeq(inputs[d], 1, 3)) \cup
             {IF Len(inputs[d + 1]) = 1 THEN OrChannel[d] ELSE OrChannel[d + 1]}
      depths == {d \in DOMAIN OrChannel : Len(inputs[d]) >= 2}
  IN [name \in {OrChannel[d] : d \in depths} |->
        [Goroutine EXCEPT
           !.start = "watch", !.closes = {name},
           !.watches = listens(CHOOSE d \in depths : OrChannel[d] = name)]]

OrContextOneWay(ctx, chs) ==   \* mutant: the recursive call is not given orDone
  LET tree == OrTree(Append(chs, ctx))
  IN [d \in DOMAIN tree |-> [tree[d] EXCEPT !.watches = @ \ {OrChannel[2]}]]

OrContext(ctx, chs) == OrTree(Append(chs, ctx))

After(c) == [Goroutine EXCEPT !.start = "timer", !.closes = {c}]

-----------------------------------------------------------------------------
(* The examples.                                                           *)

PipelineExample ==
  [src |-> Source("ctx", Items, "c1"), squared |-> Relay("ctx", "c1", "c2"),
   doubled |-> Relay("ctx", "c2", "c3"), main |-> Consumer("c3")]

OrDoneExample ==
  [src |-> Source("parent", Items, "c1"), stream |-> Relay("consumer", "c1", "c2"),
   main |-> Consumer("c2")]

TeeExample ==
  [src |-> Source("ctx", Items, "c1"), tee |-> Tee("ctx", "c1", "out1", "out2"),
   A |-> Consumer("out1"), B |-> Consumer("out2")]

FanOutFanInExample ==
  [p \in FanWorkers \cup {"src", "closer", "main"} |->
     CASE p = "src" -> Source("ctx", Items, "c1")
       [] p = "closer" -> FanOutCloser("c2")
       [] p = "main" -> Consumer("c2")
       [] OTHER -> FanOutWorker("ctx", "c1", "c2")]

GeneratorExample == [src |-> numbers("ctx", "c1"), main |-> Consumer("c1")]

\* The producer does not listen to the context.
SelectLoopExample ==
  [src |-> [Goroutine EXCEPT !.start = "send", !.emits = UpTo(Items), !.outs = {"c1"},
                             !.closes = {"c1"}],
   main |-> [Consumer("c1") EXCEPT !.watches = {"ctx"}]]

BridgeExample ==
  [p \in Range(ChunkChannel) \cup {"chunker", "bridge", "main"} |->
     CASE p = "chunker" -> ChunkedSource("ctx", "c1")
       [] p = "bridge" -> Bridge("ctx", "c1", "c2")
       [] p = "main" -> Consumer("c2")
       [] OTHER -> ChunkProducer("ctx", CHOOSE c \in 1..Chunks : ChunkChannel[c] = p)]

OrExample ==
  LET tree == OrContext("ctx", TimerChannel)
  IN [p \in DOMAIN tree \cup Range(TimerChannel) \cup {"main"} |->
        CASE p \in DOMAIN tree -> tree[p]
          [] p = "main" -> Consumer(OrChannel[1])
          [] OTHER -> After(p)]

Network ==
  [pipeline |-> PipelineExample, ordone |-> OrDoneExample, tee |-> TeeExample,
   fanoutin |-> FanOutFanInExample, generator |-> GeneratorExample,
   selectloop |-> SelectLoopExample, bridge |-> BridgeExample, or |-> OrExample]

-----------------------------------------------------------------------------
VARIABLES example,  (* the name of what main runs                          *)
          net,      (* its goroutines; none if it is of another package    *)
          st,       (* state of each goroutine's loop, see Init            *)
          closed,   (* the closed channels, contexts that are done included*)
          got       (* history: what each goroutine has received to keep   *)

wiring == <<example, net>>
vars == <<wiring, st, closed, got>>

At(p) == st[p].at

Start ==
  /\ net = IF example \in DOMAIN Network THEN Network[example] ELSE <<>>
  /\ st = [p \in DOMAIN net |->
             [at |-> net[p].start,   \* next step
              from |-> net[p].in,    \* channel it receives from now
              held |-> 0,            \* the value it is forwarding
              todo |-> net[p].outs,  \* outputs still to be served
              sent |-> 0]]           \* items a source has sent
  /\ closed = {}
  /\ got = [p \in DOMAIN net |-> <<>>]

Init == example \in Examples /\ Start

Contexts == {"ctx", "parent", "consumer"} \cap UNION {net[p].watches : p \in DOMAIN net}
Sinks == {p \in DOMAIN net : net[p].outs = {} /\ net[p].in # None}
IsSource(p) == net[p].emits # <<>>

\* ChunkedSource starts the producer of a chunk before it offers its channel.
Born(p) == net[p].chunk # 0 => net[p].chunk <= st["chunker"].sent + 1

LeaveOpen(p) ==   \* mutant: a source that has emitted all does not close its output
  /\ st' = [st EXCEPT ![p].at = "exited"]
  /\ closed' = IF At(p) = "return" THEN closed ELSE closed \cup net[p].closes
  /\ UNCHANGED <<wiring, got>>

Leave(p) ==
  /\ st' = [st EXCEPT ![p].at = "exited"]
  /\ closed' = closed \cup net[p].closes
  /\ UNCHANGED <<wiring, got>>

-----------------------------------------------------------------------------
(* Steps of a goroutine.                                                   *)

Tick(p) ==   \* case <-t.C
  /\ At(p) = "pause"
  /\ Born(p)
  /\ st[p].sent < Len(net[p].emits)
  /\ st' = [st EXCEPT ![p].at = "send"]
  /\ UNCHANGED <<wiring, closed, got>>

Value(p) == IF IsSource(p) THEN net[p].emits[st[p].sent + 1] ELSE st[p].held

AfterItem(p) ==
  LET last == st[p].sent + 1 = Len(net[p].emits) /\ ~net[p].endless
  IN [st[p] EXCEPT !.sent = @ + 1, !.todo = net[p].outs,
                   !.at = IF last THEN "return" ELSE IF net[p].paced THEN "pause" ELSE "send"]

AfterSend(p, c) ==
  IF st[p].todo # {c} THEN [st[p] EXCEPT !.todo = @ \ {c}]
  ELSE IF IsSource(p) THEN AfterItem(p)
  ELSE [st[p] EXCEPT !.at = "recv", !.todo = net[p].outs]

\* Bridge takes from the outer stream the channel that it then drains.
TakesStream(q) == q = "bridge" /\ st[q].from = net[q].in

AfterReceiveHop(q, v) ==   \* mutant: Bridge goes back to the outer stream for every value
  IF TakesStream(q) THEN [st[q] EXCEPT !.from = ChunkChannel[v]]
  ELSE IF net[q].outs = {} THEN st[q]
  ELSE [st[q] EXCEPT !.at = "send", !.held = v, !.from = net[q].in]

AfterReceive(q, v) ==
  IF TakesStream(q) THEN [st[q] EXCEPT !.from = ChunkChannel[v]]
  ELSE IF net[q].outs = {} THEN st[q]
  ELSE [st[q] EXCEPT !.at = "send", !.held = v]

\* An unbuffered channel: p sends to q in one step of both.
Pass(p, q) ==
  \E c \in st[p].todo :
    /\ At(p) = "send"
    /\ At(q) = "recv"
    /\ st[q].from = c
    /\ st' = [st EXCEPT ![p] = AfterSend(p, c), ![q] = AfterReceive(q, Value(p))]
    /\ got' = IF q \in Sinks THEN [got EXCEPT ![q] = Append(@, Value(p))] ELSE got
    /\ UNCHANGED <<wiring, closed>>

EndOfInputLast(q) ==   \* mutant: Bridge returns at the end of the first inner stream
  /\ At(q) = "recv"
  /\ st[q].from \in closed
  /\ Leave(q)

\* v, ok := <-in with ok = false: the end of an inner stream sends Bridge back to the
\* outer one, and everybody else home.
EndOfInput(q) ==
  /\ At(q) = "recv"
  /\ st[q].from \in closed
  /\ IF st[q].from = net[q].in
       THEN Leave(q)
       ELSE /\ st' = [st EXCEPT ![q].from = net[q].in]
            /\ UNCHANGED <<wiring, closed, got>>

QuitUnlessSending(p) ==   \* mutant: the inner select has no ctx.Done()
  /\ At(p) \in {"recv", "pause", "watch"}
  /\ Born(p)
  /\ net[p].watches \cap closed # {}
  /\ Leave(p)

\* case <-ctx.Done(), and in Or case <-channels[i].
Quit(p) ==
  /\ At(p) \in {"recv", "send", "pause", "watch"}
  /\ Born(p)
  /\ net[p].watches \cap closed # {}
  /\ Leave(p)

Return(p) == At(p) = "return" /\ Leave(p)

JoinOne(p) ==   \* mutant: wg.Add(1) in place of wg.Add(workerCount)
  /\ At(p) = "join"
  /\ \E w \in net[p].joins : At(w) = "exited"
  /\ Leave(p)

Join(p) ==
  /\ At(p) = "join"
  /\ \A w \in net[p].joins : At(w) = "exited"
  /\ Leave(p)

Fire(p) == At(p) = "timer" /\ Leave(p)

Cancel(c) ==
  /\ c \notin closed
  /\ closed' = closed \cup {c}
  /\ UNCHANGED <<wiring, st, got>>

-----------------------------------------------------------------------------
Moves(p) == Tick(p) \/ EndOfInput(p) \/ Quit(p) \/ Return(p) \/ Join(p)
Step(p) == Moves(p) \/ \E q \in DOMAIN net : Pass(p, q) \/ Pass(q, p)

\* The example is over when its consumers are.
Terminated ==
  /\ example \in Examples
  /\ \A s \in Sinks : At(s) = "exited"
  /\ UNCHANGED vars

Next ==
  \/ \E p \in DOMAIN net : Moves(p) \/ Fire(p) \/ \E q \in DOMAIN net : Pass(p, q)
  \/ \E c \in Contexts : Cancel(c)
  \/ Terminated

\* Goroutines keep running; contexts and the timers of After need not fire.
Everybody == UNION {DOMAIN Network[e] : e \in Examples}
Fairness == \A p \in Everybody : WF_vars(p \in DOMAIN net /\ Step(p))

Spec == Init /\ [][Next]_vars /\ Fairness

-----------------------------------------------------------------------------
(* Properties.                                                             *)

Exited(p) == p \in DOMAIN net => At(p) = "exited" \/ ~Born(p)

Cancelled == Contexts \cap closed # {}

\* What the consumers of an example are to receive.
Expected ==
  IF example = "bridge"
    THEN [k \in 1..(Chunks * Items) |-> ChunkItem(((k - 1) \div Items) + 1, ((k - 1) % Items) + 1)]
    ELSE IF example = "or" THEN <<>> ELSE UpTo(Items)

\* The variables keep their types.
TypeOK ==
  /\ \A p \in DOMAIN net :
       /\ At(p) \in {"recv", "send", "pause", "return", "watch", "join", "timer", "exited"}
       /\ st[p].todo \subseteq net[p].outs
       /\ At(p) = "send" => st[p].todo # {}
       /\ st[p].sent \in 0..Len(net[p].emits)
       /\ st[p].held \in Nat
  /\ closed \subseteq Contexts \cup UNION {net[p].closes : p \in DOMAIN net}
  /\ DOMAIN got = DOMAIN net

\* No goroutine can be about to send on, or to close, a closed channel; in FanOut all
\* workers share the output that wg.Wait() guards.  It includes the types.
ChannelsSafe ==
  /\ TypeOK
  /\ \A p \in DOMAIN net :
       /\ At(p) = "send" => st[p].todo \cap closed = {}
       /\ At(p) # "exited" => net[p].closes \cap closed = {}

\* Every consumer receives the values in order, without a gap and without a repetition,
\* up to the point where it is cut off: pipeline, OrDone, both sides of Tee, and the
\* chunks of Bridge one after the other although their producers run at once; only a
\* cancelled context may cut a chunk short of which Bridge still takes the next.  The
\* workers of FanOut may overtake each other; still no value is delivered twice.
Delivery ==
  \A s \in Sinks :
    CASE example = "fanoutin" ->
           IsInjective(got[s]) /\ Range(got[s]) \subseteq Range(Expected)
      [] example = "bridge" /\ Cancelled ->
           /\ \A i, j \in DOMAIN got[s] : i < j => got[s][i] < got[s][j]
           /\ \A c \in 1..Chunks : \E k \in 0..Items :
                {v \in Range(got[s]) : v \div 10 = c} = {ChunkItem(c, i) : i \in 1..k}
      [] OTHER -> IsPrefix(got[s], Expected)

\* Unless a context was cancelled, a consumer that sees the end of its stream has
\* received everything.
Complete ==
  \A s \in Sinks :
    At(s) = "exited" /\ ~Cancelled => Len(got[s]) = Len(Expected)

\* "We keep trying until both succeed": the consumers of Tee are never more than one
\* value apart, however slow one of them is.
TeeInStep ==
  example = "tee" => /\ Len(got["A"]) <= Len(got["B"]) + 1
                     /\ Len(got["B"]) <= Len(got["A"]) + 1

\* Cancelling a context ends every goroutine that was given it, also one that nobody
\* receives from any more.
CancelEnds ==
  \A c \in {"ctx", "parent", "consumer"} :
    c \in closed ~> \A p \in DOMAIN net : c \in net[p].watches => Exited(p)

\* When one input of Or closes, every goroutine of its tree returns, whatever its depth.
OrCollapses ==
  example = "or" /\ closed # {} ~> \A d \in DOMAIN net \cap Range(OrChannel) : At(d) = "exited"

\* A consumer that ranges over a stream comes to an end: with the source, or with the
\* context.  The generator and Or, which never end by themselves, need the latter.
ConsumersReturn ==
  (example \in {"generator", "or"} => closed # {}) ~> \A s \in Sinks : At(s) = "exited"

\* "this cancels the wrapper, which stops reading src and avoids leaking the producer"
\* (ordone.go:87): the source returns once the consumer's context is cancelled.
ProducerNotLeaked == example = "ordone" /\ "consumer" \in closed ~> Exited("src")
=============================================================================
