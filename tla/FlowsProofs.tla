----------------------------- MODULE FlowsProofs ------------------------------
(***************************************************************************)
(* Proofs about the examples of flows/, as parts of MainSpec, for networks *)
(* of any size: nobody sends on or closes a closed channel, the consumers  *)
(* receive the values in order and all of them, and those of Tee stay in   *)
(* step.  The order of the chunks that Bridge puts together is left to the *)
(* model checker.                                                          *)
(***************************************************************************)
EXTENDS MainProofs, Histories, FiniteSetTheorems, FunctionTheorems

(* Channels.                                                               *)

ContextNames == {"ctx", "parent", "consumer"}

\* A network of goroutines: what emits is a source, and every channel has one closer, which
\* is the only sender on it or has joined all its senders.
Sound(n) ==
  /\ \A p \in DOMAIN n :
       /\ n[p].start \in {"recv", "send", "pause", "watch", "join", "timer"}
       /\ n[p].emits \in Seq(Nat)
       /\ n[p].emits # <<>> <=> n[p].start \in {"send", "pause"}
       /\ n[p].emits # <<>> => n[p].outs # {}
       /\ n[p].endless => n[p].paced
       /\ n[p].joins # {} => n[p].start = "join"
       /\ n[p].joins \subseteq DOMAIN n
       /\ n[p].closes \cap ContextNames = {}
       /\ \A c \in n[p].outs : \E o \in DOMAIN n : c \in n[o].closes /\ (o = p \/ p \in n[o].joins)
  /\ \A p, q \in DOMAIN n : n[p].closes \cap n[q].closes # {} => p = q

\* The state of each loop, the histories, and which channels can be closed.
Loops ==
  /\ st = [p \in DOMAIN net |-> [at |-> st[p].at, from |-> st[p].from, held |-> st[p].held,
                                 todo |-> st[p].todo, sent |-> st[p].sent]]
  /\ got \in [DOMAIN net -> Seq(Nat)]
  /\ closed \subseteq F!Contexts \cup UNION {net[p].closes : p \in DOMAIN net}

\* A loop in state r is one of goroutine g.
Fits(g, r) ==
  /\ r.at \in {"recv", "send", "pause", "return", "watch", "join", "timer", "exited"}
  /\ r.todo \subseteq g.outs
  /\ g.outs # {} => r.todo # {}
  /\ r.at = "send" => g.outs # {}
  /\ r.sent \in 0..Len(g.emits)
  /\ r.held \in Nat
  /\ g.emits # <<>> => r.at \in {"pause", "send", "return", "exited"}
  /\ g.emits # <<>> /\ r.at = "send" => r.sent < Len(g.emits)
  /\ g.emits = <<>> => r.at # "pause"
  /\ g.joins # {} => r.at \in {"join", "exited"}

LoopInv(p) == Fits(net[p], st[p])

\* Closed channels belong to goroutines that have left, and whoever waited for others has
\* left after them.
ClosedInv(p) ==
  /\ st[p].at = "exited" => \A w \in net[p].joins : st[w].at = "exited"
  /\ net[p].closes \cap closed # {} => st[p].at = "exited"

\* The inductive invariant behind ChannelsSafe.
FlowInv == Sound(net) /\ Loops /\ \A p \in DOMAIN net : LoopInv(p) /\ ClosedInv(p)

\* Whoever still sends has not let the closer of its channel leave.
LEMMA FlowSafe == FlowInv => F!ChannelsSafe
<1> SUFFICES ASSUME FlowInv PROVE F!ChannelsSafe
  OBVIOUS
<1>1. F!TypeOK
  BY DEF FlowInv, F!TypeOK, F!At, Loops, LoopInv, Fits
<1>2. ASSUME NEW p \in DOMAIN net PROVE F!At(p) # "exited" => net[p].closes \cap closed = {}
  BY DEF FlowInv, ClosedInv, F!At
<1>3. ASSUME NEW p \in DOMAIN net, F!At(p) = "send", NEW c \in st[p].todo, c \in closed
      PROVE  FALSE
  <2>1. PICK o \in DOMAIN net : c \in net[o].closes /\ (o = p \/ p \in net[o].joins)
    BY <1>3 DEF FlowInv, Sound, LoopInv, Fits
  <2>2. st[o].at = "exited"
    BY <1>3, <2>1 DEF FlowInv, ClosedInv
  <2> QED
    BY <1>3, <2>1, <2>2 DEF FlowInv, ClosedInv, F!At
<1> QED
  BY <1>1, <1>2, <1>3 DEF F!ChannelsSafe

\* a step of one goroutine that closes nothing
LEMMA OneLoop ==
  ASSUME FlowInv, NEW p \in DOMAIN net, UNCHANGED <<net, closed, got>>,
         NEW new, new = [at |-> new.at, from |-> new.from, held |-> new.held,
                         todo |-> new.todo, sent |-> new.sent],
         st' = [st EXCEPT ![p] = new], st[p].at # "exited", new.at # "exited",
         LoopInv(p)'
  PROVE  FlowInv'
<1>1. /\ \A q \in DOMAIN net : q # p => st'[q] = st[q]
      /\ st'[p] = new
  BY DEF FlowInv, Loops
<1>2. Loops'
  <2>1. F!Contexts' = F!Contexts
    BY DEF F!Contexts
  <2>2. DOMAIN st = DOMAIN net
    BY DEF FlowInv, Loops
  <2>3. st' = [q \in DOMAIN net |-> IF q = p THEN new ELSE st[q]]
    BY <2>2
  <2>4. ASSUME NEW q \in DOMAIN net
        PROVE  st'[q] = [at |-> st'[q].at, from |-> st'[q].from, held |-> st'[q].held,
                         todo |-> st'[q].todo, sent |-> st'[q].sent]
    BY <1>1 DEF FlowInv, Loops
  <2>5. st' = [q \in DOMAIN net' |->
                [at |-> st'[q].at, from |-> st'[q].from, held |-> st'[q].held,
                 todo |-> st'[q].todo, sent |-> st'[q].sent]]
    BY <2>3, <2>4
  <2>6. got' \in [DOMAIN net' -> Seq(Nat)]
    BY DEF FlowInv, Loops
  <2>7. closed' \subseteq F!Contexts' \cup UNION {net'[q].closes : q \in DOMAIN net'}
    BY <2>1 DEF FlowInv, Loops
  <2> QED
    BY <2>5, <2>6, <2>7 DEF Loops
<1>3. ASSUME NEW q \in DOMAIN net, q # p PROVE LoopInv(q)'
  BY <1>1, <1>3 DEF FlowInv, LoopInv, Fits
<1>4. ASSUME NEW q \in DOMAIN net PROVE ClosedInv(q)'
  BY <1>1 DEF FlowInv, ClosedInv
<1> QED
  BY <1>2, <1>3, <1>4 DEF FlowInv

\* A record with exactly the fields of a loop, and its updates.
Whole(r) == r = [at |-> r.at, from |-> r.from, held |-> r.held, todo |-> r.todo, sent |-> r.sent]

LEMMA WholeExcept ==
  ASSUME NEW r, Whole(r), NEW x
  PROVE  /\ [r EXCEPT !.at = x] = [at |-> x, from |-> r.from, held |-> r.held,
                                   todo |-> r.todo, sent |-> r.sent]
         /\ [r EXCEPT !.from = x] = [at |-> r.at, from |-> x, held |-> r.held,
                                     todo |-> r.todo, sent |-> r.sent]
BY DEF Whole

\* A goroutine that leaves closes its own channels, after all it waited for.
LEMMA LeaveLoop ==
  ASSUME FlowInv, NEW p \in DOMAIN net, F!Leave(p), st[p].at # "exited",
         \A w \in net[p].joins : st[w].at = "exited"
  PROVE  FlowInv'
<1>1. /\ \A q \in DOMAIN net : q # p => st'[q] = st[q]
      /\ st'[p] = [at |-> "exited", from |-> st[p].from, held |-> st[p].held,
                   todo |-> st[p].todo, sent |-> st[p].sent]
      /\ UNCHANGED <<net, got>> /\ closed' = closed \cup net[p].closes
  <2>1. DOMAIN st = DOMAIN net /\ st[p] = [at |-> st[p].at, from |-> st[p].from, held |-> st[p].held,
                   todo |-> st[p].todo, sent |-> st[p].sent]
    BY DEF FlowInv, Loops
  <2>2. UNCHANGED <<net, got>> /\ closed' = closed \cup net[p].closes
    BY DEF F!Leave, F!wiring
  <2>3. st' = [st EXCEPT ![p].at = "exited"]
    BY DEF F!Leave
  <2> QED
    BY <2>1, <2>2, <2>3
<1>2. Loops'
  <2>1. F!Contexts' = F!Contexts
    BY <1>1 DEF F!Contexts
  <2>2. DOMAIN st' = DOMAIN net /\ st' = [q \in DOMAIN net |-> st'[q]]
    BY DEF F!Leave, FlowInv, Loops
  <2>4. ASSUME NEW q \in DOMAIN net
        PROVE  st'[q] = [at |-> st'[q].at, from |-> st'[q].from, held |-> st'[q].held,
                         todo |-> st'[q].todo, sent |-> st'[q].sent]
    BY <1>1 DEF FlowInv, Loops
  <2>5. st' = [q \in DOMAIN net' |->
                [at |-> st'[q].at, from |-> st'[q].from, held |-> st'[q].held,
                 todo |-> st'[q].todo, sent |-> st'[q].sent]]
    BY <1>1, <2>2, <2>4
  <2>6. got' \in [DOMAIN net' -> Seq(Nat)]
    BY <1>1 DEF FlowInv, Loops
  <2>7. closed' \subseteq F!Contexts' \cup UNION {net'[q].closes : q \in DOMAIN net'}
    BY <1>1, <2>1 DEF FlowInv, Loops
  <2> QED
    BY <2>5, <2>6, <2>7 DEF Loops
<1>3. ASSUME NEW q \in DOMAIN net PROVE LoopInv(q)'
  <2>1. LoopInv(q) /\ (q = p => net[p].joins \subseteq DOMAIN net)
    BY DEF FlowInv, Sound
  <2>2. CASE q = p
    BY <1>1, <2>1, <2>2 DEF LoopInv, Fits
  <2>3. CASE q # p
    BY <1>1, <2>1, <2>3 DEF LoopInv, Fits
  <2> QED
    BY <2>2, <2>3
<1>4. ASSUME NEW q \in DOMAIN net PROVE ClosedInv(q)'
  <2>1. ASSUME NEW w \in net[q].joins, st[w].at = "exited" PROVE st'[w].at = "exited"
    <3>1. w \in DOMAIN net
      BY DEF FlowInv, Sound
    <3> QED
      BY <1>1, <2>1, <3>1
  <2>2. ASSUME st'[q].at = "exited", NEW w \in net[q].joins PROVE st'[w].at = "exited"
    BY <1>1, <2>1, <2>2 DEF FlowInv, ClosedInv
  <2>3. ASSUME net[q].closes \cap closed' # {} PROVE st'[q].at = "exited"
    <3>1. CASE q = p
      BY <1>1, <3>1
    <3>2. CASE q # p
      <4>1. \A a, b \in DOMAIN net : net[a].closes \cap net[b].closes # {} => a = b
        BY DEF FlowInv, Sound
      <4>2. net[q].closes \cap net[p].closes = {}
        BY <3>2, <4>1
      <4>3. net[q].closes \cap closed # {}
        BY <1>1, <2>3, <4>2
      <4> QED
        BY <1>1, <3>2, <4>3 DEF FlowInv, ClosedInv
    <3> QED
      BY <3>1, <3>2
  <2> QED
    BY <1>1, <2>2, <2>3 DEF ClosedInv
<1> QED
  BY <1>1, <1>2, <1>3, <1>4 DEF FlowInv

\* A context is not the channel of a goroutine.
LEMMA CancelLoop ==
  ASSUME FlowInv, NEW c \in F!Contexts, F!Cancel(c)
  PROVE  FlowInv'
<1>1. UNCHANGED <<net, st, got>> /\ closed' = closed \cup {c} /\ F!Contexts' = F!Contexts
  BY DEF F!Cancel, F!wiring, F!Contexts
<1>2. \A p \in DOMAIN net : c \notin net[p].closes
  BY DEF FlowInv, Sound, F!Contexts, ContextNames
<1>3. ASSUME NEW p \in DOMAIN net PROVE LoopInv(p)' /\ ClosedInv(p)'
  BY <1>1, <1>2 DEF FlowInv, LoopInv, Fits, ClosedInv
<1>4. Loops'
  BY <1>1 DEF FlowInv, Loops
<1> QED
  BY <1>1, <1>3, <1>4 DEF FlowInv

\* Every step of one goroutine keeps FlowInv.
LEMMA MoveLoop ==
  ASSUME FlowInv, NEW p \in DOMAIN net, F!Moves(p) \/ F!Fire(p)
  PROVE  FlowInv'
<1>1. LoopInv(p) /\ Whole(st[p]) /\ DOMAIN st = DOMAIN net
  BY DEF FlowInv, Loops, Whole
<1>2. CASE F!Tick(p)
  <2> DEFINE new == [at |-> "send", from |-> st[p].from, held |-> st[p].held,
                     todo |-> st[p].todo, sent |-> st[p].sent]
  <2>1. /\ st[p].at = "pause" /\ st[p].sent < Len(net[p].emits) /\ UNCHANGED <<net, closed, got>>
        /\ st' = [st EXCEPT ![p].at = "send"]
    BY <1>2 DEF F!Tick, F!At, F!wiring
  <2>2. st' = [st EXCEPT ![p] = new] /\ st'[p] = new
    BY <1>1, <2>1, WholeExcept
  <2>3. net[p].outs # {}
    BY <1>1, <2>1 DEF LoopInv, Fits, FlowInv, Sound
  <2>4. LoopInv(p)'
    BY <1>1, <2>1, <2>2, <2>3 DEF LoopInv, Fits
  <2>5. new = [at |-> new.at, from |-> new.from, held |-> new.held, todo |-> new.todo, sent |-> new.sent]
        /\ new.at # "exited"
    OBVIOUS
  <2> HIDE DEF new
  <2> QED
    BY <2>1, <2>2, <2>4, <2>5, OneLoop
<1>3. CASE F!EndOfInput(p) /\ st[p].from # net[p].in
  <2> DEFINE new == [at |-> st[p].at, from |-> net[p].in, held |-> st[p].held,
                     todo |-> st[p].todo, sent |-> st[p].sent]
  <2>1. /\ st[p].at = "recv" /\ UNCHANGED <<net, closed, got>>
        /\ st' = [st EXCEPT ![p].from = net[p].in]
    BY <1>3 DEF F!EndOfInput, F!At, F!wiring
  <2>2. st' = [st EXCEPT ![p] = new] /\ st'[p] = new
    BY <1>1, <2>1, WholeExcept
  <2>4. LoopInv(p)'
    BY <1>1, <2>1, <2>2 DEF LoopInv, Fits
  <2>5. new = [at |-> new.at, from |-> new.from, held |-> new.held, todo |-> new.todo, sent |-> new.sent]
        /\ new.at # "exited"
    BY <2>1
  <2> HIDE DEF new
  <2> QED
    BY <2>1, <2>2, <2>4, <2>5, OneLoop
<1>4. CASE \/ F!EndOfInput(p) /\ st[p].from = net[p].in
           \/ F!Quit(p) \/ F!Return(p) \/ F!Fire(p)
  <2>1. F!Leave(p) /\ st[p].at \in {"recv", "send", "pause", "watch", "return", "timer"}
    BY <1>4 DEF F!EndOfInput, F!Quit, F!Return, F!Fire, F!At
  <2>2. net[p].joins = {}
    BY <1>1, <2>1 DEF LoopInv, Fits
  <2> QED
    BY <2>1, <2>2, LeaveLoop
<1>5. CASE F!Join(p)
  BY <1>5, LeaveLoop DEF F!Join, F!At
<1> QED
  BY <1>2, <1>3, <1>4, <1>5 DEF F!Moves

\* The state of a sender after its send, and of a receiver after its receive.
LEMMA AfterSendFits ==
  ASSUME FlowInv, NEW p \in DOMAIN net, st[p].at = "send", NEW c \in st[p].todo,
         NEW r, r = F!AfterSend(p, c)
  PROVE  /\ Whole(r) /\ Fits(net[p], r) /\ r.at # "exited"
         /\ F!Value(p) \in Nat
<1>1. Whole(st[p]) /\ Fits(net[p], st[p])
  BY DEF FlowInv, Loops, LoopInv, Whole
<1>2. /\ net[p].emits \in Seq(Nat) /\ net[p].outs # {} /\ (net[p].endless => net[p].paced)
      /\ net[p].joins = {}
  BY <1>1 DEF FlowInv, Sound, Fits
<1>3. F!Value(p) \in Nat
  BY <1>1, <1>2 DEF F!Value, F!IsSource, Fits
<1>4. CASE st[p].todo # {c}
  <2>1. r = [at |-> st[p].at, from |-> st[p].from, held |-> st[p].held,
             todo |-> st[p].todo \ {c}, sent |-> st[p].sent]
    BY <1>1, <1>4 DEF F!AfterSend, Whole
  <2>2. st[p].todo \ {c} # {}
    BY <1>4
  <2>3. Whole(r) /\ Fits(net[p], r) /\ r.at # "exited"
    BY <1>1, <1>2, <2>1, <2>2 DEF Whole, Fits
  <2> QED
    BY <1>3, <2>3
<1>5. CASE st[p].todo = {c} /\ net[p].emits # <<>>
  <2>1. PICK at \in {"return", "pause", "send"} :
          /\ r = [at |-> at, from |-> st[p].from, held |-> st[p].held,
                  todo |-> net[p].outs, sent |-> st[p].sent + 1]
          /\ at = "send" => ~(st[p].sent + 1 = Len(net[p].emits))
    BY <1>1, <1>2, <1>5 DEF F!AfterSend, F!AfterItem, F!IsSource, Whole
  <2>2. st[p].sent \in Nat /\ Len(net[p].emits) \in Nat /\ st[p].sent < Len(net[p].emits)
    BY <1>1, <1>2, <1>5 DEF Fits
  <2> QED
    BY <1>1, <1>2, <1>5, <1>3, <2>1, <2>2 DEF Whole, Fits
<1>6. CASE st[p].todo = {c} /\ net[p].emits = <<>>
  <2>1. r = [at |-> "recv", from |-> st[p].from, held |-> st[p].held,
             todo |-> net[p].outs, sent |-> st[p].sent]
    BY <1>1, <1>6 DEF F!AfterSend, F!IsSource, Whole
  <2> QED
    BY <1>1, <1>2, <1>6, <1>3, <2>1 DEF Whole, Fits
<1> QED
  BY <1>4, <1>5, <1>6

\* What a receive leaves fits.
LEMMA AfterReceiveFits ==
  ASSUME FlowInv, NEW q \in DOMAIN net, st[q].at = "recv", NEW v \in Nat,
         NEW r, r = F!AfterReceive(q, v)
  PROVE  Whole(r) /\ Fits(net[q], r) /\ r.at # "exited"
<1>1. Whole(st[q]) /\ Fits(net[q], st[q])
  BY DEF FlowInv, Loops, LoopInv, Whole
<1>2. net[q].emits = <<>> /\ net[q].joins = {}
  BY <1>1 DEF Fits
<1>3. CASE F!TakesStream(q)
  <2>1. r = [at |-> "recv", from |-> ChunkChannel[v], held |-> st[q].held,
             todo |-> st[q].todo, sent |-> st[q].sent]
    BY <1>1, <1>3, WholeExcept DEF F!AfterReceive
  <2> QED
    BY <1>1, <1>2, <2>1 DEF Whole, Fits
<1>4. CASE ~F!TakesStream(q) /\ net[q].outs = {}
  BY <1>1, <1>4 DEF F!AfterReceive
<1>5. CASE ~F!TakesStream(q) /\ net[q].outs # {}
  <2>1. r = [at |-> "send", from |-> st[q].from, held |-> v,
             todo |-> st[q].todo, sent |-> st[q].sent]
    BY <1>1, <1>5 DEF F!AfterReceive, Whole
  <2> QED
    BY <1>1, <1>2, <1>5, <2>1 DEF Whole, Fits
<1> QED
  BY <1>3, <1>4, <1>5

\* So does a value that passes from one goroutine to the other.
LEMMA PassLoop ==
  ASSUME FlowInv, NEW p \in DOMAIN net, NEW q \in DOMAIN net, F!Pass(p, q)
  PROVE  FlowInv'
<1> DEFINE v == F!Value(p)
           b == F!AfterReceive(q, v)
<1>1. PICK c \in st[p].todo :
        /\ st[p].at = "send" /\ st[q].at = "recv"
        /\ st' = [st EXCEPT ![p] = F!AfterSend(p, c), ![q] = b]
        /\ got' = IF q \in F!Sinks THEN [got EXCEPT ![q] = Append(got[q], v)] ELSE got
        /\ UNCHANGED <<net, closed>>
  BY DEF F!Pass, F!At, F!wiring
<1> DEFINE a == F!AfterSend(p, c)
<1>2. Whole(a) /\ Fits(net[p], a) /\ a.at # "exited" /\ v \in Nat
  BY <1>1, AfterSendFits
<1>3. Whole(b) /\ Fits(net[q], b) /\ b.at # "exited"
  BY <1>1, <1>2, AfterReceiveFits
<1> HIDE DEF a, b, v
<1>4. /\ p # q /\ DOMAIN st = DOMAIN net
      /\ st' = [st EXCEPT ![p] = a, ![q] = b]
  BY <1>1 DEF FlowInv, Loops, a
<1>5. /\ st'[p] = a /\ st'[q] = b
      /\ \A u \in DOMAIN net : u \notin {p, q} => st'[u] = st[u]
      /\ st' = [u \in DOMAIN net |-> st'[u]]
  BY <1>4
<1>6. Loops'
  <2>1. F!Contexts' = F!Contexts
    BY <1>1 DEF F!Contexts
  <2>2. ASSUME NEW u \in DOMAIN net
        PROVE  st'[u] = [at |-> st'[u].at, from |-> st'[u].from, held |-> st'[u].held,
                         todo |-> st'[u].todo, sent |-> st'[u].sent]
    BY <1>2, <1>3, <1>5 DEF FlowInv, Loops, Whole
  <2>3. st' = [u \in DOMAIN net' |->
                [at |-> st'[u].at, from |-> st'[u].from, held |-> st'[u].held,
                 todo |-> st'[u].todo, sent |-> st'[u].sent]]
    BY <1>1, <1>5, <2>2
  <2>4. got \in [DOMAIN net -> Seq(Nat)]
    BY DEF FlowInv, Loops
  <2>5. Append(got[q], v) \in Seq(Nat)
    BY <1>2, <2>4
  <2>6. got' \in [DOMAIN net' -> Seq(Nat)]
    BY <1>1, <2>4, <2>5
  <2>7. closed' \subseteq F!Contexts' \cup UNION {net'[u].closes : u \in DOMAIN net'}
    BY <1>1, <2>1 DEF FlowInv, Loops
  <2> QED
    BY <2>3, <2>6, <2>7 DEF Loops
<1>7. ASSUME NEW u \in DOMAIN net PROVE LoopInv(u)'
  <2>1. LoopInv(u)
    BY DEF FlowInv
  <2> QED
    BY <1>1, <1>2, <1>3, <1>5, <2>1 DEF LoopInv
<1>8. ASSUME NEW u \in DOMAIN net PROVE ClosedInv(u)'
  <2>1. ASSUME NEW w \in DOMAIN net PROVE st'[w].at = "exited" <=> st[w].at = "exited"
    BY <1>1, <1>2, <1>3, <1>5
  <2>2. net[u].joins \subseteq DOMAIN net /\ ClosedInv(u)
    BY DEF FlowInv, Sound
  <2> QED
    BY <1>1, <2>1, <2>2 DEF ClosedInv
<1> QED
  BY <1>1, <1>6, <1>7, <1>8 DEF FlowInv

\* Only steps of flows/ change what FlowInv is about.
LEMMA FlowNext == FlowInv /\ [MainNext]_allVars => FlowInv'
<1> SUFFICES ASSUME FlowInv, [MainNext]_allVars PROVE FlowInv'
  OBVIOUS
<1>1. ASSUME UNCHANGED flowVars PROVE FlowInv'
  <2>1. UNCHANGED <<net, st, closed, got>> /\ F!Contexts' = F!Contexts
    BY <1>1 DEF flowVars, F!Contexts
  <2>2. Loops' /\ Sound(net)'
    BY <2>1 DEF FlowInv, Loops
  <2>3. ASSUME NEW p \in DOMAIN net PROVE LoopInv(p)' /\ ClosedInv(p)'
    BY <2>1 DEF FlowInv, LoopInv, ClosedInv
  <2> QED
    BY <2>1, <2>2, <2>3 DEF FlowInv
<1>2. ASSUME F!Next PROVE FlowInv'
  <2>1. CASE F!Terminated
    BY <1>1, <2>1 DEF F!Terminated, F!vars, F!wiring, flowVars
  <2> QED
    BY <1>2, <2>1, MoveLoop, PassLoop, CancelLoop DEF F!Next
<1> QED
  BY <1>1, <1>2 DEF MainNext, allVars

-----------------------------------------------------------------------------
(* The networks. *)

\* A goroutine that emits the items e, and one that emits none.
Emitter(r, e, out) ==
  /\ r.start \in {"pause", "send"} /\ r.emits = e /\ r.outs = {out} /\ r.closes = {out}
  /\ r.joins = {} /\ (r.endless => r.paced)

Listener(r, start, outs, closes) ==
  /\ r.start = start /\ r.emits = <<>> /\ r.outs = outs /\ r.closes = closes
  /\ r.joins = {} /\ ~r.endless

\* The functions of the packages, by what they emit, send on and close.
LEMMA Builders ==
  /\ \A ctx_, out, n : Emitter(F!Source(ctx_, n, out), F!UpTo(n), out)
  /\ \A ctx_, out : Emitter(F!numbers(ctx_, out), F!UpTo(Items), out)
  /\ \A ctx_, out : Emitter(F!ChunkedSource(ctx_, out), F!UpTo(F!Chunks), out)
  /\ \A ctx_, c : Emitter(F!ChunkProducer(ctx_, c), [i \in 1..Items |-> F!ChunkItem(c, i)],
                          ChunkChannel[c])
  /\ \A ctx_, in, out : Listener(F!Relay(ctx_, in, out), "recv", {out}, {out})
  /\ \A ctx_, in, out : Listener(F!Bridge(ctx_, in, out), "recv", {out}, {out})
  /\ \A ctx_, in, o1, o2 : Listener(F!Tee(ctx_, in, o1, o2), "recv", {o1, o2}, {o1, o2})
  /\ \A ctx_, in, out : Listener(F!FanOutWorker(ctx_, in, out), "recv", {out}, {})
  /\ \A in : Listener(F!Consumer(in), "recv", {}, {})
  /\ \A c : Listener(F!After(c), "timer", {}, {c})
<1> USE DEF Emitter, Listener, F!Goroutine
<1>1. \A ctx_, out, n : Emitter(F!Source(ctx_, n, out), F!UpTo(n), out)
  BY DEF F!Source
<1>2. \A ctx_, out : Emitter(F!numbers(ctx_, out), F!UpTo(Items), out)
  BY DEF F!numbers
<1>3. \A ctx_, out : Emitter(F!ChunkedSource(ctx_, out), F!UpTo(F!Chunks), out)
  BY DEF F!ChunkedSource
<1>4. \A ctx_, c : Emitter(F!ChunkProducer(ctx_, c), [i \in 1..Items |-> F!ChunkItem(c, i)],
                          ChunkChannel[c])
  BY DEF F!ChunkProducer, F!Source
<1>5. \A ctx_, in, out : Listener(F!Relay(ctx_, in, out), "recv", {out}, {out})
  BY DEF F!Relay
<1>6. \A ctx_, in, out : Listener(F!Bridge(ctx_, in, out), "recv", {out}, {out})
  BY <1>5 DEF F!Bridge
<1>7. \A ctx_, in, o1, o2 : Listener(F!Tee(ctx_, in, o1, o2), "recv", {o1, o2}, {o1, o2})
  BY DEF F!Tee
<1>8. \A ctx_, in, out : Listener(F!FanOutWorker(ctx_, in, out), "recv", {out}, {})
  BY DEF F!FanOutWorker
<1>9. \A in : Listener(F!Consumer(in), "recv", {}, {})
  BY DEF F!Consumer
<1>10. \A c : Listener(F!After(c), "timer", {}, {c})
  BY DEF F!After
<1> HIDE DEF Emitter, Listener
<1> QED
  BY <1>1, <1>2, <1>3, <1>4, <1>5, <1>6, <1>7, <1>8, <1>9, <1>10

\* The items of a source are numbers, and there are some.
LEMMA Emitted ==
  /\ \A n \in Nat \ {0} : F!UpTo(n) \in Seq(Nat) /\ F!UpTo(n) # <<>>
  /\ Items \in Nat \ {0} =>
       \A c \in Nat : LET e == [i \in 1..Items |-> F!ChunkItem(c, i)]
                      IN e \in Seq(Nat) /\ e # <<>>
<1>1. ASSUME NEW n \in Nat \ {0} PROVE F!UpTo(n) \in Seq(Nat) /\ F!UpTo(n) # <<>>
  <2>1. F!UpTo(n) \in [1..n -> Nat] /\ 1 \in DOMAIN F!UpTo(n)
    BY DEF F!UpTo
  <2> QED
    BY <2>1
<1>2. ASSUME Items \in Nat \ {0}, NEW c \in Nat
      PROVE  LET e == [i \in 1..Items |-> F!ChunkItem(c, i)]
             IN e \in Seq(Nat) /\ e # <<>>
  <2> DEFINE e == [i \in 1..Items |-> F!ChunkItem(c, i)]
  <2>1. \A i \in 1..Items : F!ChunkItem(c, i) \in Nat
    BY <1>2 DEF F!ChunkItem
  <2>2. e \in [1..Items -> Nat] /\ 1 \in DOMAIN e
    BY <1>2, <2>1
  <2> QED
    BY <2>2, <1>2
<1> QED
  BY <1>1, <1>2

\* A goroutine of a network is sound by itself.
SoundAlone(r) ==
  /\ r.start \in {"recv", "send", "pause", "watch", "join", "timer"}
  /\ r.emits \in Seq(Nat)
  /\ r.emits # <<>> <=> r.start \in {"send", "pause"}
  /\ r.emits # <<>> => r.outs # {}
  /\ r.endless => r.paced
  /\ r.joins # {} => r.start = "join"

\* Emitters and listeners are sound.
LEMMA Alone ==
  /\ \A r, e, out : Emitter(r, e, out) /\ e \in Seq(Nat) /\ e # <<>> => SoundAlone(r)
  /\ \A r, start, outs, closes :
       Listener(r, start, outs, closes) /\ start \in {"recv", "watch", "timer"} => SoundAlone(r)
<1>1. ASSUME NEW r, NEW e, NEW out, Emitter(r, e, out), e \in Seq(Nat), e # <<>>
      PROVE  SoundAlone(r)
  BY <1>1 DEF Emitter, SoundAlone
<1>2. ASSUME NEW r, NEW start, NEW outs, NEW closes,
             Listener(r, start, outs, closes), start \in {"recv", "watch", "timer"}
      PROVE  SoundAlone(r)
  <2>1. <<>> \in Seq(Nat)
    OBVIOUS
  <2> QED
    BY <1>2, <2>1 DEF Listener, SoundAlone
<1> QED
  BY <1>1, <1>2

\* A network in which every goroutine closes what it sends on, and only that.
LEMMA SoundApart ==
  ASSUME NEW n,
         \A p \in DOMAIN n : /\ SoundAlone(n[p]) /\ n[p].joins = {}
                             /\ n[p].outs \subseteq n[p].closes
                             /\ n[p].closes \cap ContextNames = {},
         \A p, q \in DOMAIN n : n[p].closes \cap n[q].closes # {} => p = q
  PROVE  Sound(n)
BY DEF Sound, SoundAlone

\* The networks without shared channels.
LEMMA ChainsSound ==
  ASSUME F!FlowsAssumption
  PROVE  /\ Sound(F!PipelineExample) /\ Sound(F!OrDoneExample) /\ Sound(F!TeeExample)
         /\ Sound(F!GeneratorExample) /\ Sound(F!SelectLoopExample)
<1>1. Items \in Nat \ {0}
  BY DEF F!FlowsAssumption
<1>2. \A c, out : Emitter(F!Source(c, Items, out), F!UpTo(Items), out)
                 /\ Emitter(F!numbers(c, out), F!UpTo(Items), out)
  BY Builders
<1>3. \A c, in, out, o :
        /\ Listener(F!Relay(c, in, out), "recv", {out}, {out})
        /\ Listener(F!Tee(c, in, out, o), "recv", {out, o}, {out, o})
        /\ Listener(F!Consumer(in), "recv", {}, {})
  BY Builders
<1>4. \A r, out : Emitter(r, F!UpTo(Items), out) => SoundAlone(r)
  BY <1>1, Emitted, Alone
<1>5. \A r, outs, closes : Listener(r, "recv", outs, closes) => SoundAlone(r)
  BY Alone
<1>6. Sound(F!PipelineExample)
  <2> DEFINE n == F!PipelineExample
  <2>1. /\ DOMAIN n = {"src", "squared", "doubled", "main"}
        /\ Emitter(n["src"], F!UpTo(Items), "c1")
        /\ Listener(n["squared"], "recv", {"c2"}, {"c2"})
        /\ Listener(n["doubled"], "recv", {"c3"}, {"c3"})
        /\ Listener(n["main"], "recv", {}, {})
    BY <1>2, <1>3 DEF F!PipelineExample
  <2> HIDE DEF n
  <2>2. \A p \in DOMAIN n : SoundAlone(n[p])
    BY <1>4, <1>5, <2>1
  <2> QED
    BY <2>1, <2>2, SoundApart DEF Emitter, Listener, ContextNames, n
<1>7. Sound(F!OrDoneExample)
  <2> DEFINE n == F!OrDoneExample
  <2>1. /\ DOMAIN n = {"src", "stream", "main"}
        /\ Emitter(n["src"], F!UpTo(Items), "c1")
        /\ Listener(n["stream"], "recv", {"c2"}, {"c2"})
        /\ Listener(n["main"], "recv", {}, {})
    BY <1>2, <1>3 DEF F!OrDoneExample
  <2> HIDE DEF n
  <2>2. \A p \in DOMAIN n : SoundAlone(n[p])
    BY <1>4, <1>5, <2>1
  <2> QED
    BY <2>1, <2>2, SoundApart DEF Emitter, Listener, ContextNames, n
<1>8. Sound(F!TeeExample)
  <2> DEFINE n == F!TeeExample
  <2>1. /\ DOMAIN n = {"src", "tee", "A", "B"}
        /\ Emitter(n["src"], F!UpTo(Items), "c1")
        /\ Listener(n["tee"], "recv", {"out1", "out2"}, {"out1", "out2"})
        /\ Listener(n["A"], "recv", {}, {})
        /\ Listener(n["B"], "recv", {}, {})
    BY <1>2, <1>3 DEF F!TeeExample
  <2> HIDE DEF n
  <2>2. \A p \in DOMAIN n : SoundAlone(n[p])
    BY <1>4, <1>5, <2>1
  <2> QED
    BY <2>1, <2>2, SoundApart DEF Emitter, Listener, ContextNames, n
<1>9. Sound(F!GeneratorExample)
  <2> DEFINE n == F!GeneratorExample
  <2>1. /\ DOMAIN n = {"src", "main"}
        /\ Emitter(n["src"], F!UpTo(Items), "c1")
        /\ Listener(n["main"], "recv", {}, {})
    BY <1>2, <1>3 DEF F!GeneratorExample
  <2> HIDE DEF n
  <2>2. \A p \in DOMAIN n : SoundAlone(n[p])
    BY <1>4, <1>5, <2>1
  <2> QED
    BY <2>1, <2>2, SoundApart DEF Emitter, Listener, ContextNames, n
<1>10. Sound(F!SelectLoopExample)
  <2> DEFINE n == F!SelectLoopExample
  <2>1. /\ DOMAIN n = {"src", "main"}
        /\ Emitter(n["src"], F!UpTo(Items), "c1")
        /\ Listener(n["main"], "recv", {}, {})
    BY DEF F!SelectLoopExample, F!Consumer, F!Goroutine, Emitter, Listener
  <2> HIDE DEF n
  <2>2. \A p \in DOMAIN n : SoundAlone(n[p])
    BY <1>4, <1>5, <2>1
  <2> QED
    BY <2>1, <2>2, SoundApart DEF Emitter, Listener, ContextNames, n
<1> QED
  BY <1>6, <1>7, <1>8, <1>9, <1>10

\* All workers of FanOut send on the channel that the goroutine with wg.Wait() closes.
LEMMA FanSound == F!FlowsAssumption => Sound(F!FanOutFanInExample)
<1> SUFFICES ASSUME F!FlowsAssumption PROVE Sound(F!FanOutFanInExample)
  OBVIOUS
<1> DEFINE n == F!FanOutFanInExample
<1>1. Items \in Nat \ {0} /\ {"src", "closer", "main", "bridge"} \cap FanWorkers = {}
  BY DEF F!FlowsAssumption
<1>2. /\ DOMAIN n = FanWorkers \cup {"src", "closer", "main"}
      /\ n["src"] = F!Source("ctx", Items, "c1") /\ n["closer"] = F!FanOutCloser("c2")
      /\ n["main"] = F!Consumer("c2")
      /\ \A w \in FanWorkers : n[w] = F!FanOutWorker("ctx", "c1", "c2")
  BY <1>1 DEF F!FanOutFanInExample
<1> HIDE DEF n
<1>3. Emitter(n["src"], F!UpTo(Items), "c1") /\ Listener(n["main"], "recv", {}, {})
  BY <1>2, Builders
<1>4. \A w \in FanWorkers : Listener(n[w], "recv", {"c2"}, {})
  BY <1>2, Builders
<1>5. /\ n["closer"].start = "join" /\ n["closer"].emits = <<>> /\ n["closer"].outs = {}
      /\ n["closer"].closes = {"c2"} /\ n["closer"].joins = FanWorkers /\ ~n["closer"].endless
  BY <1>2 DEF F!FanOutCloser, F!Goroutine
<1>6. SoundAlone(n["closer"])
  <2>1. <<>> \in Seq(Nat)
    OBVIOUS
  <2> QED
    BY <1>5, <2>1 DEF SoundAlone
<1>7. \A p \in DOMAIN n : SoundAlone(n[p])
  BY <1>1, <1>2, <1>3, <1>4, <1>6, Emitted, Alone
<1>8. ASSUME NEW p \in DOMAIN n
      PROVE  /\ n[p].joins \subseteq DOMAIN n
             /\ n[p].closes \cap ContextNames = {}
             /\ \A c \in n[p].outs : \E o \in DOMAIN n : c \in n[o].closes /\ (o = p \/ p \in n[o].joins)
  BY <1>2, <1>3, <1>4, <1>5 DEF Emitter, Listener, ContextNames
<1>9. \A p, q \in DOMAIN n : n[p].closes \cap n[q].closes # {} => p = q
  BY <1>2, <1>3, <1>4, <1>5 DEF Emitter, Listener
<1> QED
  BY <1>7, <1>8, <1>9 DEF Sound, SoundAlone, n

\* Each producer of a chunk closes its own channel.
LEMMA BridgeSound == F!FlowsAssumption => Sound(F!BridgeExample)
<1> SUFFICES ASSUME F!FlowsAssumption PROVE Sound(F!BridgeExample)
  OBVIOUS
<1> DEFINE n == F!BridgeExample
           inner == F!Range(ChunkChannel)
           of(p) == CHOOSE c \in 1..F!Chunks : ChunkChannel[c] = p
<1>1. Items \in Nat \ {0} /\ F!Chunks \in Nat \ {0} /\ DOMAIN ChunkChannel = 1..F!Chunks
  <2>1. Items \in Nat \ {0} /\ ChunkChannel \in Seq(STRING) /\ ChunkChannel # <<>>
    BY DEF F!FlowsAssumption
  <2> QED
    BY <2>1 DEF F!Chunks
<1>2. {"main", "chunker", "bridge", "c1", "c2", "ctx", "parent", "consumer"} \cap inner = {}
  BY DEF F!FlowsAssumption
<1>3. \A p \in inner : of(p) \in 1..F!Chunks /\ ChunkChannel[of(p)] = p /\ of(p) \in Nat
  BY <1>1 DEF F!Range
<1> HIDE DEF of
<1>4. /\ DOMAIN n = inner \cup {"chunker", "bridge", "main"}
      /\ n["chunker"] = F!ChunkedSource("ctx", "c1") /\ n["bridge"] = F!Bridge("ctx", "c1", "c2")
      /\ n["main"] = F!Consumer("c2")
      /\ \A p \in inner : n[p] = F!ChunkProducer("ctx", of(p))
  BY <1>2 DEF F!BridgeExample, of
<1> HIDE DEF n, inner
<1>5. /\ Emitter(n["chunker"], F!UpTo(F!Chunks), "c1")
      /\ Listener(n["bridge"], "recv", {"c2"}, {"c2"})
      /\ Listener(n["main"], "recv", {}, {})
  BY <1>4, Builders
<1>6. \A p \in inner : Emitter(n[p], [i \in 1..Items |-> F!ChunkItem(of(p), i)], p)
  BY <1>3, <1>4, Builders
<1>7. \A p \in inner : SoundAlone(n[p])
  <2>1. ASSUME NEW p \in inner
        PROVE  LET e == [i \in 1..Items |-> F!ChunkItem(of(p), i)]
               IN e \in Seq(Nat) /\ e # <<>> /\ Emitter(n[p], e, p)
    BY <1>1, <1>3, <1>6, Emitted
  <2> QED
    BY <2>1, Alone
<1>8. \A p \in DOMAIN n : SoundAlone(n[p])
  BY <1>1, <1>4, <1>5, <1>7, Emitted, Alone
<1>9. \A p \in inner : n[p].outs = {p} /\ n[p].closes = {p} /\ n[p].joins = {}
  BY <1>6 DEF Emitter
<1>10. /\ n["chunker"].outs = {"c1"} /\ n["chunker"].closes = {"c1"} /\ n["chunker"].joins = {}
       /\ n["bridge"].outs = {"c2"} /\ n["bridge"].closes = {"c2"} /\ n["bridge"].joins = {}
       /\ n["main"].outs = {} /\ n["main"].closes = {} /\ n["main"].joins = {}
  BY <1>5 DEF Emitter, Listener
<1>11. ASSUME NEW p \in DOMAIN n
       PROVE  /\ n[p].joins = {} /\ n[p].outs \subseteq n[p].closes
              /\ n[p].closes \cap ContextNames = {}
  BY <1>2, <1>4, <1>9, <1>10 DEF ContextNames
<1>12. \A p, q \in DOMAIN n : n[p].closes \cap n[q].closes # {} => p = q
  <2>1. ASSUME NEW p \in DOMAIN n, NEW c \in n[p].closes
        PROVE  p = IF c = "c1" THEN "chunker" ELSE IF c = "c2" THEN "bridge" ELSE c
    <3>1. CASE p \in inner
      <4>1. c = p
        BY <1>9, <3>1
      <4>2. p \notin {"c1", "c2"}
        BY <1>2, <3>1
      <4> QED
        BY <4>1, <4>2
    <3>2. CASE p \in {"chunker", "bridge", "main"}
      BY <1>10, <3>2
    <3> QED
      BY <1>4, <3>1, <3>2
  <2> QED
    BY <2>1
<1> QED
  BY <1>8, <1>11, <1>12, SoundApart DEF n

\* The goroutines of Or close their own orDone, the timers their channels.
LEMMA OrSound == F!FlowsAssumption => Sound(F!OrExample)
<1> SUFFICES ASSUME F!FlowsAssumption PROVE Sound(F!OrExample)
  OBVIOUS
<1> DEFINE n == F!OrExample
           tree == F!OrContext("ctx", TimerChannel)
           timers == F!Range(TimerChannel)
           names == F!Range(OrChannel)
<1>1. DOMAIN tree \subseteq names
  BY DEF F!OrContext, F!OrTree, F!Range
<1>2. {"main", "ctx", "parent", "consumer"} \cap (timers \cup names) = {}
  BY DEF F!FlowsAssumption
<1>3. timers \cap names = {}
  BY DEF F!FlowsAssumption
<1>4. \A p \in DOMAIN tree : Listener(tree[p], "watch", {}, {p})
  BY DEF F!OrContext, F!OrTree, Listener, F!Goroutine
<1>5. /\ DOMAIN n = DOMAIN tree \cup timers \cup {"main"}
      /\ \A p \in DOMAIN tree : n[p] = tree[p]
      /\ n["main"] = F!Consumer(OrChannel[1])
      /\ \A p \in timers : n[p] = F!After(p)
  BY <1>1, <1>2, <1>3 DEF F!OrExample
<1> HIDE DEF n, tree, timers, names
<1>6. Listener(n["main"], "recv", {}, {}) /\ \A p \in timers : Listener(n[p], "timer", {}, {p})
  BY <1>5, Builders
<1>7. \A p \in DOMAIN n : SoundAlone(n[p])
  BY <1>4, <1>5, <1>6, Alone
<1>8. ASSUME NEW p \in DOMAIN n
      PROVE  /\ n[p].joins = {} /\ n[p].outs = {}
             /\ n[p].closes = IF p \in DOMAIN tree \cup timers THEN {p} ELSE {}
  <2>1. p \in DOMAIN tree => Listener(n[p], "watch", {}, {p})
    BY <1>4, <1>5
  <2>2. p = "main" => p \notin DOMAIN tree \cup timers
    BY <1>1, <1>2
  <2> QED
    BY <1>5, <1>6, <2>1, <2>2 DEF Listener
<1>9. (DOMAIN tree \cup timers) \cap ContextNames = {}
  BY <1>1, <1>2 DEF ContextNames
<1> QED
  BY <1>7, <1>8, <1>9, SoundApart DEF n

\* Every network that main can start.
LEMMA NetworkSound == F!FlowsAssumption /\ F!Start => Sound(net)
<1> SUFFICES ASSUME F!FlowsAssumption, F!Start PROVE Sound(net)
  OBVIOUS
<1>1. CASE example \in DOMAIN F!Network
  <2>1. net = F!Network[example]
    BY <1>1 DEF F!Start
  <2>2. net \in {F!PipelineExample, F!OrDoneExample, F!TeeExample, F!FanOutFanInExample,
                F!GeneratorExample, F!SelectLoopExample, F!BridgeExample, F!OrExample}
    BY <1>1, <2>1 DEF F!Network
  <2> QED
    BY <2>2, ChainsSound, FanSound, BridgeSound, OrSound
<1>2. CASE example \notin DOMAIN F!Network
  BY <1>2 DEF F!Start, Sound
<1> QED
  BY <1>1, <1>2

\* FlowInv holds when an example starts.
LEMMA FlowInit == MainInit => FlowInv
<1> SUFFICES ASSUME MainInit PROVE FlowInv
  OBVIOUS
<1>1. F!Start /\ Sound(net)
  BY FlowsAssumption, NetworkSound DEF MainInit
<1>2. /\ st = [p \in DOMAIN net |-> [at |-> net[p].start, from |-> net[p].in, held |-> 0,
                                   todo |-> net[p].outs, sent |-> 0]]
      /\ closed = {} /\ got = [p \in DOMAIN net |-> <<>>]
  BY <1>1 DEF F!Start
<1>3. Loops
  BY <1>2 DEF Loops
<1>4. ASSUME NEW p \in DOMAIN net PROVE LoopInv(p)
  <2>1. /\ net[p].start \in {"recv", "send", "pause", "watch", "join", "timer"}
        /\ net[p].emits \in Seq(Nat)
        /\ net[p].emits # <<>> <=> net[p].start \in {"send", "pause"}
        /\ net[p].emits # <<>> => net[p].outs # {}
        /\ net[p].joins # {} => net[p].start = "join"
    BY <1>1 DEF Sound
  <2>2. Len(net[p].emits) \in Nat /\ (net[p].emits # <<>> => 0 < Len(net[p].emits))
    BY <2>1
  <2>3. /\ st[p].at = net[p].start /\ st[p].todo = net[p].outs /\ st[p].sent = 0 /\ st[p].held = 0
    BY <1>2
  <2> QED
    BY <2>1, <2>2, <2>3 DEF LoopInv, Fits
<1>5. ASSUME NEW p \in DOMAIN net PROVE ClosedInv(p)
  BY <1>1, <1>2 DEF Sound, ClosedInv
<1> QED
  BY <1>1, <1>3, <1>4, <1>5 DEF FlowInv

\* Nobody sends on or closes a closed channel, in any network of flows/: Or for any number of
\* timers, FanOut for any workers, sources of any length.
THEOREM Channels == MainSpec => []ChannelsSafe
<1>1. FlowInv => ChannelsSafe
  BY FlowSafe DEF ChannelsSafe
<1> QED
  BY <1>1, FlowInit, FlowNext, PTL DEF MainSpec, allVars

-----------------------------------------------------------------------------
(* Lines: every goroutine has one input, which nobody else receives from.  *)
(* Values are numbered from 1, so the state of a goroutine tells how many  *)
(* it has received and passed on; the two sides of a channel differ by at  *)
(* most one.                                                               *)

LineNames == {"pipeline", "ordone", "tee", "generator", "selectloop"}

\* In a line every channel has one receiver, and nobody takes a stream of streams.
Line(n) ==
  /\ "bridge" \notin DOMAIN n
  /\ \A p \in DOMAIN n :
       /\ n[p].start \in {"recv", "send", "pause"}
       /\ n[p].emits \in {<<>>, F!UpTo(Items)}
       /\ n[p].watches \subseteq ContextNames
       /\ n[p].closes = n[p].outs
       /\ F!None \notin n[p].outs
       /\ n[p].emits # <<>> => n[p].in = F!None
       /\ n[p].emits = <<>> => \E o \in DOMAIN n : n[p].in \in n[o].outs
  /\ \A p, q \in DOMAIN n : n[p].in = n[q].in /\ n[p].in # F!None => p = q

\* How many values q has received, and how many of them p has passed on to all its outputs:
\* a line numbers its values, so that the value held counts them.
Received(q) == IF net[q].outs = {} THEN Len(got[q]) ELSE st[q].held

Sent(p) ==
  IF net[p].emits # <<>> THEN st[p].sent
  ELSE IF st[p].at = "send" THEN st[p].held - 1 ELSE st[p].held

\* The receiver q is at most one value ahead of what p has passed on everywhere, namely when
\* p has served q and not yet its other outputs.
EdgeInv(p, q) ==
  /\ net[q].in \in net[p].outs
  /\ st[p].at # "exited" \/ ~F!Cancelled
  => Received(q) = IF st[p].at = "send" /\ net[q].in \notin st[p].todo
                     THEN Sent(p) + 1 ELSE Sent(p)

\* Where the goroutine p of a line is, and what it has received to keep.
PlaceInv(p) ==
  /\ st[p].at \in {"recv", "send", "pause", "return", "exited"}
  /\ st[p].from = net[p].in
  /\ st[p].at \in {"recv", "pause"} => st[p].todo = net[p].outs
  /\ net[p].emits = <<>> /\ st[p].at = "send" => st[p].held >= 1
  /\ st[p].held <= Items
  /\ st[p].at = "return" => net[p].emits # <<>> /\ st[p].sent = Items
  /\ net[p].outs = {} => got[p] = F!UpTo(Len(got[p])) /\ Len(got[p]) <= Items
  /\ ~F!Cancelled /\ st[p].at = "exited" =>
       IF net[p].emits # <<>> THEN st[p].sent = Items ELSE Received(p) = Items

\* The inductive invariant behind Delivery, Complete and TeeInStep on a line.
LineInv ==
  /\ Line(net)
  /\ example = "tee" => net = F!TeeExample
  /\ \A p \in DOMAIN net : PlaceInv(p)
  /\ \A p, q \in DOMAIN net : EdgeInv(p, q)
  /\ F!TeeInStep

\* what Pass does on a line
LEMMA LineValue ==
  ASSUME FlowInv, LineInv, Items \in Nat \ {0}, NEW p \in DOMAIN net, st[p].at = "send"
  PROVE  /\ Sent(p) \in Nat /\ F!Value(p) = Sent(p) + 1 /\ Sent(p) + 1 <= Items
         /\ net[p].outs # {} /\ st[p].todo \subseteq net[p].outs
<1>1. Fits(net[p], st[p]) /\ PlaceInv(p) /\ net[p].emits \in {<<>>, F!UpTo(Items)}
  BY DEF FlowInv, LoopInv, LineInv, Line
<1>2. CASE net[p].emits = <<>>
  BY <1>1, <1>2 DEF F!Value, F!IsSource, Sent, Fits, PlaceInv
<1>3. CASE net[p].emits # <<>>
  <2>1. net[p].emits = [i \in 1..Items |-> i] /\ Len(net[p].emits) = Items
    BY <1>1, <1>3 DEF F!UpTo
  <2>2. st[p].sent \in 0..Items /\ st[p].sent < Items
    BY <1>1, <1>3, <2>1 DEF Fits
  <2>3. Sent(p) = st[p].sent /\ F!Value(p) = net[p].emits[st[p].sent + 1]
    BY <1>3 DEF Sent, F!Value, F!IsSource
  <2>4. net[p].emits[st[p].sent + 1] = st[p].sent + 1
    BY <2>1, <2>2
  <2> QED
    BY <1>1, <2>2, <2>3, <2>4 DEF Fits
<1> QED
  BY <1>2, <1>3

\* Steps that keep what is counted.
LEMMA LineMove ==
  ASSUME FlowInv, LineInv, Items \in Nat \ {0}, NEW p \in DOMAIN net, F!Moves(p) \/ F!Fire(p)
  PROVE  LineInv'
<1>1. Fits(net[p], st[p]) /\ PlaceInv(p) /\ DOMAIN st = DOMAIN net /\ Whole(st[p])
  BY DEF FlowInv, Loops, LoopInv, LineInv, Whole
<1>2. CASE F!Tick(p)
  <2>1. /\ st[p].at = "pause" /\ UNCHANGED <<example, net, closed, got>>
        /\ st' = [st EXCEPT ![p].at = "send"]
    BY <1>2 DEF F!Tick, F!At, F!wiring
  <2>2. /\ st'[p] = [at |-> "send", from |-> st[p].from, held |-> st[p].held,
                     todo |-> st[p].todo, sent |-> st[p].sent]
        /\ \A q \in DOMAIN net : q # p => st'[q] = st[q]
    BY <1>1, <2>1, WholeExcept
  <2>3. net[p].emits # <<>> /\ F!Cancelled' = F!Cancelled
    BY <1>1, <2>1 DEF Fits, F!Cancelled, F!Contexts
  <2>4. ASSUME NEW q \in DOMAIN net PROVE PlaceInv(q)'
    <3>1. PlaceInv(q)
      BY DEF LineInv
    <3> QED
      BY <2>1, <2>2, <2>3, <3>1 DEF PlaceInv, Received
  <2>5. ASSUME NEW q \in DOMAIN net, NEW u \in DOMAIN net PROVE EdgeInv(q, u)'
    <3>1. EdgeInv(q, u) /\ (q = p => st[p].todo = net[p].outs)
      BY <1>1, <2>1 DEF LineInv, PlaceInv
    <3>2. Received(u)' = Received(u) /\ Sent(q)' = Sent(q)
      BY <2>1, <2>2, <2>3 DEF Received, Sent
    <3> QED
      BY <2>1, <2>2, <2>3, <3>1, <3>2 DEF EdgeInv
  <2> QED
    BY <2>1, <2>4, <2>5 DEF LineInv, F!TeeInStep
<1>3. CASE ~F!Tick(p)
  <2>1. /\ F!Leave(p)
        /\ \/ net[p].watches \cap closed # {}
           \/ st[p].at = "return"
           \/ st[p].at = "recv" /\ st[p].from \in closed
    BY <1>1, <1>3 DEF F!Moves, F!EndOfInput, F!Quit, F!Return, F!Join, F!Fire, F!At, PlaceInv
  <2>2. /\ st'[p] = [at |-> "exited", from |-> st[p].from, held |-> st[p].held,
                     todo |-> st[p].todo, sent |-> st[p].sent]
        /\ \A q \in DOMAIN net : q # p => st'[q] = st[q]
        /\ UNCHANGED <<example, net, got>> /\ closed' = closed \cup net[p].closes
    BY <1>1, <2>1, WholeExcept DEF F!Leave, F!wiring
  <2>3. /\ net[p].watches \cap closed # {} => F!Cancelled
        /\ F!Cancelled' = F!Cancelled
    BY <2>2 DEF LineInv, Line, F!Cancelled, F!Contexts, ContextNames, FlowInv, Sound
  <2>4. ASSUME ~F!Cancelled, st[p].at = "recv", st[p].from \in closed PROVE Received(p) = Items
    <3>1. net[p].emits = <<>> /\ st[p].from = net[p].in
      BY <1>1, <2>4 DEF Fits, PlaceInv
    <3>2. PICK o \in DOMAIN net : net[p].in \in net[o].outs /\ net[o].closes = net[o].outs
      BY <3>1 DEF LineInv, Line
    <3>3. st[o].at = "exited"
      BY <2>4, <3>1, <3>2 DEF FlowInv, ClosedInv
    <3>4. EdgeInv(o, p) /\ PlaceInv(o)
      BY DEF LineInv
    <3>5. Received(p) = Sent(o)
      BY <2>4, <3>2, <3>3, <3>4 DEF EdgeInv
    <3>6. Sent(o) = Items
      BY <2>4, <3>2, <3>3, <3>4 DEF PlaceInv, Sent, Received
    <3> QED
      BY <3>5, <3>6
  <2>5. ASSUME NEW q \in DOMAIN net PROVE PlaceInv(q)'
    <3>1. PlaceInv(q) /\ Received(q)' = Received(q)
      BY <2>2 DEF LineInv, Received
    <3>2. CASE q = p
      <4>1. ~F!Cancelled => IF net[p].emits # <<>> THEN st[p].sent = Items ELSE Received(p) = Items
        BY <1>1, <2>1, <2>3, <2>4 DEF PlaceInv, Fits
      <4> QED
        BY <2>2, <2>3, <3>1, <3>2, <4>1 DEF PlaceInv
    <3>3. CASE q # p
      BY <2>2, <2>3, <3>1, <3>3 DEF PlaceInv
    <3> QED
      BY <3>2, <3>3
  <2>6. ASSUME NEW q \in DOMAIN net, NEW u \in DOMAIN net PROVE EdgeInv(q, u)'
    <3>1. EdgeInv(q, u) /\ Received(u)' = Received(u)
      BY <2>2 DEF LineInv, Received
    <3>2. CASE q = p
      <4>1. ~F!Cancelled => st[p].at \in {"return", "recv"}
        BY <2>1, <2>3
      <4>2. ~F!Cancelled => Sent(p)' = Sent(p)
        BY <2>2, <4>1 DEF Sent
      <4> QED
        BY <2>2, <2>3, <3>1, <3>2, <4>1, <4>2 DEF EdgeInv
    <3>3. CASE q # p
      <4>1. Sent(q)' = Sent(q)
        BY <2>2, <3>3 DEF Sent
      <4> QED
        BY <2>2, <2>3, <3>1, <3>3, <4>1 DEF EdgeInv
    <3> QED
      BY <3>2, <3>3
  <2> QED
    BY <2>2, <2>5, <2>6 DEF LineInv, F!TeeInStep
<1> QED
  BY <1>2, <1>3

\* Once cancelled, the values that p had passed on are not counted any more.
LEMMA LineCancel ==
  ASSUME LineInv, NEW c \in F!Contexts, F!Cancel(c)
  PROVE  LineInv'
<1>1. UNCHANGED <<example, net, st, got>> /\ closed' = closed \cup {c}
  BY DEF F!Cancel, F!wiring
<1>2. F!Cancelled'
  BY <1>1 DEF F!Cancelled, F!Contexts
<1>3. ASSUME NEW p \in DOMAIN net PROVE PlaceInv(p)'
  <2>1. PlaceInv(p)
    BY DEF LineInv
  <2> QED
    BY <1>1, <1>2, <2>1 DEF PlaceInv
<1>4. ASSUME NEW p \in DOMAIN net, NEW q \in DOMAIN net PROVE EdgeInv(p, q)'
  <2>1. EdgeInv(p, q) /\ Received(q)' = Received(q) /\ Sent(p)' = Sent(p)
    BY <1>1 DEF LineInv, Received, Sent
  <2> QED
    BY <1>1, <1>2, <2>1 DEF EdgeInv
<1> QED
  BY <1>1, <1>3, <1>4 DEF LineInv, F!TeeInStep

\* The sender and the receiver after a value has passed from p to q.
LEMMA LineSender ==
  ASSUME FlowInv, LineInv, Items \in Nat \ {0}, NEW p \in DOMAIN net, st[p].at = "send",
         NEW c \in st[p].todo, NEW r, r = F!AfterSend(p, c)
  PROVE  /\ r.from = st[p].from /\ r.held = st[p].held
         /\ \/ /\ st[p].todo # {c} /\ r.todo = st[p].todo \ {c}
               /\ r.at = "send" /\ r.sent = st[p].sent
            \/ /\ st[p].todo = {c} /\ r.todo = net[p].outs
               /\ \/ /\ net[p].emits # <<>> /\ r.sent = st[p].sent + 1
                     /\ \/ r.at \in {"pause", "send"}
                        \/ r.at = "return" /\ r.sent = Items
                  \/ net[p].emits = <<>> /\ r.sent = st[p].sent /\ r.at = "recv"
<1>1. Whole(st[p]) /\ net[p].emits \in {<<>>, F!UpTo(Items)} /\ F!UpTo(Items) # <<>>
  BY Emitted DEF FlowInv, Loops, Whole, LineInv, Line
<1>2. CASE st[p].todo # {c}
  <2>1. r = [at |-> st[p].at, from |-> st[p].from, held |-> st[p].held,
             todo |-> st[p].todo \ {c}, sent |-> st[p].sent]
    BY <1>1, <1>2 DEF F!AfterSend, Whole
  <2> QED
    BY <1>2, <2>1
<1>3. CASE st[p].todo = {c} /\ net[p].emits # <<>>
  <2>1. Len(net[p].emits) = Items
    BY <1>1, <1>3 DEF F!UpTo
  <2>2. PICK at \in {"return", "pause", "send"} :
          /\ r = [at |-> at, from |-> st[p].from, held |-> st[p].held,
                  todo |-> net[p].outs, sent |-> st[p].sent + 1]
          /\ at = "return" => st[p].sent + 1 = Items
    BY <1>1, <1>3, <2>1 DEF F!AfterSend, F!AfterItem, F!IsSource, Whole
  <2> QED
    BY <1>3, <2>2
<1>4. CASE st[p].todo = {c} /\ net[p].emits = <<>>
  <2>1. r = [at |-> "recv", from |-> st[p].from, held |-> st[p].held,
             todo |-> net[p].outs, sent |-> st[p].sent]
    BY <1>1, <1>4 DEF F!AfterSend, F!IsSource, Whole
  <2> QED
    BY <1>4, <2>1
<1> QED
  BY <1>2, <1>3, <1>4

LEMMA LineReceiver ==
  ASSUME FlowInv, LineInv, NEW q \in DOMAIN net, st[q].at = "recv", NEW v \in Nat,
         NEW r, r = F!AfterReceive(q, v)
  PROVE  /\ r.from = st[q].from /\ r.todo = st[q].todo /\ r.sent = st[q].sent
         /\ IF net[q].outs = {} THEN r.at = "recv" /\ r.held = st[q].held
                               ELSE r.at = "send" /\ r.held = v
<1>1. Whole(st[q]) /\ ~F!TakesStream(q)
  BY DEF FlowInv, Loops, Whole, LineInv, Line, F!TakesStream
<1>2. CASE net[q].outs = {}
  BY <1>1, <1>2 DEF F!AfterReceive
<1>3. CASE net[q].outs # {}
  <2>1. r = [at |-> "send", from |-> st[q].from, held |-> v,
             todo |-> st[q].todo, sent |-> st[q].sent]
    BY <1>1, <1>3 DEF F!AfterReceive, Whole
  <2> QED
    BY <1>3, <2>1
<1> QED
  BY <1>2, <1>3

\* The next value at the end of all those before.
LEMMA UpToGrows ==
  ASSUME NEW n \in Nat
  PROVE  Append(F!UpTo(n), n + 1) = F!UpTo(n + 1) /\ Len(F!UpTo(n)) = n
BY DEF F!UpTo

\* One value from p to q.
LEMMA LinePass ==
  ASSUME FlowInv, LineInv, Items \in Nat \ {0}, NEW p \in DOMAIN net, NEW q \in DOMAIN net,
         F!Pass(p, q)
  PROVE  LineInv'
<1> DEFINE v == F!Value(p)
           b == F!AfterReceive(q, v)
<1>1. PICK c \in st[p].todo :
        /\ st[p].at = "send" /\ st[q].at = "recv" /\ st[q].from = c
        /\ st' = [st EXCEPT ![p] = F!AfterSend(p, c), ![q] = b]
        /\ got' = IF q \in F!Sinks THEN [got EXCEPT ![q] = Append(got[q], v)] ELSE got
        /\ UNCHANGED <<example, net, closed>>
  BY DEF F!Pass, F!At, F!wiring
<1> DEFINE a == F!AfterSend(p, c)
<1>2. /\ Sent(p) \in Nat /\ v = Sent(p) + 1 /\ v <= Items /\ v \in Nat
      /\ net[p].outs # {} /\ c \in net[p].outs
  BY <1>1, LineValue
<1>3. /\ PlaceInv(p) /\ PlaceInv(q) /\ Fits(net[p], st[p]) /\ Fits(net[q], st[q])
      /\ DOMAIN st = DOMAIN net /\ got \in [DOMAIN net -> Seq(Nat)]
  BY DEF LineInv, FlowInv, LoopInv, Loops
<1>4. /\ a.from = st[p].from /\ a.held = st[p].held
      /\ \/ /\ st[p].todo # {c} /\ a.todo = st[p].todo \ {c}
            /\ a.at = "send" /\ a.sent = st[p].sent
         \/ /\ st[p].todo = {c} /\ a.todo = net[p].outs
            /\ \/ /\ net[p].emits # <<>> /\ a.sent = st[p].sent + 1
                  /\ \/ a.at \in {"pause", "send"}
                     \/ a.at = "return" /\ a.sent = Items
               \/ net[p].emits = <<>> /\ a.sent = st[p].sent /\ a.at = "recv"
  BY <1>1, LineSender
<1>5. /\ b.from = st[q].from /\ b.todo = st[q].todo /\ b.sent = st[q].sent
      /\ IF net[q].outs = {} THEN b.at = "recv" /\ b.held = st[q].held
                            ELSE b.at = "send" /\ b.held = v
  BY <1>1, <1>2, LineReceiver
<1>6. /\ net' = net /\ example' = example /\ F!Cancelled' = F!Cancelled
      /\ st[p].at = "send" /\ st[q].at = "recv" /\ st[q].from = c /\ c \in st[p].todo
  BY <1>1 DEF F!Cancelled, F!Contexts
<1>7. /\ st' = [st EXCEPT ![p] = a, ![q] = b]
      /\ got' = IF q \in F!Sinks THEN [got EXCEPT ![q] = Append(got[q], v)] ELSE got
  BY <1>1
<1> HIDE DEF a, b, v
<1>8. /\ p # q /\ st'[p] = a /\ st'[q] = b
      /\ \A u \in DOMAIN net : u \notin {p, q} => st'[u] = st[u]
  BY <1>6, <1>3, <1>7
<1>9. net[q].emits = <<>> /\ net[q].in = c /\ c # F!None
  BY <1>6, <1>2, <1>3 DEF Fits, PlaceInv, LineInv, Line
<1>10. /\ q \in F!Sinks <=> net[q].outs = {}
       /\ \A u \in DOMAIN net : u # q => got'[u] = got[u]
       /\ net[q].outs = {} => got'[q] = Append(got[q], v)
       /\ net[q].outs # {} => got'[q] = got[q]
  BY <1>3, <1>7, <1>9 DEF F!Sinks
<1>11. EdgeInv(p, q) /\ Received(q) = Sent(p)
  BY <1>6, <1>2, <1>9 DEF LineInv, EdgeInv
<1>12. Received(q)' = v
  BY <1>6, <1>2, <1>3, <1>5, <1>8, <1>10, <1>11 DEF Received
<1>13. \A u \in DOMAIN net : u # q => Received(u)' = Received(u)
  <2> SUFFICES ASSUME NEW u \in DOMAIN net, u # q PROVE Received(u)' = Received(u)
    OBVIOUS
  <2>1. st'[u].held = st[u].held
    BY <1>4, <1>8
  <2> QED
    BY <1>6, <1>10, <2>1 DEF Received
<1>14. Sent(p)' = IF st[p].todo = {c} THEN v ELSE Sent(p)
  BY <1>6, <1>2, <1>3, <1>4, <1>8 DEF Sent, Fits, PlaceInv
<1>15. ASSUME NEW u \in DOMAIN net PROVE PlaceInv(u)'
  <2>1. CASE u = p
    BY <1>6, <1>2, <1>3, <1>4, <1>6, <1>8, <1>10, <2>1 DEF PlaceInv
  <2>2. CASE u = q
    <3>1. net[q].outs = {} => got'[q] = F!UpTo(Len(got'[q])) /\ Len(got'[q]) <= Items
      <4>1. ASSUME net[q].outs = {}
            PROVE  got[q] = F!UpTo(Sent(p)) /\ got'[q] = Append(F!UpTo(Sent(p)), Sent(p) + 1)
        BY <1>2, <1>3, <1>10, <1>11, <4>1 DEF PlaceInv, Received
      <4> QED
        BY <1>2, <4>1, UpToGrows
    <3>2. st'[q].at \in {"recv", "send"} /\ st'[q].from = net[q].in /\ st'[q].todo = net[q].outs
      BY <1>3, <1>5, <1>6, <1>8, <1>9 DEF PlaceInv
    <3>3. st'[q].held <= Items /\ (st'[q].at = "send" => st'[q].held >= 1)
      BY <1>2, <1>3, <1>5, <1>8 DEF PlaceInv
    <3> QED
      BY <1>6, <2>2, <3>1, <3>2, <3>3 DEF PlaceInv
  <2>3. CASE u \notin {p, q}
    <3>1. PlaceInv(u)
      BY DEF LineInv
    <3> QED
      BY <1>6, <1>8, <1>10, <1>13, <2>3, <3>1 DEF PlaceInv
  <2> QED
    BY <2>1, <2>2, <2>3
<1>16. ASSUME NEW u \in DOMAIN net, NEW w \in DOMAIN net PROVE EdgeInv(u, w)'
  <2>1. EdgeInv(u, w)
    BY DEF LineInv
  <2>2. CASE net[w].in \notin net[u].outs
    BY <1>6, <2>2 DEF EdgeInv
  <2>3. CASE u = p /\ w = q
    BY <1>6, <1>2, <1>4, <1>8, <1>9, <1>12, <1>14, <2>3 DEF EdgeInv
  <2>4. CASE u = p /\ w # q /\ net[w].in \in net[u].outs
    <3>1. net[w].in # c
      BY <1>2, <1>9, <2>4 DEF LineInv, Line
    <3>2. Received(w)' = Received(w)
      BY <1>13, <2>4
    <3>3. CASE st[p].todo = {c}
      <4>1. Received(w) = v /\ Sent(p)' = v
        BY <1>2, <1>6, <1>14, <2>1, <2>4, <3>1, <3>3 DEF EdgeInv
      <4>2. st'[p].at = "send" => st'[p].todo = net[p].outs
        BY <1>4, <1>8, <3>3
      <4> QED
        BY <1>6, <2>4, <3>2, <4>1, <4>2 DEF EdgeInv
    <3>4. CASE st[p].todo # {c}
      <4>1. st'[p].at = "send" /\ st'[p].todo = st[p].todo \ {c} /\ Sent(p)' = Sent(p)
        BY <1>4, <1>8, <1>14, <3>4
      <4> QED
        BY <1>6, <2>1, <2>4, <3>1, <3>2, <4>1 DEF EdgeInv
    <3> QED
      BY <3>3, <3>4
  <2>5. CASE u = q /\ w # q /\ net[w].in \in net[u].outs
    <3>1. net[q].outs # {} /\ st[q].todo = net[q].outs
      BY <1>6, <1>3, <2>5 DEF PlaceInv
    <3>2. Sent(q)' = v - 1 /\ Sent(q) = Received(q)
      BY <1>6, <1>5, <1>8, <1>9, <3>1 DEF Sent, Received
    <3>3. Received(w)' = Received(w)
      BY <1>13, <2>5
    <3> QED
      BY <1>6, <1>2, <1>5, <1>8, <1>11, <2>1, <2>5, <3>1, <3>2, <3>3 DEF EdgeInv
  <2>6. CASE u \in DOMAIN net \ {p} /\ w = q /\ net[w].in \in net[u].outs
    <3>1. net[u].closes \cap net[p].closes # {}
      BY <1>2, <1>9, <2>6 DEF LineInv, Line
    <3> QED
      BY <2>6, <3>1 DEF FlowInv, Sound
  <2>7. CASE u \notin {p, q} /\ w # q
    <3>1. Sent(u)' = Sent(u) /\ Received(w)' = Received(w)
      <4>1. st'[u] = st[u]
        BY <1>8, <2>7
      <4> QED
        BY <1>6, <1>13, <2>7, <4>1 DEF Sent
    <3> QED
      BY <1>6, <1>8, <2>1, <2>7, <3>1 DEF EdgeInv
  <2> QED
    BY <2>2, <2>3, <2>4, <2>5, <2>6, <2>7
<1>17. F!TeeInStep'
  <2> SUFFICES ASSUME example = "tee" PROVE F!TeeInStep'
    BY <1>6 DEF F!TeeInStep
  <2>1. /\ DOMAIN net = {"src", "tee", "A", "B"}
        /\ net["tee"].outs = {"out1", "out2"} /\ net["A"].in = "out1" /\ net["B"].in = "out2"
        /\ net["A"].outs = {} /\ net["B"].outs = {} /\ net["tee"].emits = <<>>
    <3>1. net = F!TeeExample
      BY DEF LineInv
    <3>2. /\ net["tee"] = F!Tee("ctx", "c1", "out1", "out2") /\ net["A"] = F!Consumer("out1")
          /\ net["B"] = F!Consumer("out2") /\ DOMAIN net = {"src", "tee", "A", "B"}
      BY <3>1 DEF F!TeeExample
    <3> QED
      BY <3>2 DEF F!Tee, F!Consumer, F!Goroutine
  <2>2. CASE p = "tee"
    <3>1. st'[p].at # "exited"
      BY <1>6, <1>4, <1>8
    <3>2. Sent(p)' \in Nat /\ EdgeInv(p, "A")' /\ EdgeInv(p, "B")'
      BY <1>2, <1>14, <1>16, <2>1
    <3>3. /\ Len(got'["A"]) \in {Sent(p)', Sent(p)' + 1}
          /\ Len(got'["B"]) \in {Sent(p)', Sent(p)' + 1}
      BY <1>6, <2>1, <2>2, <3>1, <3>2 DEF EdgeInv, Received
    <3> QED
      BY <3>2, <3>3 DEF F!TeeInStep
  <2>3. CASE p # "tee"
    <3>1. q \notin {"A", "B"}
      <4>1. \A u \in DOMAIN net : net[u].outs \cap net[p].outs # {} => u = p
        BY <1>2 DEF LineInv, Line, FlowInv, Sound
      <4> QED
        BY <1>2, <1>9, <2>1, <2>3, <4>1
    <3>2. got'["A"] = got["A"] /\ got'["B"] = got["B"]
      BY <1>10, <2>1, <3>1
    <3> QED
      BY <3>2 DEF LineInv, F!TeeInStep
  <2> QED
    BY <2>2, <2>3
<1> QED
  BY <1>6, <1>15, <1>16, <1>17 DEF LineInv

\* Every step of flows/ keeps LineInv.
LEMMA LineNext ==
  ASSUME FlowInv, LineInv, Items \in Nat \ {0}, F!Next \/ UNCHANGED F!vars
  PROVE  LineInv'
<1>1. ASSUME UNCHANGED F!vars PROVE LineInv'
  <2>1. UNCHANGED <<example, net, st, closed, got>>
    BY <1>1 DEF F!vars, F!wiring
  <2>2. F!Cancelled' = F!Cancelled
    BY <2>1 DEF F!Cancelled, F!Contexts
  <2>3. ASSUME NEW p \in DOMAIN net PROVE PlaceInv(p)'
    <3>1. PlaceInv(p)
      BY DEF LineInv
    <3> QED
      BY <2>1, <2>2, <3>1 DEF PlaceInv, Received
  <2>4. ASSUME NEW p \in DOMAIN net, NEW q \in DOMAIN net PROVE EdgeInv(p, q)'
    <3>1. EdgeInv(p, q)
      BY DEF LineInv
    <3> QED
      BY <2>1, <2>2, <3>1 DEF EdgeInv, Received, Sent
  <2> QED
    BY <2>1, <2>3, <2>4 DEF LineInv, F!TeeInStep
<1> QED
  BY <1>1, LineMove, LinePass, LineCancel DEF F!Next, F!Terminated

\* A line starts with nothing sent and nothing received.
LEMMA LineStart ==
  ASSUME F!Start, Line(net), Items \in Nat \ {0}, Sound(net), example = "tee" => net = F!TeeExample
  PROVE  LineInv
<1>1. /\ st = [p \in DOMAIN net |-> [at |-> net[p].start, from |-> net[p].in, held |-> 0,
                                   todo |-> net[p].outs, sent |-> 0]]
      /\ closed = {} /\ got = [p \in DOMAIN net |-> <<>>]
  BY DEF F!Start
<1>2. \A p \in DOMAIN net : Received(p) = 0 /\ Sent(p) = 0
  <2> SUFFICES ASSUME NEW p \in DOMAIN net PROVE Received(p) = 0 /\ Sent(p) = 0
    OBVIOUS
  <2>1. st[p].held = 0 /\ st[p].sent = 0 /\ Len(got[p]) = 0 /\ st[p].at = net[p].start
    BY <1>1
  <2>2. net[p].emits = <<>> => net[p].start # "send"
    BY DEF Sound
  <2> QED
    BY <2>1, <2>2 DEF Received, Sent
<1>3. ASSUME NEW p \in DOMAIN net PROVE PlaceInv(p)
  <2>1. /\ st[p].at = net[p].start /\ st[p].from = net[p].in /\ st[p].held = 0
        /\ st[p].todo = net[p].outs /\ got[p] = <<>>
    BY <1>1
  <2>2. /\ net[p].start \in {"recv", "send", "pause"}
        /\ net[p].emits # <<>> <=> net[p].start \in {"send", "pause"}
    BY DEF Line, Sound
  <2>3. F!UpTo(0) = <<>>
    BY DEF F!UpTo
  <2> QED
    BY <2>1, <2>2, <2>3 DEF PlaceInv
<1>4. ASSUME NEW p \in DOMAIN net, NEW q \in DOMAIN net PROVE EdgeInv(p, q)
  BY <1>1, <1>2 DEF EdgeInv
<1>5. example = "tee" => got["A"] = <<>> /\ got["B"] = <<>>
  BY <1>1 DEF F!TeeExample
<1> QED
  BY <1>3, <1>4, <1>5 DEF LineInv, F!TeeInStep

\* A goroutine that can stand in a line.
InLine(r, emits, in, outs) ==
  /\ r.start \in {"recv", "send", "pause"} /\ r.emits = emits /\ r.in = in /\ r.outs = outs
  /\ r.closes = outs /\ r.watches \subseteq ContextNames

\* The functions of the packages that can stand in a line.
LEMMA InLines ==
  /\ \A c \in ContextNames : \A n, out : InLine(F!Source(c, n, out), F!UpTo(n), F!None, {out})
  /\ \A c \in ContextNames : \A out : InLine(F!numbers(c, out), F!UpTo(Items), F!None, {out})
  /\ \A c \in ContextNames : \A in, out : InLine(F!Relay(c, in, out), <<>>, in, {out})
  /\ \A c \in ContextNames : \A in, o1, o2 : InLine(F!Tee(c, in, o1, o2), <<>>, in, {o1, o2})
  /\ \A in : InLine(F!Consumer(in), <<>>, in, {})
<1> USE DEF InLine, F!Goroutine
<1>1. \A c \in ContextNames : \A n, out : InLine(F!Source(c, n, out), F!UpTo(n), F!None, {out})
  BY DEF F!Source
<1>2. \A c \in ContextNames : \A out : InLine(F!numbers(c, out), F!UpTo(Items), F!None, {out})
  BY DEF F!numbers
<1>3. \A c \in ContextNames : \A in, out : InLine(F!Relay(c, in, out), <<>>, in, {out})
  BY DEF F!Relay
<1>4. \A c \in ContextNames : \A in, o1, o2 : InLine(F!Tee(c, in, o1, o2), <<>>, in, {o1, o2})
  BY DEF F!Tee
<1>5. \A in : InLine(F!Consumer(in), <<>>, in, {})
  BY DEF F!Consumer
<1> HIDE DEF InLine
<1> QED
  BY <1>1, <1>2, <1>3, <1>4, <1>5

\* What Line asks of each goroutine.
LineMember(r) ==
  /\ r.start \in {"recv", "send", "pause"}
  /\ r.emits \in {<<>>, F!UpTo(Items)}
  /\ r.watches \subseteq ContextNames
  /\ r.closes = r.outs
  /\ F!None \notin r.outs
  /\ r.emits # <<>> => r.in = F!None

\* The examples that are lines.
LEMMA LineNetworks ==
  ASSUME Items \in Nat \ {0}
  PROVE  /\ Line(F!PipelineExample) /\ Line(F!OrDoneExample) /\ Line(F!TeeExample)
         /\ Line(F!GeneratorExample) /\ Line(F!SelectLoopExample)
<1>1. /\ {"ctx", "parent", "consumer"} = ContextNames /\ F!UpTo(Items) # <<>>
      /\ F!None = "none"
  BY Emitted DEF ContextNames, F!None
<1> DEFINE E == F!UpTo(Items)
<1>7. E # <<>>
  BY <1>1
<1>8. ASSUME NEW r, NEW in, NEW outs, F!None \notin outs,
             InLine(r, E, F!None, outs) \/ InLine(r, <<>>, in, outs)
      PROVE  LineMember(r)
  BY <1>8 DEF InLine, LineMember
<1>2. Line(F!PipelineExample)
  <2> DEFINE n == F!PipelineExample
  <2>1. /\ DOMAIN n = {"src", "squared", "doubled", "main"}
        /\ InLine(n["src"], E, F!None, {"c1"})
        /\ InLine(n["squared"], <<>>, "c1", {"c2"}) /\ InLine(n["doubled"], <<>>, "c2", {"c3"})
        /\ InLine(n["main"], <<>>, "c3", {})
    BY <1>1, InLines DEF F!PipelineExample
  <2> HIDE DEF n, E
  <2> QED
    <3>1. \A p \in DOMAIN n : LineMember(n[p])
      BY <1>1, <1>8, <2>1
    <3>2. \A p \in DOMAIN n : n[p].emits = <<>> => \E o \in DOMAIN n : n[p].in \in n[o].outs
      BY <1>7, <2>1 DEF InLine
    <3>3. \A p, q \in DOMAIN n : n[p].in = n[q].in /\ n[p].in # F!None => p = q
      BY <1>1, <2>1 DEF InLine
    <3>4. "bridge" \notin DOMAIN n
      BY <2>1
    <3> QED
      BY <3>1, <3>2, <3>3, <3>4 DEF Line, LineMember, n
<1>3. Line(F!OrDoneExample)
  <2> DEFINE n == F!OrDoneExample
  <2>1. /\ DOMAIN n = {"src", "stream", "main"}
        /\ InLine(n["src"], E, F!None, {"c1"})
        /\ InLine(n["stream"], <<>>, "c1", {"c2"}) /\ InLine(n["main"], <<>>, "c2", {})
    BY <1>1, InLines DEF F!OrDoneExample
  <2> HIDE DEF n, E
  <2> QED
    <3>1. \A p \in DOMAIN n : LineMember(n[p])
      BY <1>1, <1>8, <2>1
    <3>2. \A p \in DOMAIN n : n[p].emits = <<>> => \E o \in DOMAIN n : n[p].in \in n[o].outs
      BY <1>7, <2>1 DEF InLine
    <3>3. \A p, q \in DOMAIN n : n[p].in = n[q].in /\ n[p].in # F!None => p = q
      BY <1>1, <2>1 DEF InLine
    <3>4. "bridge" \notin DOMAIN n
      BY <2>1
    <3> QED
      BY <3>1, <3>2, <3>3, <3>4 DEF Line, LineMember, n
<1>4. Line(F!TeeExample)
  <2> DEFINE n == F!TeeExample
  <2>1. /\ DOMAIN n = {"src", "tee", "A", "B"}
        /\ InLine(n["src"], E, F!None, {"c1"})
        /\ InLine(n["tee"], <<>>, "c1", {"out1", "out2"})
        /\ InLine(n["A"], <<>>, "out1", {}) /\ InLine(n["B"], <<>>, "out2", {})
    BY <1>1, InLines DEF F!TeeExample
  <2> HIDE DEF n, E
  <2> QED
    <3>1. \A p \in DOMAIN n : LineMember(n[p])
      BY <1>1, <1>8, <2>1
    <3>2. \A p \in DOMAIN n : n[p].emits = <<>> => \E o \in DOMAIN n : n[p].in \in n[o].outs
      BY <1>7, <2>1 DEF InLine
    <3>3. \A p, q \in DOMAIN n : n[p].in = n[q].in /\ n[p].in # F!None => p = q
      BY <1>1, <2>1 DEF InLine
    <3>4. "bridge" \notin DOMAIN n
      BY <2>1
    <3> QED
      BY <3>1, <3>2, <3>3, <3>4 DEF Line, LineMember, n
<1>5. Line(F!GeneratorExample)
  <2> DEFINE n == F!GeneratorExample
  <2>1. /\ DOMAIN n = {"src", "main"}
        /\ InLine(n["src"], E, F!None, {"c1"}) /\ InLine(n["main"], <<>>, "c1", {})
    BY <1>1, InLines DEF F!GeneratorExample
  <2> HIDE DEF n, E
  <2> QED
    <3>1. \A p \in DOMAIN n : LineMember(n[p])
      BY <1>1, <1>8, <2>1
    <3>2. \A p \in DOMAIN n : n[p].emits = <<>> => \E o \in DOMAIN n : n[p].in \in n[o].outs
      BY <1>7, <2>1 DEF InLine
    <3>3. \A p, q \in DOMAIN n : n[p].in = n[q].in /\ n[p].in # F!None => p = q
      BY <1>1, <2>1 DEF InLine
    <3>4. "bridge" \notin DOMAIN n
      BY <2>1
    <3> QED
      BY <3>1, <3>2, <3>3, <3>4 DEF Line, LineMember, n
<1>6. Line(F!SelectLoopExample)
  <2> DEFINE n == F!SelectLoopExample
  <2>1. /\ DOMAIN n = {"src", "main"}
        /\ InLine(n["src"], E, F!None, {"c1"}) /\ InLine(n["main"], <<>>, "c1", {})
    BY <1>1 DEF F!SelectLoopExample, F!Consumer, F!Goroutine, InLine
  <2> HIDE DEF n, E
  <2> QED
    <3>1. \A p \in DOMAIN n : LineMember(n[p])
      BY <1>1, <1>8, <2>1
    <3>2. \A p \in DOMAIN n : n[p].emits = <<>> => \E o \in DOMAIN n : n[p].in \in n[o].outs
      BY <1>7, <2>1 DEF InLine
    <3>3. \A p, q \in DOMAIN n : n[p].in = n[q].in /\ n[p].in # F!None => p = q
      BY <1>1, <2>1 DEF InLine
    <3>4. "bridge" \notin DOMAIN n
      BY <2>1
    <3> QED
      BY <3>1, <3>2, <3>3, <3>4 DEF Line, LineMember, n
<1> QED
  BY <1>2, <1>3, <1>4, <1>5, <1>6

\* LineInv holds when one of them starts.
LEMMA LineInit == MainInit /\ example \in LineNames => LineInv
<1> SUFFICES ASSUME MainInit, example \in LineNames PROVE LineInv
  OBVIOUS
<1>1. F!Start /\ Items \in Nat \ {0} /\ Sound(net)
  BY FlowsAssumption, FlowInit DEF MainInit, FlowInv, F!FlowsAssumption
<1>2. /\ example \in DOMAIN F!Network /\ net = F!Network[example]
  BY <1>1 DEF F!Start, F!Network, LineNames
<1>3. net \in {F!PipelineExample, F!OrDoneExample, F!TeeExample, F!GeneratorExample,
              F!SelectLoopExample} /\ (example = "tee" => net = F!TeeExample)
  BY <1>2 DEF F!Network, LineNames
<1> QED
  BY <1>1, <1>3, LineNetworks, LineStart

-----------------------------------------------------------------------------
(* The fan: a value is with the source, with one worker, or with main.     *)

\* The workers that hold a value, and what main has received.
Holding == {w \in FanWorkers : st[w].at = "send"}
Collected == got["main"]

\* Where the goroutines of the fan can be.
FanPlaces ==
  /\ net = F!FanOutFanInExample
  /\ st["src"].at \in {"pause", "send", "return", "exited"}
  /\ st["src"].at = "return" => st["src"].sent = Items
  /\ \A w \in FanWorkers : st[w].at \in {"recv", "send", "exited"} /\ st[w].from = "c1"
  /\ st["closer"].at \in {"join", "exited"}
  /\ st["main"].at \in {"recv", "exited"} /\ st["main"].from = "c2"

\* No value is in two places.
FanValues ==
  /\ IsInjective(Collected) /\ Range(Collected) \subseteq 1..st["src"].sent
  /\ \A w \in Holding : st[w].held \in 1..st["src"].sent /\ st[w].held \notin Range(Collected)
  /\ \A w, x \in Holding : st[w].held = st[x].held => w = x

\* Unless cancelled, every item sent is with main or with a worker, and everybody leaves after
\* the goroutine before it.
FanWhole ==
  ~F!Cancelled =>
    /\ 1..st["src"].sent = Range(Collected) \cup {st[w].held : w \in Holding}
    /\ st["src"].at = "exited" => st["src"].sent = Items
    /\ \A w \in FanWorkers : st[w].at = "exited" => st["src"].at = "exited"
    /\ st["main"].at = "exited" => st["closer"].at = "exited"

\* The inductive invariant behind Delivery and Complete of FanOut.
FanInv == FanPlaces /\ FanValues /\ FanWhole

\* The network of the example, spelled out.
LEMMA FanNet ==
  ASSUME F!FlowsAssumption, net = F!FanOutFanInExample
  PROVE  /\ Items \in Nat \ {0} /\ {"src", "closer", "main", "bridge"} \cap FanWorkers = {}
         /\ DOMAIN net = FanWorkers \cup {"src", "closer", "main"}
         /\ /\ net["src"].emits = F!UpTo(Items) /\ net["src"].in = F!None
            /\ net["src"].outs = {"c1"} /\ net["src"].closes = {"c1"}
            /\ net["src"].start = "pause" /\ net["src"].joins = {}
         /\ \A w \in FanWorkers :
               /\ net[w].emits = <<>> /\ net[w].in = "c1" /\ net[w].outs = {"c2"}
               /\ net[w].closes = {} /\ net[w].start = "recv" /\ net[w].joins = {}
         /\ /\ net["closer"].emits = <<>> /\ net["closer"].in = F!None
            /\ net["closer"].outs = {} /\ net["closer"].closes = {"c2"}
            /\ net["closer"].start = "join" /\ net["closer"].joins = FanWorkers
            /\ net["closer"].watches = {}
         /\ /\ net["main"].emits = <<>> /\ net["main"].in = "c2" /\ net["main"].outs = {}
            /\ net["main"].closes = {} /\ net["main"].start = "recv" /\ net["main"].joins = {}
            /\ net["main"].watches = {}
         /\ \A p \in DOMAIN net : net[p].watches \subseteq ContextNames
<1>1. Items \in Nat \ {0} /\ {"src", "closer", "main", "bridge"} \cap FanWorkers = {}
  BY DEF F!FlowsAssumption
<1>2. /\ DOMAIN net = FanWorkers \cup {"src", "closer", "main"}
      /\ net["src"] = F!Source("ctx", Items, "c1") /\ net["closer"] = F!FanOutCloser("c2")
      /\ net["main"] = F!Consumer("c2")
      /\ \A w \in FanWorkers : net[w] = F!FanOutWorker("ctx", "c1", "c2")
  BY <1>1 DEF F!FanOutFanInExample
<1>3. /\ net["src"].emits = F!UpTo(Items) /\ net["src"].in = F!None
      /\ net["src"].outs = {"c1"} /\ net["src"].closes = {"c1"}
      /\ net["src"].start = "pause" /\ net["src"].joins = {}
      /\ net["src"].watches = {"ctx"}
  BY <1>2 DEF F!Source, F!Goroutine
<1>4. ASSUME NEW w \in FanWorkers
      PROVE  /\ net[w].emits = <<>> /\ net[w].in = "c1" /\ net[w].outs = {"c2"}
             /\ net[w].closes = {} /\ net[w].start = "recv" /\ net[w].joins = {}
             /\ net[w].watches = {"ctx"}
  <2>1. net[w] = F!FanOutWorker("ctx", "c1", "c2")
    BY <1>2
  <2> QED
    BY <2>1 DEF F!FanOutWorker, F!Goroutine
<1>5. /\ net["closer"].emits = <<>> /\ net["closer"].in = F!None
      /\ net["closer"].outs = {} /\ net["closer"].closes = {"c2"}
      /\ net["closer"].start = "join" /\ net["closer"].joins = FanWorkers
      /\ net["closer"].watches = {}
  BY <1>2 DEF F!FanOutCloser, F!Goroutine
<1>6. /\ net["main"].emits = <<>> /\ net["main"].in = "c2" /\ net["main"].outs = {}
      /\ net["main"].closes = {} /\ net["main"].start = "recv" /\ net["main"].joins = {}
      /\ net["main"].watches = {}
  BY <1>2 DEF F!Consumer, F!Goroutine
<1>7. \A p \in DOMAIN net : net[p].watches \subseteq ContextNames
  BY <1>2, <1>3, <1>4, <1>5, <1>6 DEF ContextNames
<1> QED
  BY <1>1, <1>2, <1>3, <1>4, <1>5, <1>6, <1>7

\* A goroutine of the fan leaves.
LEMMA FanLeave ==
  ASSUME F!FlowsAssumption, FlowInv, FanInv, NEW p \in DOMAIN net, F!Leave(p),
         \/ net[p].watches \cap closed # {}
         \/ st[p].at = "return"
         \/ st[p].at = "recv" /\ st[p].from \in closed
         \/ p = "closer"
  PROVE  FanInv'
<1>1. net = F!FanOutFanInExample
  BY DEF FanInv, FanPlaces
<1>2. /\ st'[p].at = "exited"
      /\ \A q \in DOMAIN net : /\ q # p => st'[q] = st[q]
                               /\ st'[q].held = st[q].held /\ st'[q].from = st[q].from
                               /\ st'[q].sent = st[q].sent
      /\ UNCHANGED <<net, got>> /\ DOMAIN st = DOMAIN net
  <2>1. DOMAIN st = DOMAIN net /\ Whole(st[p])
    BY DEF FlowInv, Loops, Whole
  <2>2. st' = [st EXCEPT ![p].at = "exited"] /\ UNCHANGED <<net, got>>
    BY DEF F!Leave, F!wiring
  <2>3. /\ st'[p] = [at |-> "exited", from |-> st[p].from, held |-> st[p].held,
                     todo |-> st[p].todo, sent |-> st[p].sent]
        /\ \A q \in DOMAIN net : q # p => st'[q] = st[q]
    BY <2>1, <2>2, WholeExcept
  <2> QED
    BY <2>1, <2>2, <2>3
<1>3. closed' = closed \cup net[p].closes
  BY DEF F!Leave
<1>4. /\ net[p].watches \cap closed # {} => F!Cancelled
      /\ F!Cancelled' = F!Cancelled
  <2>1. /\ net[p].watches \subseteq ContextNames /\ net[p].closes \cap ContextNames = {}
    BY <1>1, FanNet DEF FlowInv, Sound
  <2> QED
    BY <1>2, <1>3, <2>1 DEF F!Cancelled, F!Contexts, ContextNames
<1>5. FanPlaces'
  BY <1>1, <1>2, FanNet DEF FanInv, FanPlaces
<1>6. Holding' \subseteq Holding
  BY <1>1, <1>2, FanNet DEF Holding
<1>7. /\ Collected' = Collected /\ st'["src"].sent = st["src"].sent
      /\ \A w \in FanWorkers : st'[w].held = st[w].held
  BY <1>1, <1>2, FanNet DEF Collected
<1>8. FanValues'
  <2>1. \A w \in Holding' : w \in FanWorkers
    BY DEF Holding
  <2> QED
    BY <1>6, <1>7, <2>1 DEF FanInv, FanValues, Collected
<1>9. FanWhole'
  <2> SUFFICES ASSUME ~F!Cancelled' PROVE FanWhole'
    BY DEF FanWhole
  <2>1. ~F!Cancelled /\ net[p].watches \cap closed = {}
    BY <1>4
  <2>2. /\ 1..st["src"].sent = Range(Collected) \cup {st[w].held : w \in Holding}
        /\ st["src"].at = "exited" => st["src"].sent = Items
        /\ \A w \in FanWorkers : st[w].at = "exited" => st["src"].at = "exited"
        /\ st["main"].at = "exited" => st["closer"].at = "exited"
    BY <2>1 DEF FanInv, FanWhole
  <2>3. st[p].at # "send"
    BY <1>1, <2>1, FanNet DEF FanInv, FanPlaces
  <2>4. Holding' = Holding
    BY <1>1, <1>2, <2>3, FanNet DEF Holding
  <2>5. {st'[w].held : w \in Holding'} = {st[w].held : w \in Holding}
    BY <1>7, <2>4 DEF Holding
  <2>6. p = "src" => st["src"].sent = Items
    BY <1>1, <2>1, FanNet DEF FanInv, FanPlaces
  <2>7. p \in FanWorkers => st["src"].at = "exited"
    <3>1. p \in FanWorkers => st[p].from = "c1" /\ "c1" \in closed
      BY <1>1, <2>1, FanNet DEF FanInv, FanPlaces
    <3>2. net["src"].closes = {"c1"} /\ ClosedInv("src")
      BY <1>1, FanNet DEF FlowInv
    <3> QED
      BY <3>1, <3>2 DEF ClosedInv
  <2>8. p = "main" => st["closer"].at = "exited"
    <3>1. p = "main" => st[p].from = "c2" /\ "c2" \in closed
      BY <1>1, <2>1, FanNet DEF FanInv, FanPlaces
    <3>2. net["closer"].closes = {"c2"} /\ ClosedInv("closer")
      BY <1>1, FanNet DEF FlowInv
    <3> QED
      BY <3>1, <3>2 DEF ClosedInv
  <2>9. /\ st'["src"].at = "exited" => st'["src"].sent = Items
        /\ \A w \in FanWorkers : st'[w].at = "exited" => st'["src"].at = "exited"
        /\ st'["main"].at = "exited" => st'["closer"].at = "exited"
    BY <1>1, <1>2, <2>2, <2>6, <2>7, <2>8, FanNet
  <2> QED
    BY <1>7, <2>2, <2>5, <2>9 DEF FanWhole
<1> QED
  BY <1>5, <1>8, <1>9 DEF FanInv

\* Every step of one goroutine keeps FanInv.
LEMMA FanMove ==
  ASSUME F!FlowsAssumption, FlowInv, FanInv, NEW p \in DOMAIN net, F!Moves(p) \/ F!Fire(p)
  PROVE  FanInv'
<1>1. net = F!FanOutFanInExample /\ Fits(net[p], st[p])
  BY DEF FanInv, FanPlaces, FlowInv, LoopInv
<1>2. CASE F!Tick(p)
  <2>1. st[p].at = "pause" /\ p = "src"
    BY <1>1, <1>2, FanNet DEF F!Tick, F!At, Fits
  <2>2. /\ st'[p].at = "send"
        /\ \A q \in DOMAIN net : /\ q # p => st'[q] = st[q]
                                 /\ st'[q].held = st[q].held /\ st'[q].from = st[q].from
                                 /\ st'[q].sent = st[q].sent
        /\ UNCHANGED <<net, closed, got>>
    <3>1. DOMAIN st = DOMAIN net /\ Whole(st[p])
      BY DEF FlowInv, Loops, Whole
    <3>2. st' = [st EXCEPT ![p].at = "send"] /\ UNCHANGED <<net, closed, got>>
      BY <1>2 DEF F!Tick, F!wiring
    <3>3. /\ st'[p] = [at |-> "send", from |-> st[p].from, held |-> st[p].held,
                       todo |-> st[p].todo, sent |-> st[p].sent]
          /\ \A q \in DOMAIN net : q # p => st'[q] = st[q]
      BY <3>1, <3>2, WholeExcept
    <3> QED
      BY <3>1, <3>2, <3>3
  <2>3. F!Cancelled' = F!Cancelled
    BY <2>2 DEF F!Cancelled, F!Contexts
  <2>4. Holding' = Holding /\ Collected' = Collected /\ \A w \in FanWorkers : st'[w] = st[w]
    BY <1>1, <2>1, <2>2, FanNet DEF Holding, Collected
  <2>5. FanPlaces'
    BY <1>1, <2>1, <2>2, FanNet DEF FanInv, FanPlaces
  <2>6. st'["src"].sent = st["src"].sent /\ st'["main"] = st["main"]
        /\ st'["closer"] = st["closer"]
    BY <1>1, <2>1, <2>2, FanNet
  <2>7. FanValues'
    BY <2>4, <2>6 DEF FanInv, FanValues, Collected, Holding
  <2>8. {st'[w].held : w \in Holding'} = {st[w].held : w \in Holding}
    BY <2>4 DEF Holding
  <2>9. FanWhole'
    BY <2>1, <2>2, <2>3, <2>4, <2>6, <2>8 DEF FanInv, FanWhole
  <2> QED
    BY <2>5, <2>7, <2>9 DEF FanInv
<1>3. CASE ~F!Tick(p)
  <2>1. /\ F!Leave(p)
        /\ \/ net[p].watches \cap closed # {}
           \/ st[p].at = "return"
           \/ st[p].at = "recv" /\ st[p].from \in closed
           \/ p = "closer"
    <3>1. st[p].from = net[p].in \/ st[p].at # "recv"
      BY <1>1, FanNet DEF FanInv, FanPlaces
    <3>2. st[p].at = "join" => p = "closer"
      BY <1>1, FanNet DEF FanInv, FanPlaces
    <3>3. st[p].at # "timer"
      BY <1>1, FanNet DEF FanInv, FanPlaces
    <3> QED
      BY <1>3, <3>1, <3>2, <3>3
      DEF F!Moves, F!EndOfInput, F!Quit, F!Return, F!Join, F!Fire, F!At
  <2> QED
    BY <2>1, FanLeave
<1> QED
  BY <1>2, <1>3

\* So does a cancellation.
LEMMA FanCancel ==
  ASSUME FanInv, NEW c \in F!Contexts, F!Cancel(c)
  PROVE  FanInv'
<1>1. UNCHANGED <<net, st, got>> /\ closed' = closed \cup {c}
  BY DEF F!Cancel, F!wiring
<1>2. F!Cancelled'
  BY <1>1 DEF F!Cancelled, F!Contexts
<1>3. Holding' = Holding /\ Collected' = Collected
  BY <1>1 DEF Holding, Collected
<1> QED
  BY <1>1, <1>2, <1>3 DEF FanInv, FanPlaces, FanValues, FanWhole

\* The source hands an item to a worker.
LEMMA FanTake ==
  ASSUME F!FlowsAssumption, FlowInv, FanInv, NEW w \in FanWorkers,
         st["src"].at = "send", st["src"].todo = {"c1"}, st[w].at = "recv",
         st' = [st EXCEPT !["src"] = F!AfterSend("src", "c1"),
                          ![w] = F!AfterReceive(w, F!Value("src"))],
         UNCHANGED <<net, closed, got>>
  PROVE  FanInv'
<1> DEFINE s == st["src"].sent
           a == F!AfterSend("src", "c1")
           v == F!Value("src")
           b == F!AfterReceive(w, v)
<1>1. net = F!FanOutFanInExample /\ w # "src" /\ DOMAIN st = DOMAIN net
      /\ net["src"].emits = F!UpTo(Items) /\ Items \in Nat \ {0}
  BY FanNet DEF FanInv, FanPlaces, FlowInv, Loops
<1>2. F!UpTo(Items) # <<>> /\ Len(F!UpTo(Items)) = Items
  BY <1>1, Emitted DEF F!UpTo
<1>3. s \in 0..Items /\ s < Items
  <2>1. Fits(net["src"], st["src"])
    BY <1>1, FanNet DEF FlowInv, LoopInv
  <2> QED
    BY <1>1, <1>2, <2>1 DEF Fits
<1>4. v = s + 1 /\ v \in Nat
  <2>1. v = F!UpTo(Items)[s + 1]
    BY <1>1, <1>2 DEF F!Value, F!IsSource
  <2> QED
    BY <1>1, <1>3, <2>1 DEF F!UpTo
<1>5. a.sent = s + 1 /\ a.at \in {"return", "pause", "send"} /\ (a.at = "return" => s + 1 = Items)
  <2>1. Whole(st["src"])
    BY <1>1, FanNet DEF FlowInv, Loops, Whole
  <2>2. PICK at \in {"return", "pause", "send"} :
          /\ a = [at |-> at, from |-> st["src"].from, held |-> st["src"].held,
                  todo |-> net["src"].outs, sent |-> st["src"].sent + 1]
          /\ at = "return" => st["src"].sent + 1 = Items
    BY <1>1, <1>2, <2>1 DEF F!AfterSend, F!AfterItem, F!IsSource, Whole
  <2> QED
    BY <2>2
<1>6. b.at = "send" /\ b.held = v /\ b.from = st[w].from
  <2>1. Whole(st[w]) /\ net[w].outs = {"c2"} /\ net[w].in = "c1"
    BY <1>1, FanNet DEF FlowInv, Loops, Whole
  <2>2. ~F!TakesStream(w)
    BY <1>1, FanNet DEF F!TakesStream
  <2>3. b = [at |-> "send", from |-> st[w].from, held |-> v,
             todo |-> st[w].todo, sent |-> st[w].sent]
    BY <2>1, <2>2 DEF F!AfterReceive, Whole
  <2> QED
    BY <2>3
<1>7. st' = [st EXCEPT !["src"] = a, ![w] = b]
  OBVIOUS
<1> HIDE DEF a, b, v
<1>8. /\ st'["src"] = a /\ st'[w] = b
      /\ \A q \in DOMAIN net : q \notin {"src", w} => st'[q] = st[q]
  BY <1>1, <1>7, FanNet
<1>9. F!Cancelled' = F!Cancelled /\ Collected' = Collected
  BY DEF F!Cancelled, F!Contexts, Collected
<1>10. FanPlaces'
  BY <1>1, <1>5, <1>6, <1>8, FanNet DEF FanInv, FanPlaces
<1>11. Holding' = Holding \cup {w} /\ w \notin Holding
  BY <1>1, <1>6, <1>8, FanNet DEF Holding
<1>12. /\ \A x \in Holding : st'[x].held = st[x].held
       /\ st'[w].held = s + 1 /\ st'["src"].sent = s + 1
  BY <1>1, <1>4, <1>5, <1>6, <1>8, <1>11, FanNet DEF Holding
<1>13. FanValues'
  <2>1. FanValues
    BY DEF FanInv
  <2>2. \A k \in 1..s : k \in 1..(s + 1) /\ k # s + 1
    BY <1>3
  <2>3. s + 1 \in 1..(s + 1)
    BY <1>3
  <2>4. s + 1 \notin Range(Collected) /\ \A x \in Holding : st[x].held \in 1..s
    BY <2>1, <2>2 DEF FanValues
  <2>5. Range(Collected') \subseteq 1..st'["src"].sent
    BY <1>9, <1>12, <2>1, <2>2 DEF FanValues
  <2>6. ASSUME NEW x \in Holding'
        PROVE  st'[x].held \in 1..st'["src"].sent /\ st'[x].held \notin Range(Collected')
    BY <1>9, <1>11, <1>12, <2>1, <2>2, <2>3, <2>4 DEF FanValues
  <2>7. \A x, y \in Holding' : st'[x].held = st'[y].held => x = y
    BY <1>11, <1>12, <2>1, <2>2, <2>4 DEF FanValues
  <2> QED
    BY <1>9, <2>1, <2>5, <2>6, <2>7 DEF FanValues
<1>14. FanWhole'
  <2> SUFFICES ASSUME ~F!Cancelled PROVE FanWhole'
    BY <1>9 DEF FanWhole
  <2>1. /\ 1..s = Range(Collected) \cup {st[x].held : x \in Holding}
        /\ \A x \in FanWorkers : st[x].at = "exited" => st["src"].at = "exited"
        /\ st["main"].at = "exited" => st["closer"].at = "exited"
    BY DEF FanInv, FanWhole
  <2>2. {st'[x].held : x \in Holding'} = {st[x].held : x \in Holding} \cup {s + 1}
    BY <1>11, <1>12
  <2>3. 1..(s + 1) = 1..s \cup {s + 1}
    BY <1>3
  <2>4. 1..st'["src"].sent = Range(Collected') \cup {st'[x].held : x \in Holding'}
    BY <1>9, <1>12, <2>1, <2>2, <2>3
  <2>5. \A x \in FanWorkers : st'[x].at # "exited"
    BY <1>1, <1>6, <1>8, <2>1, FanNet
  <2>6. st'["src"].at # "exited"
    BY <1>5, <1>8
  <2>7. st'["main"].at = "exited" => st'["closer"].at = "exited"
    BY <1>1, <1>8, <2>1, FanNet
  <2> QED
    BY <2>4, <2>5, <2>6, <2>7 DEF FanWhole
<1> QED
  BY <1>10, <1>13, <1>14 DEF FanInv

\* A worker hands its result to main.
LEMMA FanGive ==
  ASSUME F!FlowsAssumption, FlowInv, FanInv, NEW w \in FanWorkers,
         st[w].at = "send", st[w].todo = {"c2"}, st["main"].at = "recv",
         st' = [st EXCEPT ![w] = F!AfterSend(w, "c2"),
                          !["main"] = F!AfterReceive("main", F!Value(w))],
         got' = [got EXCEPT !["main"] = Append(Collected, F!Value(w))],
         UNCHANGED <<net, closed>>
  PROVE  FanInv'
<1> DEFINE s == st["src"].sent
           a == F!AfterSend(w, "c2")
           v == F!Value(w)
           b == F!AfterReceive("main", v)
<1>1. /\ net = F!FanOutFanInExample /\ w \notin {"src", "closer", "main"}
      /\ DOMAIN st = DOMAIN net /\ got \in [DOMAIN net -> Seq(Nat)]
      /\ net[w].emits = <<>>
  BY FanNet DEF FanInv, FanPlaces, FlowInv, Loops
<1>2. v = st[w].held /\ st[w].held \in Nat
  <2>1. Fits(net[w], st[w])
    BY <1>1, FanNet DEF FlowInv, LoopInv
  <2> QED
    BY <1>1, <2>1 DEF F!Value, F!IsSource, Fits
<1>3. a.at = "recv" /\ a.held = st[w].held /\ a.from = st[w].from
  <2>1. Whole(st[w])
    BY <1>1, FanNet DEF FlowInv, Loops, Whole
  <2>2. a = [at |-> "recv", from |-> st[w].from, held |-> st[w].held,
             todo |-> net[w].outs, sent |-> st[w].sent]
    BY <1>1, <2>1 DEF F!AfterSend, F!IsSource, Whole
  <2> QED
    BY <2>2
<1>4. b = st["main"]
  BY <1>1, FanNet DEF F!AfterReceive, F!TakesStream
<1>5. st' = [st EXCEPT ![w] = a, !["main"] = b]
  OBVIOUS
<1>6. got' = [got EXCEPT !["main"] = Append(Collected, v)]
  OBVIOUS
<1> HIDE DEF a, b, v
<1>7. /\ st'[w] = a
      /\ \A q \in DOMAIN net : q # w => st'[q] = st[q]
  <2>1. w \in DOMAIN st /\ "main" \in DOMAIN st /\ w # "main"
    BY <1>1, FanNet
  <2>2. st'[w] = a /\ st'["main"] = st["main"]
    BY <1>4, <1>5, <2>1
  <2>3. \A q \in DOMAIN st : q \notin {w, "main"} => st'[q] = st[q]
    BY <1>5
  <2> QED
    BY <1>1, <2>2, <2>3
<1>8. Collected' = Append(Collected, v) /\ Collected \in Seq(Nat)
  BY <1>1, <1>6, FanNet DEF Collected
<1>9. F!Cancelled' = F!Cancelled
  BY DEF F!Cancelled, F!Contexts
<1>10. FanPlaces'
  <2>1. /\ st'["src"] = st["src"] /\ st'["closer"] = st["closer"] /\ st'["main"] = st["main"]
        /\ \A x \in FanWorkers : x # w => st'[x] = st[x]
    BY <1>1, <1>7, FanNet
  <2>2. FanPlaces
    BY DEF FanInv
  <2>3. st'[w].at = "recv" /\ st'[w].from = st[w].from
    BY <1>3, <1>7
  <2>4. \A x \in FanWorkers : st'[x].at \in {"recv", "send", "exited"} /\ st'[x].from = "c1"
    BY <2>1, <2>2, <2>3 DEF FanPlaces
  <2>5. net' = net
    OBVIOUS
  <2> QED
    BY <1>1, <2>1, <2>2, <2>4, <2>5 DEF FanPlaces
<1>11. Holding' = Holding \ {w} /\ w \in Holding
  BY <1>1, <1>3, <1>7, FanNet DEF Holding
<1>12. /\ \A x \in FanWorkers : st'[x].held = st[x].held
       /\ st'["src"].sent = s
  BY <1>1, <1>3, <1>7, FanNet
<1>13. v \notin Range(Collected) /\ v \in 1..s
  BY <1>2, <1>11 DEF FanInv, FanValues
<1>14. Range(Collected') = Range(Collected) \cup {v} /\ IsInjective(Collected')
  <2>1. IsInjective(Collected)
    BY DEF FanInv, FanValues
  <2> QED
    BY <1>2, <1>8, <1>13, <2>1, AppendFresh
<1>15. \A x \in Holding' : x \in Holding /\ x # w /\ x \in FanWorkers
  BY <1>11 DEF Holding
<1>16. FanValues'
  <2>1. FanValues
    BY DEF FanInv
  <2>2. Range(Collected') \subseteq 1..st'["src"].sent
    BY <1>12, <1>13, <1>14, <2>1 DEF FanValues
  <2>3. ASSUME NEW x \in Holding'
        PROVE  st'[x].held \in 1..st'["src"].sent /\ st'[x].held \notin Range(Collected')
    BY <1>2, <1>11, <1>12, <1>14, <1>15, <2>1, <2>3 DEF FanValues
  <2>4. \A x, y \in Holding' : st'[x].held = st'[y].held => x = y
    BY <1>12, <1>15, <2>1 DEF FanValues
  <2> QED
    BY <1>14, <2>2, <2>3, <2>4 DEF FanValues
<1>17. FanWhole'
  <2> SUFFICES ASSUME ~F!Cancelled PROVE FanWhole'
    BY <1>9 DEF FanWhole
  <2>1. /\ 1..s = Range(Collected) \cup {st[x].held : x \in Holding}
        /\ st["src"].at = "exited" => s = Items
        /\ \A x \in FanWorkers : st[x].at = "exited" => st["src"].at = "exited"
        /\ st["main"].at = "exited" => st["closer"].at = "exited"
    BY DEF FanInv, FanWhole
  <2>2. {st[x].held : x \in Holding} = {st'[x].held : x \in Holding'} \cup {v}
    <3>1. {st'[x].held : x \in Holding'} = {st[x].held : x \in Holding'}
      BY <1>12, <1>15
    <3> QED
      BY <1>2, <1>11, <3>1
  <2>3. 1..st'["src"].sent = Range(Collected') \cup {st'[x].held : x \in Holding'}
    BY <1>12, <1>14, <2>1, <2>2
  <2>4. /\ st'["src"].at = "exited" => st'["src"].sent = Items
        /\ \A x \in FanWorkers : st'[x].at = "exited" => st'["src"].at = "exited"
        /\ st'["main"].at = "exited" => st'["closer"].at = "exited"
    <3>1. /\ st'["src"] = st["src"] /\ st'["closer"] = st["closer"] /\ st'["main"] = st["main"]
          /\ \A x \in FanWorkers : x # w => st'[x] = st[x]
      BY <1>1, <1>7, FanNet
    <3> QED
      BY <1>3, <1>7, <2>1, <3>1
  <2> QED
    BY <2>3, <2>4 DEF FanWhole
<1> QED
  BY <1>10, <1>16, <1>17 DEF FanInv

\* A value passes from the source to a worker, or from a worker to main.
LEMMA FanPass ==
  ASSUME F!FlowsAssumption, FlowInv, FanInv, NEW p \in DOMAIN net, NEW q \in DOMAIN net,
         F!Pass(p, q)
  PROVE  FanInv'
<1>1. PICK c \in st[p].todo :
        /\ st[p].at = "send" /\ st[q].at = "recv" /\ st[q].from = c
        /\ st' = [st EXCEPT ![p] = F!AfterSend(p, c), ![q] = F!AfterReceive(q, F!Value(p))]
        /\ got' = IF q \in F!Sinks THEN [got EXCEPT ![q] = Append(got[q], F!Value(p))] ELSE got
        /\ UNCHANGED <<example, net, closed>>
  BY DEF F!Pass, F!At, F!wiring
<1>2. net = F!FanOutFanInExample /\ st[p].todo \subseteq net[p].outs
  BY DEF FanInv, FanPlaces, FlowInv, LoopInv, Fits
<1>3. \/ p = "src" /\ q \in FanWorkers /\ c = "c1" /\ st[p].todo = {"c1"}
      \/ p \in FanWorkers /\ q = "main" /\ c = "c2" /\ st[p].todo = {"c2"}
  <2>1. p = "src" \/ p \in FanWorkers
    BY <1>1, <1>2, FanNet DEF FanInv, FanPlaces
  <2>2. q = "main" \/ q \in FanWorkers
    BY <1>1, <1>2, FanNet DEF FanInv, FanPlaces
  <2>3. /\ p = "src" => net[p].outs = {"c1"}
        /\ p \in FanWorkers => net[p].outs = {"c2"}
        /\ q = "main" => st[q].from = "c2"
        /\ q \in FanWorkers => st[q].from = "c1"
    BY <1>2, FanNet DEF FanInv, FanPlaces
  <2> QED
    BY <1>1, <1>2, <2>1, <2>2, <2>3
<1>4. /\ q \in FanWorkers => q \notin F!Sinks
      /\ q = "main" => q \in F!Sinks
  <2>1. q \in FanWorkers => net[q].outs = {"c2"}
    BY <1>2, FanNet
  <2>2. q = "main" => net[q].outs = {} /\ net[q].in = "c2"
    BY <1>2, FanNet
  <2> QED
    BY <2>1, <2>2 DEF F!Sinks, F!None
<1>5. CASE p = "src" /\ q \in FanWorkers /\ c = "c1" /\ st[p].todo = {"c1"}
  BY <1>1, <1>4, <1>5, FanTake
<1>6. CASE p \in FanWorkers /\ q = "main" /\ c = "c2" /\ st[p].todo = {"c2"}
  BY <1>1, <1>4, <1>6, FanGive DEF Collected
<1> QED
  BY <1>3, <1>5, <1>6

\* Every step of flows/ keeps FanInv.
LEMMA FanNext ==
  ASSUME F!FlowsAssumption, FlowInv, FanInv, F!Next \/ UNCHANGED F!vars
  PROVE  FanInv'
<1>1. CASE UNCHANGED F!vars
  <2>1. UNCHANGED <<net, st, closed, got>>
    BY <1>1 DEF F!vars, F!wiring
  <2>2. F!Cancelled' = F!Cancelled /\ Holding' = Holding /\ Collected' = Collected
    BY <2>1 DEF F!Cancelled, F!Contexts, Holding, Collected
  <2> QED
    BY <2>1, <2>2 DEF FanInv, FanPlaces, FanValues, FanWhole
<1> QED
  BY <1>1, FanMove, FanPass, FanCancel DEF F!Next, F!Terminated

\* FanInv holds when the example starts.
LEMMA FanInit == MainInit /\ example = "fanoutin" => FanInv
<1> SUFFICES ASSUME MainInit, example = "fanoutin" PROVE FanInv
  OBVIOUS
<1>1. F!Start
  BY DEF MainInit
<1>2. net = F!FanOutFanInExample
  BY <1>1 DEF F!Start, F!Network
<1>3. \A p \in DOMAIN net : /\ st[p].at = net[p].start /\ st[p].from = net[p].in
                            /\ st[p].sent = 0 /\ got[p] = <<>>
  BY <1>1 DEF F!Start
<1>4. FanPlaces
  BY <1>2, <1>3, FanNet, FlowsAssumption DEF FanPlaces
<1>5. Collected = <<>> /\ Holding = {} /\ st["src"].sent = 0
  BY <1>2, <1>3, FanNet, FlowsAssumption DEF Collected, Holding
<1>6. FanValues
  BY <1>5 DEF FanValues, IsInjective, Range
<1>7. FanWhole
  <2>1. 1..0 = {} /\ Range(<<>>) = {}
    BY DEF Range
  <2>2. st["src"].at # "exited" /\ st["main"].at # "exited"
        /\ \A w \in FanWorkers : st[w].at # "exited"
    BY <1>2, <1>3, FanNet, FlowsAssumption
  <2> QED
    BY <1>5, <2>1, <2>2 DEF FanWhole
<1> QED
  BY <1>4, <1>6, <1>7 DEF FanInv

-----------------------------------------------------------------------------
(* All examples.                                                           *)

\* "or", and the examples of other packages, send no values at all.
QuietInv ==
  /\ example = "or" \/ DOMAIN net = {}
  /\ \A p \in DOMAIN net : net[p].outs = {} /\ got[p] = <<>>

\* The inductive invariant of all examples but Bridge.
ValueInv ==
  /\ FlowInv
  /\ example \in LineNames => LineInv
  /\ example = "fanoutin" => FanInv
  /\ example \notin LineNames \cup {"fanoutin", "bridge"} => QuietInv

\* ValueInv holds when main starts an example.
LEMMA ValueInit == MainInit => ValueInv
<1> SUFFICES ASSUME MainInit, example \notin LineNames \cup {"fanoutin", "bridge"}
             PROVE  QuietInv
  BY FlowInit, LineInit, FanInit DEF ValueInv
<1>1. /\ net = IF example \in DOMAIN F!Network THEN F!Network[example] ELSE <<>>
      /\ got = [p \in DOMAIN net |-> <<>>]
  BY DEF MainInit, F!Start
<1>2. CASE example \in DOMAIN F!Network
  <2>1. example = "or" /\ net = F!OrExample
    BY <1>1, <1>2 DEF F!Network, LineNames
  <2> DEFINE tree == F!OrContext("ctx", TimerChannel)
             timers == F!Range(TimerChannel)
  <2>2. \A p \in DOMAIN tree : tree[p].outs = {}
    BY DEF F!OrContext, F!OrTree, F!Goroutine
  <2>3. \A p \in DOMAIN net :
          \/ p \in DOMAIN tree /\ net[p] = tree[p]
          \/ net[p] = F!Consumer(OrChannel[1])
          \/ net[p] = F!After(p)
    BY <2>1 DEF F!OrExample
  <2> HIDE DEF tree, timers
  <2>4. \A p \in DOMAIN net : net[p].outs = {}
    BY <2>2, <2>3 DEF F!Consumer, F!After, F!Goroutine
  <2> QED
    BY <1>1, <2>1, <2>4 DEF QuietInv
<1>3. CASE example \notin DOMAIN F!Network
  BY <1>1, <1>3 DEF QuietInv
<1> QED
  BY <1>2, <1>3

\* Without an output no value passes.
LEMMA QuietNext ==
  ASSUME FlowInv, QuietInv, UNCHANGED example, F!Next \/ UNCHANGED F!vars
  PROVE  QuietInv'
<1>1. ASSUME NEW p \in DOMAIN net, NEW q \in DOMAIN net PROVE ~F!Pass(p, q)
  BY DEF FlowInv, LoopInv, Fits, QuietInv, F!Pass, F!At
<1>2. UNCHANGED <<net, got>>
  <2>1. ASSUME NEW p \in DOMAIN net, F!Moves(p) \/ F!Fire(p) PROVE UNCHANGED <<net, got>>
    BY <2>1 DEF F!Moves, F!Tick, F!EndOfInput, F!Quit, F!Return, F!Join, F!Fire, F!Leave, F!wiring
  <2> QED
    BY <1>1, <2>1 DEF F!Next, F!Cancel, F!Terminated, F!vars, F!wiring
<1> QED
  BY <1>2 DEF QuietInv

\* The examples do not change each other, so ValueInv is inductive.
LEMMA ValueNext == ValueInv /\ [MainNext]_allVars => ValueInv'
<1> SUFFICES ASSUME ValueInv, [MainNext]_allVars PROVE ValueInv'
  OBVIOUS
<1>1. UNCHANGED example /\ FlowInv /\ FlowInv'
  BY ExampleStays, FlowNext DEF ValueInv
<1>2. F!Next \/ UNCHANGED F!vars
  <2>1. F!Next \/ UNCHANGED flowVars
    BY DEF MainNext, allVars
  <2> QED
    BY <1>1, <2>1 DEF flowVars, F!vars, F!wiring
<1>3. F!FlowsAssumption /\ Items \in Nat \ {0}
  BY FlowsAssumption DEF F!FlowsAssumption
<1>4. example \in LineNames => LineInv'
  BY <1>1, <1>2, <1>3, LineNext DEF ValueInv
<1>5. example = "fanoutin" => FanInv'
  BY <1>1, <1>2, <1>3, FanNext DEF ValueInv
<1>6. example \notin LineNames \cup {"fanoutin", "bridge"} => QuietInv'
  BY <1>1, <1>2, QuietNext DEF ValueInv
<1> QED
  BY <1>1, <1>4, <1>5, <1>6 DEF ValueInv

\* "We keep trying until both succeed".
THEOREM InStep == MainSpec => []TeeInStep
<1>1. ValueInv => TeeInStep
  BY DEF ValueInv, LineNames, LineInv, TeeInStep, F!TeeInStep
<1> QED
  BY <1>1, ValueInit, ValueNext, PTL DEF MainSpec, allVars

\* A shorter sequence of items is a prefix of a longer one.
LEMMA PrefixOfItems ==
  ASSUME NEW m \in Nat, NEW n \in Nat, m <= n
  PROVE  F!IsPrefix(F!UpTo(m), F!UpTo(n))
<1>1. Len(F!UpTo(m)) = m /\ Len(F!UpTo(n)) = n
  BY DEF F!UpTo
<1>2. SubSeq(F!UpTo(m), 1, m) = F!UpTo(m) /\ SubSeq(F!UpTo(n), 1, m) = F!UpTo(m)
  BY DEF F!UpTo
<1> QED
  BY <1>1, <1>2 DEF F!IsPrefix

\* Pipeline, OrDone, both sides of Tee, the generator, the select loop and Or: whatever is
\* cancelled, a consumer has received the values in order, from the first one, without a gap
\* or a repetition; and however the workers of FanOut overtake each other, none twice.
THEOREM Delivered == MainSpec => [](example # "bridge" => Delivery)
<1>1. ASSUME ValueInv, example # "bridge" PROVE F!Delivery
  <2> SUFFICES ASSUME NEW s \in F!Sinks
               PROVE  IF example = "fanoutin"
                        THEN F!IsInjective(got[s]) /\ F!Range(got[s]) \subseteq F!Range(F!Expected)
                        ELSE F!IsPrefix(got[s], F!Expected)
    BY <1>1 DEF F!Delivery
  <2>1. s \in DOMAIN net /\ net[s].outs = {} /\ net[s].in # F!None /\ Items \in Nat \ {0}
    BY FlowsAssumption DEF F!Sinks, F!FlowsAssumption
  <2>2. CASE example \in LineNames
    <3>1. got[s] = F!UpTo(Len(got[s])) /\ Len(got[s]) <= Items /\ Len(got[s]) \in Nat
      <4>1. PlaceInv(s)
        BY <1>1, <2>1, <2>2 DEF ValueInv, LineInv
      <4>2. got \in [DOMAIN net -> Seq(Nat)]
        BY <1>1 DEF ValueInv, FlowInv, Loops
      <4> QED
        BY <2>1, <4>1, <4>2 DEF PlaceInv
    <3>2. F!Expected = F!UpTo(Items) /\ example # "fanoutin"
      BY <2>2 DEF LineNames, F!Expected
    <3> QED
      BY <2>1, <3>1, <3>2, PrefixOfItems
  <2>3. CASE example = "fanoutin"
    <3>1. FanInv /\ F!Expected = F!UpTo(Items)
      BY <1>1, <2>3 DEF ValueInv, F!Expected
    <3>2. s = "main" /\ st["src"].sent \in 0..Items
      <4>1. net = F!FanOutFanInExample
        BY <3>1 DEF FanInv, FanPlaces
      <4>2. Fits(net["src"], st["src"])
        BY <1>1, <4>1, FanNet, FlowsAssumption DEF ValueInv, FlowInv, LoopInv
      <4>3. Len(F!UpTo(Items)) = Items
        BY <2>1 DEF F!UpTo
      <4>4. s = "main"
        BY <2>1, <4>1, FanNet, FlowsAssumption
      <4> QED
        BY <4>1, <4>2, <4>3, <4>4, FanNet, FlowsAssumption DEF Fits
    <3>3. Range(F!UpTo(Items)) = 1..Items
      BY DEF Range, F!UpTo
    <3>4. \A f : (F!IsInjective(f) <=> IsInjective(f)) /\ F!Range(f) = Range(f)
      BY DEF F!IsInjective, IsInjective, F!Range, Range
    <3>5. IsInjective(got[s]) /\ Range(got[s]) \subseteq 1..st["src"].sent
      BY <3>1, <3>2 DEF FanInv, FanValues, Collected
    <3>6. 1..st["src"].sent \subseteq 1..Items
      BY <2>1, <3>2
    <3> QED
      BY <2>3, <3>1, <3>3, <3>4, <3>5, <3>6
  <2>4. CASE example \notin LineNames \cup {"fanoutin", "bridge"}
    <3>1. example = "or" /\ got[s] = <<>> /\ F!Expected = <<>>
      BY <1>1, <2>1, <2>4 DEF ValueInv, QuietInv, F!Expected
    <3> QED
      BY <2>4, <3>1 DEF F!IsPrefix
  <2> QED
    BY <1>1, <2>2, <2>3, <2>4
<1>2. ValueInv => (example # "bridge" => Delivery)
  BY <1>1 DEF Delivery
<1> QED
  BY <1>2, ValueInit, ValueNext, PTL DEF MainSpec, allVars

\* A sequence without repetition that has the values 1 to n has n elements.
LEMMA AllReceived ==
  ASSUME NEW s \in Seq(Nat), NEW n \in Nat, IsInjective(s), Range(s) = 1..n
  PROVE  Len(s) = n
<1>1. Len(s) \in Nat /\ s \in [1..Len(s) -> Nat] /\ DOMAIN s = 1..Len(s)
  OBVIOUS
<1>2. s \in Injection(1..Len(s), 1..n)
  BY <1>1 DEF Injection, IsInjective, Range
<1>3. s \in Surjection(1..Len(s), 1..n)
  BY <1>1 DEF Surjection, Range
<1>4. ExistsBijection(1..Len(s), 1..n)
  BY <1>2, <1>3 DEF ExistsBijection, Bijection
<1>5. /\ IsFiniteSet(1..Len(s)) /\ Cardinality(1..Len(s)) = Len(s)
      /\ Cardinality(1..n) = n
  <2>1. \A k \in Nat : IsFiniteSet(1..k) /\ Cardinality(1..k) = IF 1 > k THEN 0 ELSE k - 1 + 1
    BY FS_Interval
  <2>2. \A k \in Nat : (IF 1 > k THEN 0 ELSE k - 1 + 1) = k
    OBVIOUS
  <2> QED
    BY <1>1, <2>1, <2>2
<1> QED
  BY <1>4, <1>5, FS_Bijection

\* A consumer that sees the end of its stream has everything, unless a context was cancelled;
\* FanOut needs a worker, since with none it closes its output at once.
THEOREM Completed ==
  MainSpec => [](example # "bridge" /\ (example = "fanoutin" => FanWorkers # {}) => Complete)
<1>1. ASSUME ValueInv, example # "bridge", example = "fanoutin" => FanWorkers # {},
             NEW s \in F!Sinks, st[s].at = "exited", ~F!Cancelled
      PROVE  Len(got[s]) = Len(F!Expected)
  <2>1. s \in DOMAIN net /\ net[s].outs = {} /\ net[s].in # F!None /\ Items \in Nat \ {0}
    BY FlowsAssumption DEF F!Sinks, F!FlowsAssumption
  <2>2. Len(F!UpTo(Items)) = Items
    BY <2>1 DEF F!UpTo
  <2>3. CASE example \in LineNames
    <3>1. PlaceInv(s) /\ (net[s].emits # <<>> => net[s].in = F!None)
      BY <1>1, <2>1, <2>3 DEF ValueInv, LineInv, Line
    <3>2. Received(s) = Items
      BY <1>1, <2>1, <3>1 DEF PlaceInv
    <3>3. F!Expected = F!UpTo(Items)
      BY <2>3 DEF LineNames, F!Expected
    <3> QED
      BY <2>1, <2>2, <3>2, <3>3 DEF Received
  <2>4. CASE example = "fanoutin"
    <3>1. FanInv /\ F!Expected = F!UpTo(Items) /\ FlowInv
      BY <1>1, <2>4 DEF ValueInv, F!Expected
    <3>2. net = F!FanOutFanInExample
      BY <3>1 DEF FanInv, FanPlaces
    <3>3. s = "main" /\ "closer" \in DOMAIN net /\ net["closer"].joins = FanWorkers
          /\ "main" \in DOMAIN net
      BY <2>1, <3>2, FanNet, FlowsAssumption
    <3>4. /\ 1..st["src"].sent = Range(Collected) \cup {st[w].held : w \in Holding}
          /\ st["src"].at = "exited" => st["src"].sent = Items
          /\ \A w \in FanWorkers : st[w].at = "exited" => st["src"].at = "exited"
          /\ st["closer"].at = "exited"
      BY <1>1, <3>1, <3>3 DEF FanInv, FanWhole
    <3>5. \A w \in FanWorkers : st[w].at = "exited"
      BY <3>1, <3>3, <3>4 DEF FlowInv, ClosedInv
    <3>6. st["src"].sent = Items /\ Holding = {}
      BY <1>1, <2>4, <3>4, <3>5 DEF Holding
    <3>7. Range(Collected) = 1..Items
      BY <3>4, <3>6
    <3>8. IsInjective(Collected) /\ Collected \in Seq(Nat)
      BY <3>1, <3>3 DEF FanInv, FanValues, FlowInv, Loops, Collected
    <3>9. Len(Collected) = Items
      BY <2>1, <3>7, <3>8, AllReceived
    <3> QED
      BY <2>2, <3>1, <3>3, <3>9 DEF Collected
  <2>5. CASE example \notin LineNames \cup {"fanoutin", "bridge"}
    BY <1>1, <2>1, <2>5 DEF ValueInv, QuietInv, F!Expected
  <2> QED
    BY <1>1, <2>3, <2>4, <2>5
<1>2. ValueInv => (example # "bridge" /\ (example = "fanoutin" => FanWorkers # {}) => Complete)
  BY <1>1 DEF Complete, F!Complete, F!At
<1> QED
  BY <1>2, ValueInit, ValueNext, PTL DEF MainSpec, allVars
=============================================================================
