-------------------------------- MODULE Cond --------------------------------
(***************************************************************************)
(* primitives/cond: the queue of signal.go with a goroutine that pushes    *)
(* and goroutines that pop, and the listeners of broadcast.go.  Wait gives *)
(* up the lock and joins the condition's list in one step, and takes the   *)
(* lock again after it was woken.                                          *)
(***************************************************************************)
EXTENDS Naturals, Sequences, FiniteSets

CONSTANTS Poppers,    \* goroutines that pop; the example has one
          PerPopper,  \* items that each of them pops; the example: 5
          Listeners   \* names of the listeners; the example has three

VARIABLES example,    (* the name of what main runs                        *)
          items,      (* q.items                                           *)
          pushed,     (* how many items were pushed                        *)
          popped,     (* history: the items in the order they were popped  *)
          got,        (* how many items each popper has                    *)
          pc,         (* next step of each popper or listener              *)
          asleep,     (* the list of the condition, in the order of Wait   *)
          clicked     (* main has called Broadcast                         *)

vars == <<example, items, pushed, popped, got, pc, asleep, clicked>>

Signal == example = "signal"
Broadcast == example = "broadcast"
Waiters == Poppers \cup Listeners

Total == PerPopper * Cardinality(Poppers)

Init ==
  /\ items = <<>>
  /\ pushed = 0
  /\ popped = <<>>
  /\ got = [w \in Poppers |-> 0]
  /\ pc = [w \in Waiters |-> IF w \in Poppers THEN "lock" ELSE "unborn"]
  /\ asleep = <<>>
  /\ clicked = FALSE

-----------------------------------------------------------------------------
(* The queue.                                                              *)

push ==
  /\ Signal
  /\ pushed < Total
  /\ items' = Append(items, pushed)
  /\ pushed' = pushed + 1
  /\ IF asleep = <<>>
       THEN UNCHANGED <<asleep, pc>>
       ELSE /\ asleep' = Tail(asleep)
            /\ pc' = [pc EXCEPT ![Head(asleep)] = "lock"]
  /\ UNCHANGED <<example, popped, got, clicked>>

PopNewest(w) ==   \* mutant: the item is taken from the end where push appends
  /\ Signal
  /\ pc[w] = "lock"
  /\ IF items = <<>>
       THEN /\ asleep' = Append(asleep, w)
            /\ pc' = [pc EXCEPT ![w] = "asleep"]
            /\ UNCHANGED <<items, popped, got>>
       ELSE /\ popped' = Append(popped, items[Len(items)])
            /\ items' = SubSeq(items, 1, Len(items) - 1)
            /\ got' = [got EXCEPT ![w] = @ + 1]
            /\ pc' = [pc EXCEPT ![w] = IF got'[w] = PerPopper THEN "exited" ELSE "lock"]
            /\ UNCHANGED asleep
  /\ UNCHANGED <<example, pushed, clicked>>

\* From the lock, taken for the first time or again in Wait, to the unlock or the Wait.
pop(w) ==
  /\ Signal
  /\ pc[w] = "lock"
  /\ IF items = <<>>
       THEN /\ asleep' = Append(asleep, w)
            /\ pc' = [pc EXCEPT ![w] = "asleep"]
            /\ UNCHANGED <<items, popped, got>>
       ELSE /\ popped' = Append(popped, Head(items))
            /\ items' = Tail(items)
            /\ got' = [got EXCEPT ![w] = @ + 1]
            /\ pc' = [pc EXCEPT ![w] = IF got'[w] = PerPopper THEN "exited" ELSE "lock"]
            /\ UNCHANGED asleep
  /\ UNCHANGED <<example, pushed, clicked>>

-----------------------------------------------------------------------------
(* The listeners.                                                          *)

\* main starts the listeners one after the other, each when its predecessor runs.
subscribe(w) ==
  /\ Broadcast
  /\ \A v \in Listeners : pc[v] # "started"
  /\ pc[w] = "unborn"
  /\ pc' = [pc EXCEPT ![w] = "started"]
  /\ UNCHANGED <<example, items, pushed, popped, got, asleep, clicked>>

To(w, from, to) ==
  /\ Broadcast
  /\ pc[w] = from
  /\ pc' = [pc EXCEPT ![w] = to]
  /\ UNCHANGED <<example, items, pushed, popped, got, clicked>>

Announce(w) == To(w, "started", "lock") /\ UNCHANGED asleep   \* the inner wg.Done()

Wait(w) == To(w, "lock", "asleep") /\ asleep' = Append(asleep, w)

fn(w) == To(w, "woken", "exited") /\ UNCHANGED asleep   \* and the outer wg.Done()

Click ==   \* button.Broadcast()
  /\ Broadcast
  /\ ~clicked
  /\ \A w \in Listeners : pc[w] \notin {"unborn", "started"}
  /\ clicked' = TRUE
  /\ pc' = [w \in Waiters |-> IF pc[w] = "asleep" THEN "woken" ELSE pc[w]]
  /\ asleep' = <<>>
  /\ UNCHANGED <<example, items, pushed, popped, got>>

-----------------------------------------------------------------------------
Step(w) ==
  \/ w \in Poppers /\ pop(w)
  \/ w \in Listeners /\ (subscribe(w) \/ Announce(w) \/ Wait(w) \/ fn(w))

\* A listener that came too late sleeps for ever, and main waits for it.
Over ==
  /\ \/ clicked /\ \A w \in Listeners : pc[w] \in {"exited", "asleep"}
     \/ Signal /\ \A w \in Poppers : pc[w] = "exited"
  /\ UNCHANGED vars

Next == push \/ Click \/ (\E w \in Waiters : Step(w)) \/ Over

\* Goroutines keep running; the lock is not held for ever.
Fairness ==
  /\ WF_vars(push)
  /\ WF_vars(Click)
  /\ \A w \in Waiters : WF_vars(Step(w))

\* The two examples alone.
Spec ==
  /\ example \in {"signal", "broadcast"}
  /\ Init
  /\ [][Next]_vars
  /\ Fairness

-----------------------------------------------------------------------------
(* Properties.                                                             *)

\* No wake-up is lost and none is taken for an item: all the items are popped, every one
\* once and in the order in which they were pushed, although Signal wakes one popper only
\* and another one may have emptied the queue before it has the lock.
ItemsPopped ==
  Signal ~> /\ \A w \in Poppers : pc[w] = "exited"
            /\ popped = [i \in 1..Total |-> i - 1]

\* "All listeners have been notified.": the click reaches every listener whose subscribe
\* has returned, and main gets to its last line.
ListenersNotified == Broadcast ~> \A w \in Listeners : pc[w] = "exited"
=============================================================================
