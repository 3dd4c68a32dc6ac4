----------------------------- MODULE Semaphore ------------------------------
(***************************************************************************)
(* The counting semaphore of pools/semaphore/semaphore.go: a channel with  *)
(* one buffered token per holder.  Acquire sends a token, Release receives *)
(* one, and Close only raises a flag.  The users keep to the protocol of   *)
(* With and of the example: whoever got a token calls Release once.        *)
(*                                                                         *)
(* s.mu is never held across a wait: taking it, reading the flag and       *)
(* giving it back is one step, and TryAcquire, which holds it to the end,  *)
(* is one step as a whole.                                                 *)
(*                                                                         *)
(* ErrReleaseWithoutAcquire, which Release returns when it finds no token, *)
(* is not modelled: by TokensExact there is one for every such user.       *)
(***************************************************************************)
EXTENDS Naturals, Sequences, FiniteSets, SequencesExt

CONSTANTS Users,      (* goroutines that use the semaphore                 *)
          Capacity    (* capacity of the channel s.tokens                  *)

ASSUME SemaphoreAssumption ==
  /\ IsFiniteSet(Users)
  /\ Capacity \in Nat \ {0}

VARIABLES tokens,     (* number of tokens buffered in the channel          *)
          waiting,    (* users parked in the send of Acquire, first first  *)
          closed,     (* s.closed                                          *)
          pc,         (* next step of each user                            *)
          ctxDone,    (* the context of a user's Acquire is done           *)
          stranded    (* history: Releases that left their token behind    *)

chanVars == <<tokens, waiting>>
vars == <<chanVars, closed, pc, ctxDone, stranded>>

Init ==
  /\ tokens = 0
  /\ waiting = <<>>
  /\ closed = FALSE
  /\ pc = [u \in Users |-> "idle"]
  /\ ctxDone = [u \in Users |-> FALSE]
  /\ stranded = 0

Holders == {u \in Users : pc[u] \in {"work", "release", "receive"}}

GoTo(u, step) == pc' = [pc EXCEPT ![u] = step]

-----------------------------------------------------------------------------
(* Acquire, as called by With.                                             *)

AcquireCall(u) ==
  /\ pc[u] = "idle"
  /\ GoTo(u, "check")
  /\ ctxDone' = [ctxDone EXCEPT ![u] = FALSE]
  /\ UNCHANGED <<chanVars, closed, stranded>>

AcquireCheck(u) ==
  /\ pc[u] = "check"
  /\ GoTo(u, IF closed THEN "idle" ELSE "select")
  /\ UNCHANGED <<chanVars, closed, ctxDone, stranded>>

AcquireToken(u) ==
  /\ pc[u] = "select"
  /\ tokens < Capacity
  /\ tokens' = tokens + 1
  /\ GoTo(u, "work")
  /\ UNCHANGED <<waiting, closed, ctxDone, stranded>>

ReleaseAnyway(u) ==   \* mutant: With defers Release before it looks at err
  /\ pc[u] = "select"
  /\ ctxDone[u]
  /\ GoTo(u, "release")
  /\ UNCHANGED <<chanVars, closed, ctxDone, stranded>>

AcquireGiveUp(u) ==
  /\ pc[u] = "select"
  /\ ctxDone[u]
  /\ GoTo(u, "idle")
  /\ UNCHANGED <<chanVars, closed, ctxDone, stranded>>

ParkBlindly(u) ==   \* mutant: waits without having tried to send
  /\ pc[u] = "select"
  /\ ~ctxDone[u]
  /\ waiting' = Append(waiting, u)
  /\ GoTo(u, "parked")
  /\ UNCHANGED <<tokens, closed, ctxDone, stranded>>

AcquirePark(u) ==
  /\ pc[u] = "select"
  /\ tokens = Capacity
  /\ ~ctxDone[u]
  /\ waiting' = Append(waiting, u)
  /\ GoTo(u, "parked")
  /\ UNCHANGED <<tokens, closed, ctxDone, stranded>>

\* The context of an Acquire is done before it waits.
CtxExpire(u) ==
  /\ pc[u] \in {"check", "select"}
  /\ ~ctxDone[u]
  /\ ctxDone' = [ctxDone EXCEPT ![u] = TRUE]
  /\ UNCHANGED <<chanVars, closed, pc, stranded>>

ExpireStaysQueued(u) ==   \* mutant: a waiter that gave up is not taken off the queue
  /\ pc[u] = "parked"
  /\ ctxDone' = [ctxDone EXCEPT ![u] = TRUE]
  /\ GoTo(u, "idle")
  /\ UNCHANGED <<chanVars, closed, stranded>>

\* The context of a parked user is done: it leaves the queue and returns.
ParkedExpire(u) ==
  /\ pc[u] = "parked"
  /\ \E i \in DOMAIN waiting : waiting[i] = u /\ waiting' = RemoveAt(waiting, i)
  /\ ctxDone' = [ctxDone EXCEPT ![u] = TRUE]
  /\ GoTo(u, "idle")
  /\ UNCHANGED <<tokens, closed, stranded>>

-----------------------------------------------------------------------------
(* TryAcquire; the refusals, when closed or full, leave everything alone.  *)

TryAcquire(u) ==
  /\ pc[u] = "idle"
  /\ ~closed
  /\ tokens < Capacity
  /\ tokens' = tokens + 1
  /\ GoTo(u, "work")
  /\ UNCHANGED <<waiting, closed, ctxDone, stranded>>

-----------------------------------------------------------------------------
(* The work done with a token, which With shields from panics, and Release.*)

WorkReturn(u) ==
  /\ pc[u] = "work"
  /\ GoTo(u, "release")
  /\ UNCHANGED <<chanVars, closed, ctxDone, stranded>>

ReleaseCheck(u) ==
  /\ pc[u] = "release"
  /\ IF closed
       THEN stranded' = stranded + 1 /\ GoTo(u, "idle")
       ELSE UNCHANGED stranded /\ GoTo(u, "receive")
  /\ UNCHANGED <<chanVars, closed, ctxDone>>

\* A receive from a full channel with a parked sender takes the sender's token in:
\* the number of tokens stays and the first waiter goes on.
ReleaseToWaiter(u) ==
  /\ pc[u] = "receive"
  /\ waiting # <<>>
  /\ waiting' = Tail(waiting)
  /\ pc' = [pc EXCEPT ![u] = "idle", ![Head(waiting)] = "work"]
  /\ UNCHANGED <<tokens, closed, ctxDone, stranded>>

ReleaseDropped(u) ==   \* mutant: Release that puts its token back instead of taking it
  /\ pc[u] = "receive"
  /\ waiting = <<>>
  /\ tokens > 0
  /\ GoTo(u, "idle")
  /\ UNCHANGED <<chanVars, closed, ctxDone, stranded>>

ReleaseToken(u) ==
  /\ pc[u] = "receive"
  /\ waiting = <<>>
  /\ tokens > 0
  /\ tokens' = tokens - 1
  /\ GoTo(u, "idle")
  /\ UNCHANGED <<waiting, closed, ctxDone, stranded>>

Close ==
  /\ ~closed
  /\ closed' = TRUE
  /\ UNCHANGED <<chanVars, pc, ctxDone, stranded>>

-----------------------------------------------------------------------------
AcquireStep(u) == AcquireCheck(u) \/ AcquireToken(u) \/ AcquireGiveUp(u) \/ AcquirePark(u)
ReleaseStep(u) == ReleaseCheck(u) \/ ReleaseToWaiter(u) \/ ReleaseToken(u)

Next ==
  \/ \E u \in Users : \/ AcquireCall(u)
                      \/ TryAcquire(u)
                      \/ AcquireStep(u)
                      \/ CtxExpire(u)
                      \/ ParkedExpire(u)
                      \/ WorkReturn(u)
                      \/ ReleaseStep(u)
  \/ Close

Spec == Init /\ [][Next]_vars

\* Goroutines keep running and the work done with a token ends.  Nobody has to call
\* Acquire or Close, and a context need never be done.
Fairness ==
  \A u \in Users : WF_vars(AcquireStep(u)) /\ WF_vars(WorkReturn(u)) /\ WF_vars(ReleaseStep(u))

FairSpec == Spec /\ Fairness

-----------------------------------------------------------------------------
(* Properties.                                                             *)

\* The variables keep their types, and the channel never holds more than its capacity.
TypeOK ==
  /\ tokens \in 0 .. Capacity
  /\ waiting \in Seq(Users)
  /\ closed \in BOOLEAN
  /\ pc \in [Users -> {"idle", "check", "select", "parked", "work", "release", "receive"}]
  /\ ctxDone \in [Users -> BOOLEAN]
  /\ stranded \in Nat

\* At most Capacity users are between a successful Acquire or TryAcquire and the end
\* of their Release, whatever gives up, panics or closes in between.
CapacityRespected == Cardinality(Holders) <= Capacity

\* The tokens in the channel are those of the holders and those that a Release after
\* Close left behind; none is lost or returned twice.
TokensExact == tokens = Cardinality(Holders) + stranded

\* The queue of parked users is exact, without repetition, and there is one only
\* while every token is taken: no wake-up is lost.
WaitersExact ==
  /\ TypeOK
  /\ \A u \in Users : pc[u] = "parked" <=> u \in ToSet(waiting)
  /\ IsInjective(waiting)
  /\ waiting # <<>> => tokens = Capacity

\* Unless Close comes first, a user blocked in Acquire gets a token or gives up, however
\* often the others come back: released tokens go to the waiters in their order.
AcquireReturns == \A u \in Users : pc[u] = "parked" ~> pc[u] # "parked" \/ closed

\* "Acquire blocks until a token is available, context is done, or semaphore is
\* closed" (semaphore.go:47): a user blocked in Acquire when Close is called returns.
AcquireEndsOnClose == \A u \in Users : closed /\ pc[u] = "parked" ~> pc[u] # "parked"
=============================================================================
