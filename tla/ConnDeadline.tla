---------------------------- MODULE ConnDeadline ----------------------------
(***************************************************************************)
(* orchestration/contextio/contextio_net.go: a client that ties its reads  *)
(* and writes to contexts through the deadlines of the connection, and the *)
(* echo server.  readContext and writeContext differ in the direction      *)
(* only.  The client makes any sequence of calls; a context is used for    *)
(* one or more of them, as the first one is by the example.                *)
(*                                                                         *)
(* A context either has a deadline of its own, which may pass at any time, *)
(* or can only be cancelled.  Lines are counted; the connection holds Room *)
(* of them in each direction.                                              *)
(***************************************************************************)
EXTENDS Naturals

CONSTANTS MaxCtx,   \* bound: contexts that the client makes
          MaxOps,   \* bound: its calls
          Room      \* lines that fit into the buffers of one direction

ConnAssumption == MaxCtx \in Nat

Contexts == 1..MaxCtx
Directions == {"read", "write"}
None == 0             \* no deadline; that of context c is c
Past == MaxCtx + 1    \* SetReadDeadline(time.Now())

VARIABLES example,    (* the name of what main runs                        *)
          timed,      (* the contexts that have a deadline                 *)
          cancelled,  (* contexts that have been cancelled                 *)
          expired,    (* contexts whose deadline has passed                *)
          deadline,   (* the deadline of each direction of the connection  *)
          watchers,   (* goroutines waiting for each context, by direction *)
          client,     (* next step of the client                           *)
          dir, ctx,   (* the call that the client is in                    *)
          ops,        (* how many calls it has made                        *)
          timedOut,   (* the last call returned a timeout                  *)
          used,       (* history: contexts given to calls, by direction    *)
          line,       (* lines on their way in each direction              *)
          server      (* next step of serveEcho                            *)

contextVars == <<example, timed, cancelled, expired>>
callVars == <<dir, ctx, ops, timedOut, used>>
peerVars == <<line, server>>
vars == <<contextVars, deadline, watchers, client, callVars, peerVars>>

Running == example = "contextio_net"

Init ==
  /\ timed \in IF Running THEN SUBSET Contexts ELSE {{}}
  /\ cancelled = {}
  /\ expired = {}
  /\ deadline = [d \in Directions |-> None]
  /\ watchers = [c \in Contexts |-> [d \in Directions |-> 0]]
  /\ client = "idle"
  /\ dir = "write"
  /\ ctx = 1
  /\ ops = 0
  /\ timedOut = FALSE
  /\ used = [d \in Directions |-> {}]
  /\ line = [d \in Directions |-> 0]
  /\ server = "accept"

Done(c) == c \in cancelled \cup expired

-----------------------------------------------------------------------------
(* The client.                                                             *)

ClearNothing(d, c) ==   \* mutant: a previous deadline is not cleared
  /\ Running
  /\ client = "idle" /\ ops < MaxOps
  /\ c \in ctx..MaxCtx
  /\ dir' = d /\ ctx' = c /\ ops' = ops + 1 /\ timedOut' = FALSE
  /\ used' = [used EXCEPT ![d] = @ \cup {c}]
  /\ client' = "tie"
  /\ UNCHANGED <<contextVars, deadline, watchers, peerVars>>

Clear(d, c) ==   \* the call, and SetReadDeadline(time.Time{})
  /\ Running
  /\ client = "idle" /\ ops < MaxOps
  /\ c \in ctx..MaxCtx
  /\ dir' = d /\ ctx' = c /\ ops' = ops + 1 /\ timedOut' = FALSE
  /\ used' = [used EXCEPT ![d] = @ \cup {c}]
  /\ deadline' = [deadline EXCEPT ![d] = None]
  /\ client' = "tie"
  /\ UNCHANGED <<contextVars, watchers, peerVars>>

Tie ==   \* if dl, ok := ctx.Deadline(); ok
  /\ client = "tie"
  /\ IF ctx \in timed
       THEN /\ deadline' = [deadline EXCEPT ![dir] = ctx]
            /\ UNCHANGED watchers
       ELSE /\ watchers' = [watchers EXCEPT ![ctx][dir] = @ + 1]
            /\ UNCHANGED deadline
  /\ client' = "call"
  /\ UNCHANGED <<contextVars, callVars, peerVars>>

Return(late) ==
  /\ client' = "idle"
  /\ timedOut' = late
  /\ UNCHANGED <<contextVars, deadline, watchers, dir, ctx, ops, used>>

Due(d) == deadline[d] \in expired \cup {Past}

Transfer ==   \* c.Read or c.Write succeeds
  /\ client = "call"
  /\ ~Due(dir)
  /\ IF dir = "write" THEN line["write"] < Room ELSE line["read"] > 0
  /\ line' = [line EXCEPT ![dir] = IF dir = "write" THEN @ + 1 ELSE 0]
  /\ Return(FALSE)
  /\ UNCHANGED server

TimeOut ==
  /\ client = "call"
  /\ Due(dir)
  /\ Return(TRUE)
  /\ UNCHANGED peerVars

Close ==   \* the deferred Close calls: the connection, then the listener
  /\ Running
  /\ client = "idle"
  /\ client' = "closed"
  /\ UNCHANGED <<contextVars, deadline, watchers, callVars, peerVars>>

-----------------------------------------------------------------------------
(* Contexts.                                                               *)

\* Also one that the client has not yet used.
Cancel(c) ==
  /\ Running
  /\ ~Done(c)
  /\ cancelled' = cancelled \cup {c}
  /\ UNCHANGED <<example, timed, expired, deadline, watchers, client, callVars, peerVars>>

\* A deadline that was given to the connection counts for it also when the context has
\* been cancelled before.
Expire(c) ==
  /\ c \in timed \ expired
  /\ expired' = expired \cup {c}
  /\ UNCHANGED <<example, timed, cancelled, deadline, watchers, client, callVars, peerVars>>

WatchAgain(c, d) ==   \* mutant: the goroutine is a loop
  /\ Done(c)
  /\ watchers[c][d] > 0
  /\ deadline' = [deadline EXCEPT ![d] = Past]
  /\ UNCHANGED <<contextVars, watchers, client, callVars, peerVars>>

Watch(c, d) ==   \* the goroutine that waits for ctx.Done()
  /\ Done(c)
  /\ watchers[c][d] > 0
  /\ watchers' = [watchers EXCEPT ![c][d] = @ - 1]
  /\ deadline' = [deadline EXCEPT ![d] = Past]
  /\ UNCHANGED <<contextVars, client, callVars, peerVars>>

-----------------------------------------------------------------------------
(* serveEcho.                                                              *)

Accept ==   \* the error if the listener was closed before
  /\ Running
  /\ server = "accept"
  /\ server' = IF client = "closed" THEN "exited" ELSE "read"
  /\ UNCHANGED <<contextVars, deadline, watchers, client, callVars, line>>

ReadString ==
  /\ server = "read"
  /\ line["write"] > 0
  /\ line' = [line EXCEPT !["write"] = @ - 1]
  /\ server' = "write"
  /\ UNCHANGED <<contextVars, deadline, watchers, client, callVars>>

Echo ==
  /\ server = "write"
  /\ line["read"] < Room
  /\ line' = [line EXCEPT !["read"] = @ + 1]
  /\ server' = "read"
  /\ UNCHANGED <<contextVars, deadline, watchers, client, callVars>>

Hangup ==   \* ReadString or Write returns an error
  /\ client = "closed"
  /\ server = "write" \/ (server = "read" /\ line["write"] = 0)
  /\ server' = "exited"
  /\ UNCHANGED <<contextVars, deadline, watchers, client, callVars, line>>

-----------------------------------------------------------------------------
ClientStep == Tie \/ Transfer \/ TimeOut
ServerStep == Accept \/ ReadString \/ Echo \/ Hangup

Next ==
  \/ \E c \in Contexts, d \in Directions : Clear(d, c) \/ Watch(c, d)
  \/ \E c \in Contexts : Cancel(c) \/ Expire(c)
  \/ ClientStep \/ Close \/ ServerStep
  \/ client = "closed" /\ server = "exited" /\ UNCHANGED vars

\* Goroutines keep running and deadlines pass.  Nobody has to cancel a context.
Fairness ==
  /\ WF_vars(ClientStep)
  /\ WF_vars(ServerStep)
  /\ \A c \in Contexts : WF_vars(Expire(c))
  /\ \A c \in Contexts, d \in Directions : WF_vars(Watch(c, d))

\* The example alone.
Spec ==
  /\ example = "contextio_net"
  /\ Init
  /\ [][Next]_vars

-----------------------------------------------------------------------------
(* Properties.                                                             *)

\* An operation that times out has its own context to thank, or one of an earlier call
\* of the same direction that had no deadline: the goroutine that waits for it outlives
\* its call.  The deadline of an earlier context never does it, nor the other direction.
TimeoutCulprit ==
  timedOut => \E c \in used[dir] : Done(c) /\ (c = ctx \/ c \notin timed)

\* "readContext ties the connection's read deadline to ctx", and writeContext does so for
\* writes: a call that times out has a context that is done.
TimeoutsOwn == timedOut => Done(ctx)

\* No operation hangs once its context is done, whatever the peer does, and a deadline of
\* its own bounds it in any case.  The goroutine behind a context ends with it, and the
\* server with the connection.
OperationsReturn ==
  /\ \A c \in Contexts :
       /\ client = "call" /\ ctx = c /\ (c \in timed \/ Done(c)) ~> client = "idle" \/ ctx # c
       /\ Done(c) ~> \A d \in Directions : watchers[c][d] = 0
  /\ client = "closed" ~> server = "exited"
=============================================================================
