---------------------------- MODULE RequestPool ----------------------------
(****************************************************************************)
(* How requests share the server's threads and its database connections.    *)
(* FastAPI runs every synchronous dependency and handler as a call of its   *)
(* own in a thread pool, first come, first served: get_db opens a Session   *)
(* (app/db.py), resolve_tenant runs the first SELECT (app/core/tenancy.py), *)
(* then comes the handler.  The Session checks a connection out with its    *)
(* first statement and keeps it, between the calls too, until it commits or *)
(* is closed; a checkout that finds the pool exhausted waits 30 seconds and *)
(* then raises.  The Session is closed outside of the thread limit.         *)
(*                                                                          *)
(* So a request may hold a connection while it queues for a thread, and     *)
(* hold a thread while it waits for a connection.                           *)
(****************************************************************************)
EXTENDS Integers, Sequences, FiniteSets

CONSTANTS Request,      \* clients, each with one request at a time
          Recommits,    \* those whose handler goes on after a COMMIT
          Threads,      \* AnyIO's limit: 40
          Connections   \* SQLAlchemy's pool_size plus max_overflow: 15

ASSUME PoolAssumption ==
    /\ IsFiniteSet(Request)
    /\ Recommits \subseteq Request
    /\ Threads \in Nat \ {0}
    /\ Connections \in Nat \ {0}

VARIABLES pc,       \* the call each request is at
          queue,    \* the requests that wait for a thread
          running,  \* the requests whose call has a thread
          held      \* the requests whose Session has a connection

vars == <<pc, queue, running, held>>

Init ==
    /\ pc = [r \in Request |-> "idle"]
    /\ queue = <<>>
    /\ running = {}
    /\ held = {}

InFlight == {r \in Request : pc[r] # "idle"}

Exhausted == Cardinality(held) >= Connections

\* Faulty variant: last come, first served.
PushedFront(r) == <<r>> \o queue

Queued(r) == Append(queue, r)

\* The call of r ends; the next one queues for a thread.
Call(r, next) ==
    /\ pc' = [pc EXCEPT ![r] = next]
    /\ running' = running \ {r}
    /\ queue' = Queued(r)

\* The call of r ends, and the request with it, but for closing the Session.
End(r) ==
    /\ pc' = [pc EXCEPT ![r] = "close"]
    /\ running' = running \ {r}
    /\ UNCHANGED queue

Arrive(r) ==
    /\ pc[r] = "idle"
    /\ pc' = [pc EXCEPT ![r] = "open"]
    /\ queue' = Queued(r)
    /\ UNCHANGED <<running, held>>

\* Faulty variant: one thread too many.
StartOneMore ==
    /\ queue # <<>>
    /\ Cardinality(running) <= Threads
    /\ running' = running \union {Head(queue)}
    /\ queue' = Tail(queue)
    /\ UNCHANGED <<pc, held>>

Start ==
    /\ queue # <<>>
    /\ Cardinality(running) < Threads
    /\ running' = running \union {Head(queue)}
    /\ queue' = Tail(queue)
    /\ UNCHANGED <<pc, held>>

\* get_db, up to its yield: no statement, so no connection yet.
OpenSession(r) ==
    /\ r \in running /\ pc[r] = "open"
    /\ Call(r, "tenant")
    /\ UNCHANGED held

NeedsConnection(r) ==
    r \in running /\ pc[r] \in {"tenant", "reread"} /\ r \notin held

CheckOut(r) ==
    /\ NeedsConnection(r)
    /\ ~Exhausted
    /\ held' = held \union {r}
    /\ UNCHANGED <<pc, queue, running>>

TimeOut(r) ==
    /\ NeedsConnection(r)
    /\ Exhausted
    /\ End(r)
    /\ UNCHANGED held

\* An unknown tenant is a 404, and a statement may fail.
ResolveTenant(r) ==
    /\ r \in running \intersect held /\ pc[r] = "tenant"
    /\ Call(r, "handler") \/ End(r)
    /\ UNCHANGED held

\* A handler commits at its end, or not at all, or, device-action and apply,
\* in the middle: then the rest of it checks a connection out anew.
Handle(r) ==
    /\ r \in running \intersect held /\ pc[r] = "handler"
    /\ \/ End(r) /\ UNCHANGED held
       \/ End(r) /\ held' = held \ {r}
       \/ /\ r \in Recommits
          /\ pc' = [pc EXCEPT ![r] = "reread"]
          /\ held' = held \ {r}
          /\ UNCHANGED <<queue, running>>

Reread(r) ==
    /\ r \in running \intersect held /\ pc[r] = "reread"
    /\ End(r)
    /\ UNCHANGED held

\* Faulty variant: the Session is dropped, not closed.
CloseForgotten(r) ==
    /\ pc[r] = "close"
    /\ pc' = [pc EXCEPT ![r] = "idle"]
    /\ UNCHANGED <<queue, running, held>>

\* get_db, after its yield, whatever the handler has raised.
CloseSession(r) ==
    /\ pc[r] = "close"
    /\ pc' = [pc EXCEPT ![r] = "idle"]
    /\ held' = held \ {r}
    /\ UNCHANGED <<queue, running>>

Serve(r) == \/ OpenSession(r) \/ CheckOut(r) \/ TimeOut(r) \/ ResolveTenant(r)
            \/ Handle(r) \/ Reread(r) \/ CloseSession(r)

Next == Start \/ \E r \in Request : Arrive(r) \/ Serve(r)

Spec == Init /\ [][Next]_vars

\* Threads run, free threads take the next call, and a wait for a connection
\* ends one way or the other.  Clients need not come back.
FairSpec ==
    /\ Spec
    /\ WF_vars(Start)
    /\ \A r \in Request : WF_vars(Serve(r))

----------------------------------------------------------------------------
(* Properties *)

Places == {"idle", "open", "tenant", "handler", "reread", "close"}

Queue == {queue[i] : i \in DOMAIN queue}

\* Types, limits, and: a request is in the queue or in a thread or neither,
\* never twice, and holds a connection only once it has been to resolve_tenant.
TypeOK ==
    /\ pc \in [Request -> Places]
    /\ queue \in Seq(Request)
    /\ running \subseteq Request /\ Cardinality(running) <= Threads
    /\ held \subseteq Request /\ Cardinality(held) <= Connections
    /\ \A i, j \in DOMAIN queue : queue[i] = queue[j] => i = j
    /\ \A r \in Request :
           /\ r \in Queue => r \notin running /\ pc[r] \in {"open", "tenant", "handler"}
           /\ r \in running => pc[r] \in {"open", "tenant", "handler", "reread"}
           /\ pc[r] \in {"open", "tenant", "handler", "reread"} => r \in Queue \union running
           /\ r \in held => pc[r] \notin {"idle", "open"}
           /\ pc[r] = "handler" => r \in held

\* As long as there are no more requests than connections nobody waits for
\* one: no request, served or failed, leaves a connection checked out
\* (get_db closes the Session in finally).
NobodyWaitsUnlessCrowded ==
    (\E r \in Request : NeedsConnection(r)) /\ Exhausted =>
        Cardinality(InFlight) > Connections

\* Every request is answered, also when every thread waits for a connection
\* and every connection is held by a request that queues for a thread.
RequestsAnswered == \A r \in Request : pc[r] # "idle" ~> pc[r] = "idle"
=============================================================================
