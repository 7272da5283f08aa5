------------------------- MODULE RequestPoolProofs -------------------------
(****************************************************************************)
(* RequestPool for any number of requests, threads and connections.         *)
(****************************************************************************)
EXTENDS RequestPool, FiniteSetTheorems, TLAPS

Elements(q) == {q[i] : i \in DOMAIN q}
OnceEach(q) == \A i, j \in DOMAIN q : q[i] = q[j] => i = j

\* Joining the queue adds the request, which is in it once if it was not before.
LEMMA Joining ==
    ASSUME NEW S, NEW q \in Seq(S), NEW r \in S
    PROVE  /\ Append(q, r) \in Seq(S)
           /\ Elements(Append(q, r)) = Elements(q) \union {r}
           /\ OnceEach(q) /\ r \notin Elements(q) => OnceEach(Append(q, r))
<1> DEFINE a == Append(q, r)
<1>1. /\ a \in Seq(S)
      /\ Len(q) \in Nat
      /\ DOMAIN q = 1..Len(q) /\ DOMAIN a = 1..(Len(q) + 1)
      /\ \A i \in 1..Len(q) : a[i] = q[i]
      /\ a[Len(q) + 1] = r
  OBVIOUS
<1>2. Elements(a) = Elements(q) \union {r}
  <2>1. \A i \in DOMAIN a : a[i] \in Elements(q) \union {r}
    BY <1>1, SMT DEF Elements
  <2>2. \A i \in DOMAIN q : q[i] \in Elements(a)
    BY <1>1, SMT DEF Elements
  <2>3. r \in Elements(a)
    BY <1>1, SMT DEF Elements
  <2>. QED
    BY <2>1, <2>2, <2>3 DEF Elements
<1>3. ASSUME OnceEach(q), r \notin Elements(q)
      PROVE  OnceEach(a)
  BY <1>1, <1>3, SMT DEF OnceEach, Elements
<1>. QED
  BY <1>1, <1>2, <1>3

\* Leaving it takes the first request away, and nobody else.
LEMMA Leaving ==
    ASSUME NEW S, NEW q \in Seq(S), q # <<>>
    PROVE  /\ Head(q) \in S
           /\ Tail(q) \in Seq(S)
           /\ Elements(q) = Elements(Tail(q)) \union {Head(q)}
           /\ OnceEach(q) => OnceEach(Tail(q)) /\ Head(q) \notin Elements(Tail(q))
<1> DEFINE t == Tail(q)
<1>1. /\ t \in Seq(S)
      /\ Len(q) \in Nat \ {0}
      /\ DOMAIN q = 1..Len(q) /\ DOMAIN t = 1..(Len(q) - 1)
      /\ \A i \in 1..(Len(q) - 1) : t[i] = q[i + 1]
      /\ Head(q) = q[1] /\ Head(q) \in S
  OBVIOUS
<1>2. Elements(q) = Elements(t) \union {Head(q)}
  <2>1. \A i \in DOMAIN q : q[i] \in Elements(t) \union {Head(q)}
    <3>1. SUFFICES ASSUME NEW i \in DOMAIN q, i # 1
                   PROVE  q[i] \in Elements(t)
      BY <1>1
    <3>2. i - 1 \in DOMAIN t /\ t[i - 1] = q[i]
      BY <1>1, <3>1, SMT
    <3>. QED
      BY <3>2 DEF Elements
  <2>2. \A i \in DOMAIN t : t[i] \in Elements(q)
    BY <1>1, SMT DEF Elements
  <2>3. Head(q) \in Elements(q)
    BY <1>1, SMT DEF Elements
  <2>. QED
    BY <2>1, <2>2, <2>3 DEF Elements
<1>3. ASSUME OnceEach(q)
      PROVE  OnceEach(t) /\ Head(q) \notin Elements(t)
  BY <1>1, <1>3, SMT DEF OnceEach, Elements
<1>. QED
  BY <1>1, <1>2, <1>3

\* A finite set grows by one with a new member, and does not grow with fewer.
LEMMA Counting ==
    ASSUME NEW T \in SUBSET Request, NEW r \in Request
    PROVE  /\ Cardinality(T) \in Nat
           /\ Cardinality(T \union {r}) <= Cardinality(T) + 1
           /\ Cardinality(T \ {r}) <= Cardinality(T)
<1>1. IsFiniteSet(T)
  BY PoolAssumption, FS_Subset
<1>2. Cardinality(T) \in Nat
  BY <1>1, FS_CardinalityType
<1>3. Cardinality(T \union {r}) <= Cardinality(T) + 1
  <2>1. CASE r \in T
    <3>1. T \union {r} = T
      BY <2>1
    <3>. QED
      BY <1>2, <3>1
  <2>2. CASE r \notin T
    <3>1. Cardinality(T \union {r}) = Cardinality(T) + 1
      BY <1>1, <2>2, FS_AddElement, Zenon
    <3>. QED
      BY <1>2, <3>1
  <2>. QED
    BY <2>1, <2>2
<1>4. Cardinality(T \ {r}) <= Cardinality(T)
  BY <1>1, <1>2, FS_RemoveElement
<1>. QED
  BY <1>2, <1>3, <1>4

\* The types hold at the start.
LEMMA InitType == Init => TypeOK
<1>. SUFFICES ASSUME Init
              PROVE  TypeOK
  OBVIOUS
<1>1. Cardinality({}) = 0
  BY FS_EmptySet
<1>2. queue = <<>> /\ DOMAIN queue = {} /\ Queue = {}
  BY DEF Init, Queue
<1>. QED
  BY <1>1, <1>2, PoolAssumption DEF Init, TypeOK, Places

Calls == {"open", "tenant", "handler"}

\* They hold after a call that queues the next one.
LEMMA CallType ==
    ASSUME TypeOK, NEW r \in Request, r \in running, NEW next \in {"tenant", "handler"},
           next = "handler" => r \in held, Call(r, next),
           pc[r] \in Calls, UNCHANGED held
    PROVE  TypeOK'
<1>1. /\ queue \in Seq(Request) /\ OnceEach(queue) /\ Queue = Elements(queue)
      /\ r \notin Queue
  BY DEF TypeOK, OnceEach, Elements, Queue
<1>2. /\ queue' \in Seq(Request) /\ OnceEach(queue')
      /\ Elements(queue') = Queue \union {r}
  BY <1>1, Joining DEF Call, Queued
<1>3. /\ Queue' = Queue \union {r}
      /\ \A i, j \in DOMAIN queue' : queue'[i] = queue'[j] => i = j
  BY <1>2 DEF Elements, OnceEach, Queue
<1>4. /\ Cardinality(running') <= Threads
      /\ Cardinality(held') <= Connections
  <2>1. /\ Cardinality(running \ {r}) <= Cardinality(running)
        /\ Cardinality(running) \in Nat /\ Cardinality(running \ {r}) \in Nat
    BY Counting DEF TypeOK
  <2>. QED
    BY <2>1, PoolAssumption DEF TypeOK, Call
<1>. QED
  BY <1>1, <1>2, <1>3, <1>4 DEF TypeOK, Call, Places, Calls

\* They hold after the last call of a request.
LEMMA EndType ==
    ASSUME TypeOK, NEW r \in Request, r \in running,
           End(r), held' = held \/ held' = held \ {r}, pc[r] # "open"
    PROVE  TypeOK'
<1>1. UNCHANGED queue /\ Queue' = Queue
  BY DEF End, Queue
<1>2. /\ Cardinality(running') <= Threads
      /\ Cardinality(held') <= Connections
  <2>1. /\ Cardinality(running \ {r}) <= Cardinality(running)
        /\ Cardinality(running) \in Nat /\ Cardinality(running \ {r}) \in Nat
    BY Counting DEF TypeOK
  <2>2. /\ Cardinality(held \ {r}) <= Cardinality(held)
        /\ Cardinality(held) \in Nat /\ Cardinality(held \ {r}) \in Nat
    BY Counting DEF TypeOK
  <2>3. Cardinality(running') <= Threads
    BY <2>1, PoolAssumption DEF TypeOK, End
  <2>4. Cardinality(held') <= Connections
    <3>1. CASE held' = held
      BY <3>1 DEF TypeOK
    <3>2. CASE held' = held \ {r}
      BY <3>2, <2>2, PoolAssumption DEF TypeOK
    <3>. QED
      BY <3>1, <3>2
  <2>. QED
    BY <2>3, <2>4
<1>. QED
  BY <1>1, <1>2 DEF TypeOK, End, Places

\* Every step keeps the types and the limits.
LEMMA StepType == TypeOK /\ [Next]_vars => TypeOK'
<1>. SUFFICES ASSUME TypeOK, [Next]_vars
              PROVE  TypeOK'
  OBVIOUS
<1>1. ASSUME NEW r \in Request, Arrive(r)
      PROVE  TypeOK'
  <2>1. /\ queue \in Seq(Request) /\ OnceEach(queue) /\ Queue = Elements(queue)
        /\ r \notin Queue /\ r \notin running
    BY <1>1 DEF TypeOK, OnceEach, Elements, Queue, Arrive
  <2>2. /\ queue' \in Seq(Request) /\ OnceEach(queue')
        /\ Elements(queue') = Queue \union {r}
    BY <1>1, <2>1, Joining DEF Arrive, Queued
  <2>3. /\ Queue' = Queue \union {r}
        /\ \A i, j \in DOMAIN queue' : queue'[i] = queue'[j] => i = j
    BY <2>2 DEF Elements, OnceEach, Queue
  <2>. QED
    BY <1>1, <2>1, <2>2, <2>3 DEF TypeOK, Arrive, Places
<1>2. ASSUME Start
      PROVE  TypeOK'
  <2>1. /\ queue \in Seq(Request) /\ OnceEach(queue) /\ Queue = Elements(queue)
        /\ queue # <<>>
    BY <1>2 DEF TypeOK, OnceEach, Elements, Queue, Start
  <2>2. /\ Head(queue) \in Request
        /\ queue' \in Seq(Request) /\ OnceEach(queue')
        /\ Queue = Elements(queue') \union {Head(queue)}
        /\ Head(queue) \notin Elements(queue')
    BY <1>2, <2>1, Leaving DEF Start
  <2>3. /\ Queue' = Queue \ {Head(queue)} /\ Head(queue) \in Queue
        /\ \A i, j \in DOMAIN queue' : queue'[i] = queue'[j] => i = j
    BY <2>2 DEF Elements, OnceEach, Queue
  <2>4. Cardinality(running') <= Threads
    <3>1. /\ Cardinality(running) \in Nat
          /\ Cardinality(running \union {Head(queue)}) <= Cardinality(running) + 1
          /\ Cardinality(running) < Threads
      BY <1>2, <2>2, Counting DEF TypeOK, Start
    <3>2. running' \subseteq Request /\ Cardinality(running') \in Nat
      <4>1. running' \subseteq Request
        BY <1>2, <2>2 DEF TypeOK, Start
      <4>. QED
        BY <2>2, <4>1, Counting
    <3>. QED
      BY <1>2, <3>1, <3>2, PoolAssumption DEF Start
  <2>. QED
    BY <1>2, <2>2, <2>3, <2>4 DEF TypeOK, Start, Places
<1>3. ASSUME NEW r \in Request, OpenSession(r)
      PROVE  TypeOK'
  BY <1>3, CallType DEF OpenSession, Calls
<1>4. ASSUME NEW r \in Request, CheckOut(r)
      PROVE  TypeOK'
  <2>1. Cardinality(held') <= Connections
    <3>1. /\ Cardinality(held) \in Nat
          /\ Cardinality(held \union {r}) <= Cardinality(held) + 1
          /\ ~(Cardinality(held) >= Connections)
      BY <1>4, Counting DEF TypeOK, CheckOut, Exhausted
    <3>2. held' \subseteq Request /\ Cardinality(held') \in Nat
      <4>1. held' \subseteq Request
        BY <1>4 DEF TypeOK, CheckOut
      <4>. QED
        BY <4>1, Counting
    <3>. QED
      BY <1>4, <3>1, <3>2, PoolAssumption DEF CheckOut
  <2>2. Queue' = Queue
    BY <1>4 DEF CheckOut, Queue
  <2>. QED
    BY <1>4, <2>1, <2>2 DEF TypeOK, CheckOut, NeedsConnection, Places
<1>5. ASSUME NEW r \in Request, TimeOut(r)
      PROVE  TypeOK'
  BY <1>5, EndType DEF TimeOut, NeedsConnection
<1>6. ASSUME NEW r \in Request, ResolveTenant(r)
      PROVE  TypeOK'
  BY <1>6, EndType, CallType DEF ResolveTenant, Calls
<1>7. ASSUME NEW r \in Request, Handle(r)
      PROVE  TypeOK'
  <2>1. CASE End(r)
    BY <1>7, <2>1, EndType DEF Handle
  <2>2. CASE ~End(r)
    <3>1. /\ pc' = [pc EXCEPT ![r] = "reread"] /\ held' = held \ {r}
          /\ UNCHANGED <<queue, running>> /\ r \in running /\ pc[r] = "handler"
      BY <1>7, <2>2 DEF Handle
    <3>2. Cardinality(held') <= Connections
      <4>1. /\ Cardinality(held \ {r}) <= Cardinality(held)
            /\ Cardinality(held) \in Nat /\ Cardinality(held \ {r}) \in Nat
        BY Counting DEF TypeOK
      <4>. QED
        BY <3>1, <4>1, PoolAssumption DEF TypeOK
    <3>3. Queue' = Queue
      BY <3>1 DEF Queue
    <3>. QED
      BY <3>1, <3>2, <3>3 DEF TypeOK, Places
  <2>. QED
    BY <2>1, <2>2
<1>8. ASSUME NEW r \in Request, Reread(r)
      PROVE  TypeOK'
  BY <1>8, EndType DEF Reread
<1>9. ASSUME NEW r \in Request, CloseSession(r)
      PROVE  TypeOK'
  <2>1. Cardinality(held') <= Connections
    <3>1. /\ Cardinality(held \ {r}) <= Cardinality(held)
          /\ Cardinality(held) \in Nat /\ Cardinality(held \ {r}) \in Nat
      BY Counting DEF TypeOK
    <3>. QED
      BY <1>9, <3>1, PoolAssumption DEF TypeOK, CloseSession
  <2>2. Queue' = Queue
    BY <1>9 DEF CloseSession, Queue
  <2>. QED
    BY <1>9, <2>1, <2>2 DEF TypeOK, CloseSession, Places
<1>10. CASE UNCHANGED vars
  BY <1>10 DEF vars, TypeOK, Queue
<1>. QED
  BY <1>1, <1>2, <1>3, <1>4, <1>5, <1>6, <1>7, <1>8, <1>9, <1>10 DEF Next, Serve

\* For any limits the queue, the threads and the pool are well formed: no more
\* calls than threads, no more connections than the pool has, no request twice.
THEOREM LimitsKept == Spec => []TypeOK
<1>1. Init => TypeOK
  BY InitType
<1>2. TypeOK /\ [Next]_vars => TypeOK'
  BY StepType
<1>. QED
  BY <1>1, <1>2, PTL DEF Spec

\* For any limits: whoever waits for a connection has at least as many other
\* requests before them as there are connections.
THEOREM PoolSuffices == Spec => []NobodyWaitsUnlessCrowded
<1>1. ASSUME TypeOK
      PROVE  NobodyWaitsUnlessCrowded
  <2>. SUFFICES ASSUME NEW r \in Request, NeedsConnection(r), Exhausted
                PROVE  Cardinality(InFlight) > Connections
    BY DEF NobodyWaitsUnlessCrowded
  <2>1. held \subseteq InFlight \ {r} /\ r \in InFlight
    BY <1>1 DEF TypeOK, InFlight, NeedsConnection
  <2>2. IsFiniteSet(InFlight) /\ IsFiniteSet(InFlight \ {r})
    BY PoolAssumption, FS_Subset DEF InFlight
  <2>3. Cardinality(held) <= Cardinality(InFlight \ {r})
    BY <2>1, <2>2, FS_Subset
  <2>4. Cardinality(InFlight \ {r}) = Cardinality(InFlight) - 1
    BY <2>1, <2>2, FS_RemoveElement
  <2>5. /\ Cardinality(held) \in Nat /\ Cardinality(InFlight) \in Nat
        /\ Cardinality(held) >= Connections
    BY <1>1, <2>2, FS_CardinalityType, Counting DEF TypeOK, Exhausted
  <2>. QED
    BY <2>3, <2>4, <2>5, PoolAssumption
<1>2. TypeOK => NobodyWaitsUnlessCrowded
  BY <1>1
<1>. QED
  BY <1>2, LimitsKept, PTL
=============================================================================
