----------------------------- MODULE ScenarioTx -----------------------------
(****************************************************************************)
(* One home under concurrent requests, statement by statement: reset and    *)
(* apply of the scenario engine (app/scenarios/engine.py, app/seed/         *)
(* network.py) and device-action (app/gx/routes.py).  Each worker has its   *)
(* own Session (app/db.py: no autoflush, nothing expires at commit) on      *)
(* PostgreSQL at READ COMMITTED: a SELECT sees what is committed when it    *)
(* runs and the transaction's own writes, an UPDATE waits for the lock of   *)
(* its row, and the lock is held until COMMIT.                              *)
(*                                                                          *)
(* A cell is one column of one row.  What the ORM flushes is the difference *)
(* between the values it loaded and the values it is to store, so a request *)
(* that has loaded stale values may leave a cell alone that it would have   *)
(* to write.  SelfHealing takes each request as one step; this module is    *)
(* about what happens when requests overlap.                                *)
(*                                                                          *)
(* Left out: radio rows and uptime, which no verdict reads; orders, which   *)
(* OrderStore has; the audit log, which SelfHealing has; the deletes of     *)
(* prune, which find nothing as long as the pack is the one the tenant was  *)
(* seeded from.                                                             *)
(****************************************************************************)
EXTENDS DeviceActions

CONSTANTS Worker,       \* server threads
          Operator,     \* the workers that serve admin requests
          Caller,       \* the workers that serve device-action
          Baseline,     \* the pack's topology of the home
          Scenario,     \* names of the scenario packs
          Pack,         \* each scenario: reset_first and steps
          Before,       \* a scenario that was applied earlier
          Call,         \* device-action requests: verb and target
          FlushOrder,   \* the rows in the order one flush updates them
          MaxTakes,     \* bound: admin requests
          Free          \* nobody

Row == {GatewayId} \union DOMAIN Baseline.access_points \union DOMAIN Baseline.devices

Columns(r) ==
    CASE r = GatewayId                    -> {"wan_status"}
      [] r \in DOMAIN Baseline.access_points -> {"status", "backhaul_quality"}
      [] r \in DOMAIN Baseline.devices       -> {"band", "rssi"}

CellsOf(r) == {<<r, c>> : c \in Columns(r)}
Cell == UNION {CellsOf(r) : r \in Row}

\* The cells of a topology, and the topology of a home's cells.
Cells(t) ==
    [c \in Cell |->
        CASE c[1] = GatewayId                     -> t.gateway
          [] c[1] \in DOMAIN t.access_points -> t.access_points[c[1]][c[2]]
          [] c[1] \in DOMAIN t.devices       -> t.devices[c[1]][c[2]]]

Seeded == Cells(Baseline)

Topology(h) ==
    [gateway |-> h[<<GatewayId, "wan_status">>],
     access_points |->
         [a \in DOMAIN Baseline.access_points |->
             [Baseline.access_points[a] EXCEPT
                 !.status = h[<<a, "status">>],
                 !.backhaul_quality = h[<<a, "backhaul_quality">>]]],
     devices |->
         [d \in DOMAIN Baseline.devices |->
             [Baseline.devices[d] EXCEPT !.band = h[<<d, "band">>],
                                         !.rssi = h[<<d, "rssi">>]]]]

\* What a column may hold.
ValuesOf(f) == CASE f = "wan_status"             -> WanStatuses
                 [] f = "status"                 -> ApStatuses
                 [] f = "band"                   -> Bands
                 [] f \in {"backhaul_quality", "rssi"} -> PgInteger

\* A pack's steps set columns of one row each, no row twice.
IsPack(k) ==
    /\ k.reset_first \in BOOLEAN
    /\ DOMAIN k.steps \subseteq Nat
    /\ \A i \in DOMAIN k.steps :
           /\ k.steps[i].row \in Row
           /\ DOMAIN k.steps[i].set \subseteq Columns(k.steps[i].row)
           /\ \A f \in DOMAIN k.steps[i].set : k.steps[i].set[f] \in ValuesOf(f)
           /\ \A j \in DOMAIN k.steps : k.steps[i].row = k.steps[j].row => i = j

\* Access points are flushed before the devices that refer to them; where the
\* gateway comes is up to the ORM.  Ids number the rows in pack order.
ASSUME StageAssumption ==
    /\ IsTopology(Baseline) /\ Baseline.gateway # NoGateway
    /\ Operator \subseteq Worker /\ Caller \subseteq Worker
    /\ DOMAIN Pack = Scenario /\ Before \in Scenario
    /\ \A s \in Scenario : IsPack(Pack[s])
    /\ FlushOrder \in [1..Cardinality(Row) -> Row]
    /\ \A r \in Row : \E i \in DOMAIN FlushOrder : FlushOrder[i] = r
    /\ \A i, j \in DOMAIN FlushOrder :
           /\ FlushOrder[i] \in DOMAIN Baseline.access_points
           /\ FlushOrder[j] \in DOMAIN Baseline.devices
           => i < j
    /\ \A a \in DOMAIN Baseline.access_points, d \in DOMAIN Baseline.devices : a < d
    /\ \A c \in Call : c.verb \in Verbs /\ c.target \in Int  \* others are refused unread
    /\ MaxTakes \in Nat
    /\ Free \notin Worker

VARIABLES home,         \* the committed cells
          feed,         \* the committed network.degraded events
          lock,         \* the worker holding each row's lock
          pc,           \* what each worker does next
          request,      \* the request it serves
          seen,         \* the cells its Session has loaded
          dirty,        \* the cells its Session is to flush
          written,      \* the cells its transaction has updated
          doomed,       \* the events its reset deletes
          takes,        \* admin requests so far
          since         \* history: cells others committed after it looked

vars == <<home, feed, lock, pc, request, seen, dirty, written, doomed, takes, since>>
shared == <<home, feed, lock, takes>>

None == <<>>            \* no cells
NoRequest == [kind |-> "none"]
Requests == {NoRequest}
    \union [kind : {"reset"}, nr : 1..MaxTakes]
    \union [kind : {"apply"}, scenario : Scenario, nr : 1..MaxTakes]
    \union [kind : {"action"}, verb : Verbs, target : Int]

Overlaid(h, w) == [c \in DOMAIN h |-> IF c \in DOMAIN w THEN w[c] ELSE h[c]]

Joined(f, g) == [c \in DOMAIN f \union DOMAIN g |-> IF c \in DOMAIN g THEN g[c] ELSE f[c]]

\* Faulty variant: every loaded cell is written back.
WriteBack(loaded, stored) == [c \in DOMAIN loaded |-> stored[c]]

\* The cells an ORM flush writes: those that differ from what was loaded.
NetChange(loaded, stored) ==
    [c \in {k \in DOMAIN loaded : loaded[k] # stored[k]} |-> stored[c]]

Goto(w, where) == pc' = [pc EXCEPT ![w] = where]

Finish(w) ==
    /\ Goto(w, "idle")
    /\ request' = [request EXCEPT ![w] = NoRequest]
    /\ seen' = [seen EXCEPT ![w] = None]
    /\ dirty' = [dirty EXCEPT ![w] = None]
    /\ written' = [written EXCEPT ![w] = None]
    /\ doomed' = [doomed EXCEPT ![w] = {}]
    /\ since' = [since EXCEPT ![w] = {}]

\* Faulty variant: a request that ends keeps its locks.
NeverUnlocked(w) == lock

Unlocked(w) == [r \in Row |-> IF lock[r] = w THEN Free ELSE lock[r]]

\* Faulty variant: a step writes the columns that differ from the baseline.
StepValuesNet(step) ==
    [c \in {<<step.row, f>> : f \in {g \in DOMAIN step.set :
                step.set[g] # Seeded[<<step.row, g>>]}} |-> step.set[c[2]]]

StepValues(step) == [c \in {<<step.row, f>> : f \in DOMAIN step.set} |-> step.set[c[2]]]

Emitted(t, nr) ==
    LET f == ChosenFault(t)
    IN  IF f = NoFault THEN {} ELSE {[nr |-> nr, fault_type |-> f]}

\* The home and the feed as an earlier take has left them.
StagedBefore ==
    LET steps == Pack[Before].steps
    IN  [c \in Cell |->
            IF \E i \in DOMAIN steps : c \in DOMAIN StepValues(steps[i])
            THEN LET i == CHOOSE i \in DOMAIN steps : c \in DOMAIN StepValues(steps[i])
                 IN  StepValues(steps[i])[c]
            ELSE Seeded[c]]

Init ==
    /\ home = StagedBefore
    /\ feed = Emitted(Topology(StagedBefore), 0)
    /\ lock = [r \in Row |-> Free]
    /\ pc = [w \in Worker |-> "idle"]
    /\ request = [w \in Worker |-> NoRequest]
    /\ seen = [w \in Worker |-> None]
    /\ dirty = [w \in Worker |-> None]
    /\ written = [w \in Worker |-> None]
    /\ doomed = [w \in Worker |-> {}]
    /\ takes = 0
    /\ since = [w \in Worker |-> {}]

----------------------------------------------------------------------------
(* Statements *)

\* Faulty variant: read on another connection, which sees committed rows only.
LoadedCommitted(w, cells) == [c \in cells |-> home[c]]

\* What a SELECT returns: committed rows, and the transaction's own writes.
Loaded(w, cells) ==
    [c \in cells |-> IF c \in DOMAIN written[w] THEN written[w][c] ELSE home[c]]

Select(w, cells) == seen' = [seen EXCEPT ![w] = Joined(@, Loaded(w, cells))]

Unread(w) == Cell \ DOMAIN seen[w]

FirstUnread(w) ==
    CHOOSE r \in {c[1] : c \in Unread(w)} : \A q \in {c[1] : c \in Unread(w)} : r <= q

SameTable(r, q) == \/ r = q
                   \/ {r, q} \subseteq DOMAIN Baseline.access_points
                   \/ {r, q} \subseteq DOMAIN Baseline.devices

\* db.merge loads one row, load_topology one table at a time.
MergedRow(w) == {c \in Unread(w) : c[1] = FirstUnread(w)}

LoadedTable(w) == {c \in Unread(w) : SameTable(c[1], FirstUnread(w))}

\* Faulty variant: the row is written whoever holds its lock.
UpdateBlindly(w, r, values) ==
    /\ lock' = [lock EXCEPT ![r] = w]
    /\ written' = [written EXCEPT ![w] = Joined(@, values)]

\* An UPDATE of cells of one row, once nobody else holds its lock.
Update(w, r, values) ==
    /\ lock[r] = Free
    /\ lock' = [lock EXCEPT ![r] = w]
    /\ written' = [written EXCEPT ![w] = Joined(@, values)]

\* COMMIT: the writes show, and are news to whoever is at work.
Publish(w) ==
    /\ home' = Overlaid(home, written[w])
    /\ lock' = Unlocked(w)

\* The cells a request goes by: those it has loaded; all, once its reset is done.
Relied(v) == IF pc[v] \in {"stage", "emit"} THEN Cell ELSE DOMAIN seen[v]

News(w) ==
    [v \in Worker |->
        since[v] \union IF v = w THEN {} ELSE DOMAIN written[w] \intersect Relied(v)]

\* The flush updates one row after the other, in its order.
NextRow(w) ==
    LET left == {i \in DOMAIN FlushOrder :
                     CellsOf(FlushOrder[i]) \intersect DOMAIN dirty[w] # {}}
    IN  FlushOrder[CHOOSE i \in left : \A j \in left : i <= j]

Flush(w) ==
    /\ pc[w] = "flush"
    /\ DOMAIN dirty[w] # {}
    /\ LET cells == CellsOf(NextRow(w)) \intersect DOMAIN dirty[w]
       IN  /\ Update(w, NextRow(w), [c \in cells |-> dirty[w][c]])
           /\ dirty' = [dirty EXCEPT ![w] = [c \in DOMAIN @ \ cells |-> @[c]]]
    /\ UNCHANGED <<home, feed, takes, pc, request, seen, doomed, since>>

Flushed(w) == pc[w] = "flush" /\ DOMAIN dirty[w] = {}

----------------------------------------------------------------------------
(* reset *)

RequestReset(w) ==
    /\ pc[w] = "idle"
    /\ w \in Operator
    /\ takes < MaxTakes
    /\ takes' = takes + 1
    /\ request' = [request EXCEPT ![w] = [kind |-> "reset", nr |-> takes']]
    /\ Goto(w, "merge")
    /\ UNCHANGED <<home, feed, lock, seen, dirty, written, doomed, since>>

\* Faulty variant: the seeder sets gateways and access points only.
MergeNoDevices(w) ==
    [c \in {k \in MergedRow(w) : k[1] \notin DOMAIN Baseline.devices
                                /\ home[k] # Seeded[k]} |-> Seeded[c]]

\* seed_networks: merge loads the row and sets it to the pack's values.
MergeChanges(w) == NetChange(Loaded(w, MergedRow(w)), Seeded)

Merge(w) ==
    /\ pc[w] = "merge"
    /\ Select(w, MergedRow(w))
    /\ dirty' = [dirty EXCEPT ![w] = Joined(@, MergeChanges(w))]
    /\ IF Unread(w) = MergedRow(w) THEN Goto(w, "flush") ELSE UNCHANGED pc
    /\ UNCHANGED <<shared, request, written, doomed, since>>

\* DELETE FROM event: the rows there are when it starts, then their locks
\* (OrderStore takes the locks of several rows one at a time).
DeleteEvents(w) ==
    /\ Flushed(w)
    /\ request[w].kind # "action"
    /\ doomed' = [doomed EXCEPT ![w] = feed]
    /\ Goto(w, "lock_events")
    /\ UNCHANGED <<shared, request, seen, dirty, written, since>>

HoldsEvents(v) == pc[v] = "reset"

LockEvents(w) ==
    /\ pc[w] = "lock_events"
    /\ \A v \in Worker \ {w} :
           HoldsEvents(v) => doomed[v] \intersect doomed[w] \intersect feed = {}
    /\ Goto(w, "reset")
    /\ UNCHANGED <<shared, request, seen, dirty, written, doomed, since>>

\* Inside apply it is only the first of two transactions.
CommitReset(w) ==
    /\ pc[w] = "reset"
    /\ Publish(w)
    /\ feed' = feed \ doomed[w]
    /\ \/ /\ request[w].kind = "reset"
          /\ Goto(w, "idle")
          /\ request' = [request EXCEPT ![w] = NoRequest]
          /\ since' = [News(w) EXCEPT ![w] = {}]
       \/ /\ request[w].kind = "apply"
          /\ UNCHANGED request
          /\ Goto(w, "stage")
          /\ since' = News(w)
    /\ seen' = [seen EXCEPT ![w] = None]
    /\ written' = [written EXCEPT ![w] = None]
    /\ doomed' = [doomed EXCEPT ![w] = {}]
    /\ UNCHANGED <<takes, dirty>>

----------------------------------------------------------------------------
(* apply *)

RequestApply(w, s) ==
    /\ pc[w] = "idle"
    /\ w \in Operator
    /\ takes < MaxTakes
    /\ takes' = takes + 1
    /\ request' = [request EXCEPT ![w] =
                      [kind |-> "apply", scenario |-> s, nr |-> takes']]
    /\ Goto(w, IF Pack[s].reset_first THEN "merge" ELSE "stage")
    /\ UNCHANGED <<home, feed, lock, seen, dirty, written, doomed, since>>

Steps(w) == Pack[request[w].scenario].steps

StepsLeft(w) == {i \in DOMAIN Steps(w) : lock[Steps(w)[i].row] # w}

NextStep(w) == Steps(w)[CHOOSE i \in StepsLeft(w) : \A j \in StepsLeft(w) : i <= j]

\* One UPDATE per step, whatever the row holds.
Stage(w) ==
    /\ pc[w] = "stage"
    /\ StepsLeft(w) # {}
    /\ Update(w, NextStep(w).row, StepValues(NextStep(w)))
    /\ UNCHANGED <<home, feed, takes, pc, request, seen, dirty, doomed, since>>

\* emit_network_telemetry reads the home as the transaction sees it.
LoadStaged(w) ==
    /\ pc[w] = "stage"
    /\ StepsLeft(w) = {}
    /\ Select(w, LoadedTable(w))
    /\ IF Unread(w) = LoadedTable(w) THEN Goto(w, "emit") ELSE UNCHANGED pc
    /\ UNCHANGED <<shared, request, dirty, written, doomed, since>>

CommitApply(w) ==
    /\ pc[w] = "emit"
    /\ Publish(w)
    /\ feed' = feed \union Emitted(Topology(seen[w]), request[w].nr)
    /\ Goto(w, "idle")
    /\ request' = [request EXCEPT ![w] = NoRequest]
    /\ seen' = [seen EXCEPT ![w] = None]
    /\ written' = [written EXCEPT ![w] = None]
    /\ since' = [News(w) EXCEPT ![w] = {}]
    /\ UNCHANGED <<takes, dirty, doomed>>

----------------------------------------------------------------------------
(* device-action *)

RequestAction(w, c) ==
    /\ pc[w] = "idle"
    /\ w \in Caller
    /\ request' = [request EXCEPT ![w] =
                      [kind |-> "action", verb |-> c.verb, target |-> c.target]]
    /\ Goto(w, "load")
    /\ UNCHANGED <<shared, seen, dirty, written, doomed, since>>

LoadHome(w) ==
    /\ pc[w] = "load"
    /\ Select(w, LoadedTable(w))
    /\ IF Unread(w) = LoadedTable(w) THEN Goto(w, "act") ELSE UNCHANGED pc
    /\ UNCHANGED <<shared, request, dirty, written, doomed, since>>

Outcome(w) ==
    RunVerb(Topology(seen[w]), request[w].verb, request[w].target, NoBand)

\* A verb that refuses is rolled back and answered with its status code.
RefuseAction(w) ==
    /\ pc[w] = "act"
    /\ ~Outcome(w).ok
    /\ Finish(w)
    /\ UNCHANGED shared

\* The commit will flush what the verb changed.
Act(w) ==
    /\ pc[w] = "act"
    /\ Outcome(w).ok
    /\ dirty' = [dirty EXCEPT ![w] = NetChange(seen[w], Cells(Outcome(w).topology))]
    /\ Goto(w, "flush")
    /\ UNCHANGED <<shared, request, seen, written, doomed, since>>

CommitAction(w) ==
    /\ Flushed(w)
    /\ request[w].kind = "action"
    /\ Publish(w)
    /\ Goto(w, "answer")
    /\ since' = News(w)
    /\ UNCHANGED <<feed, takes, request, seen, dirty, written, doomed>>

\* The second load_topology: its SELECTs return the objects the Session holds
\* already, whose attributes are as they were loaded, or set by the verb.
Reread(w) == Overlaid(seen[w], written[w])

FaultBefore(w) == ChosenFault(Topology(seen[w]))

\* Faulty variant: a verb that succeeded is taken to have cleared the fault.
FaultClearedTrusting(w) == FaultBefore(w) # NoFault

FaultCleared(w) ==
    /\ FaultBefore(w) # NoFault
    /\ FaultBefore(w) \notin DetectAll(Topology(Reread(w)))

Answer(w) ==
    /\ pc[w] = "answer"
    /\ Finish(w)
    /\ UNCHANGED shared

----------------------------------------------------------------------------
(* Failures *)

RollBack(w) ==
    /\ lock' = Unlocked(w)
    /\ Finish(w)
    /\ UNCHANGED <<home, feed, takes>>

\* The process dies, or a statement fails: what is not committed is gone.
Crash(w) == pc[w] # "idle" /\ RollBack(w)

\* The workers whose locks the next statement of a worker waits for.
Blockers(v) ==
    {w \in Worker \ {v} :
        \/ pc[v] = "flush" /\ DOMAIN dirty[v] # {} /\ lock[NextRow(v)] = w
        \/ pc[v] = "stage" /\ StepsLeft(v) # {} /\ lock[NextStep(v).row] = w
        \/ /\ pc[v] = "lock_events" /\ HoldsEvents(w)
           /\ doomed[v] \intersect doomed[w] \intersect feed # {}}

InCycle(w) ==
    /\ Blockers(w) # {}
    /\ \E S \in SUBSET Worker :
           /\ w \in S
           /\ \A v \in S : Blockers(v) \intersect S # {}
           /\ \A v \in S : \E u \in S : v \in Blockers(u)

\* PostgreSQL's deadlock detection.
AbortDeadlock(w) == InCycle(w) /\ RollBack(w)

Request(w) == \/ RequestReset(w)
              \/ \E s \in Scenario : RequestApply(w, s)
              \/ \E c \in Call : RequestAction(w, c)

Serve(w) == \/ Merge(w) \/ Flush(w) \/ DeleteEvents(w) \/ LockEvents(w) \/ CommitReset(w)
            \/ Stage(w) \/ LoadStaged(w) \/ CommitApply(w)
            \/ LoadHome(w) \/ RefuseAction(w) \/ Act(w) \/ CommitAction(w) \/ Answer(w)

Next == \E w \in Worker : Request(w) \/ Serve(w) \/ Crash(w) \/ AbortDeadlock(w)

Spec == Init /\ [][Next]_vars

\* The next statement of a request has no lock to wait for: ENABLED Serve(w)
\* spelled out, which TLC takes far longer to find for itself.
Ready(w) ==
    /\ pc[w] # "idle"
    /\ pc[w] = "flush" /\ DOMAIN dirty[w] # {} => lock[NextRow(w)] = Free
    /\ pc[w] = "stage" /\ StepsLeft(w) # {} => lock[NextStep(w).row] = Free
    /\ pc[w] = "lock_events" =>
           \A v \in Worker \ {w} :
               HoldsEvents(v) => doomed[v] \intersect doomed[w] \intersect feed = {}

\* A thread keeps running; PostgreSQL queues lock requests, so that one whose
\* lock is free again and again gets it (strong fairness of Serve), and looks
\* for deadlocks.  Nobody has to send a request, nothing has to fail.
FairSpec ==
    /\ Spec
    /\ \A w \in Worker : []<>Ready(w) => []<><<Serve(w)>>_vars
    /\ WF_vars(\E w \in Worker : AbortDeadlock(w))

----------------------------------------------------------------------------
(* Properties *)

Places == {"idle", "merge", "flush", "lock_events", "reset", "stage", "emit",
           "load", "act", "answer"}

\* Types; and what a transaction has written is locked by it until it ends.
TypeOK ==
    /\ IsTopology(Topology(home))
    /\ feed \subseteq [nr : 0..MaxTakes, fault_type : Detectors]
    /\ lock \in [Row -> Worker \union {Free}]
    /\ pc \in [Worker -> Places]
    /\ request \in [Worker -> Requests]
    /\ \A w \in Worker :
           /\ DOMAIN seen[w] \subseteq Cell
           /\ DOMAIN dirty[w] \subseteq DOMAIN seen[w]
           /\ doomed[w] \subseteq [nr : 0..MaxTakes, fault_type : Detectors]
           /\ since[w] \subseteq Cell
           /\ \A c \in DOMAIN written[w] : pc[w] # "answer" => lock[c[1]] = w
    /\ takes \in 0..MaxTakes

\* Only resets and applies are ever drawn into a deadlock (a reset flushes
\* access points before devices, a pack may stage them the other way round):
\* a device-action locks one row and waits for nothing afterwards.
OnlyOperatorsDeadlock ==
    \A w \in Worker : InCycle(w) => request[w].kind \in {"reset", "apply"}

\* A reset restores, whatever else goes on, every cell that nobody changed
\* after the reset had looked at it (seed_networks, reset).
QuietResetRestores ==
    [][\A w \in Worker : CommitReset(w) =>
          \A c \in Cell : home'[c] # Seeded[c] => c \in since[w]]_vars

\* When an apply commits, the home has every value its pack sets; and if the
\* pack resets first, whatever else differs from the baseline was committed by
\* another request after this one had looked (engine.py, apply).
TakeIsWhole ==
    [][\A w \in Worker : CommitApply(w) =>
          LET pack   == Pack[request[w].scenario]
              staged == {pack.steps[i] : i \in DOMAIN pack.steps}
              set    == {c \in Cell : \E step \in staged :
                            c[1] = step.row /\ c[2] \in DOMAIN step.set}
          IN  /\ \A step \in staged : \A f \in DOMAIN step.set :
                     home'[<<step.row, f>>] = step.set[f]
              /\ pack.reset_first =>
                     {c \in Cell \ set : home'[c] # Seeded[c]} \subseteq since[w]]_vars

\* The rows a fault shows on, and its place in the precedence.
Evidence(t, f) == CASE f = "wan_degraded"      -> {GatewayId}
                    [] f = "device_band_stuck" -> StuckDevices(t)
                    [] f = "extender_flapping" -> UnhealthyExtenders(t)

Outranks(f, g) ==
    \E i, j \in DOMAIN Config.fault_precedence :
        /\ Config.fault_precedence[i] = f
        /\ Config.fault_precedence[j] = g
        /\ i <= j

\* A fault on a row the pack has set is announced with the commit, by itself
\* or by one that outranks it, although the telemetry was computed some
\* statements earlier (telemetry.py, emit_network_telemetry in apply).
TakeIsAnnounced ==
    [][\A w \in Worker : CommitApply(w) =>
          LET pack == Pack[request[w].scenario]
              rows == {pack.steps[i].row : i \in DOMAIN pack.steps}
          IN  \A f \in DetectAll(Topology(home')) :
                  Evidence(Topology(home'), f) \intersect rows # {} =>
                      \E e \in feed' : /\ e.nr = request[w].nr
                                       /\ Outranks(e.fault_type, f)]_vars

\* A device-action commits no fault that was not there, although it computes
\* its values from rows another request may have changed since (actions.py).
ActionsOnlyHeal ==
    [][\A w \in Worker : CommitAction(w) =>
          DetectAll(Topology(home')) \subseteq DetectAll(Topology(home))]_vars

\* If device-action reports a fault cleared that is there, every row it shows
\* on was changed by another request while this one ran (gx/routes.py).
ClearedIsSound ==
    [][\A w \in Worker :
          /\ Answer(w) /\ FaultCleared(w)
          /\ FaultBefore(w) \in DetectAll(Topology(home))
          => \A r \in Evidence(Topology(home), FaultBefore(w)) :
                  CellsOf(r) \intersect since[w] # {}]_vars

\* Every request is answered, aborted or cut off: no wait for ever.
RequestsAnswered == \A w \in Worker : pc[w] # "idle" ~> pc[w] = "idle"

----------------------------------------------------------------------------
(* What the repository says of these requests *)

\* gx/routes.py:297: "Re-read: fault_cleared must reflect committed state".
ClearedIsCommitted ==
    [][\A w \in Worker : Answer(w) /\ FaultCleared(w) =>
          FaultBefore(w) \notin DetectAll(Topology(home))]_vars

=============================================================================
