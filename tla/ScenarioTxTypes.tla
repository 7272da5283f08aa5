-------------------------- MODULE ScenarioTxTypes --------------------------
(****************************************************************************)
(* What overlapping requests can make of a home: its cells stay within the  *)
(* tables' constraints, and a device-action commits no fault, however stale *)
(* the rows its verb has worked on.                                         *)
(****************************************************************************)
EXTENDS ScenarioTxProofs

(* Types *)

\* The cells of the home, by name.
LEMMA NamedCells ==
    /\ <<GatewayId, "wan_status">> \in Cell
    /\ \A a \in DOMAIN Baseline.access_points :
           <<a, "status">> \in Cell /\ <<a, "backhaul_quality">> \in Cell
    /\ \A d \in DOMAIN Baseline.devices : <<d, "band">> \in Cell /\ <<d, "rssi">> \in Cell
<1>1. /\ GatewayId \notin DOMAIN Baseline.access_points \union DOMAIN Baseline.devices
      /\ DOMAIN Baseline.access_points \intersect DOMAIN Baseline.devices = {}
  BY StageAssumption DEF IsTopology
<1>2. \A r \in Row : \A f \in Columns(r) : <<r, f>> \in Cell
  BY DEF Cell, CellsOf
<1>. QED
  BY <1>1, <1>2 DEF Row, Columns

\* Cells that hold what their columns may make a home the tables allow.
LEMMA TypedTopology ==
    ASSUME NEW h, \A c \in Cell : h[c] \in ValuesOf(c[2])
    PROVE  IsTopology(Topology(h))
<1> DEFINE t == Topology(h)
<1>1. /\ h[<<GatewayId, "wan_status">>] \in WanStatuses
      /\ \A a \in DOMAIN Baseline.access_points :
             h[<<a, "status">>] \in ApStatuses /\ h[<<a, "backhaul_quality">>] \in PgInteger
      /\ \A d \in DOMAIN Baseline.devices :
             h[<<d, "band">>] \in Bands /\ h[<<d, "rssi">>] \in PgInteger
  <2>1. \A r, f : <<r, f>> \in Cell => h[<<r, f>>] \in ValuesOf(f)
    OBVIOUS
  <2>. QED
    BY <2>1, NamedCells DEF ValuesOf
<1>2. \A a \in DOMAIN Baseline.access_points : Baseline.access_points[a] \in ApRow
  BY StageAssumption DEF IsTopology
<1>3. \A d \in DOMAIN Baseline.devices : Baseline.devices[d] \in DeviceRow
  BY StageAssumption DEF IsTopology
<1>4. /\ t.access_points = [a \in DOMAIN Baseline.access_points |-> t.access_points[a]]
      /\ \A a \in DOMAIN Baseline.access_points : t.access_points[a] \in ApRow
  BY <1>1, <1>2 DEF Topology, ApRow
<1>5. /\ t.devices = [d \in DOMAIN Baseline.devices |-> t.devices[d]]
      /\ \A d \in DOMAIN Baseline.devices :
             /\ t.devices[d] \in DeviceRow
             /\ t.devices[d].connected_ap_id = Baseline.devices[d].connected_ap_id
  BY <1>1, <1>3 DEF Topology, DeviceRow
<1>6. /\ t = [gateway |-> t.gateway, access_points |-> t.access_points, devices |-> t.devices]
      /\ t.gateway \in WanStatuses
  BY <1>1 DEF Topology
<1>. HIDE DEF t
<1>7. IsTopology(t)
  BY <1>4, <1>5, <1>6, StageAssumption DEF IsTopology
<1>. QED
  BY <1>7 DEF t

\* And the other way round.
LEMMA TypedCells ==
    ASSUME NEW t, IsTopology(t), t.gateway # NoGateway,
           DOMAIN t.access_points = DOMAIN Baseline.access_points,
           DOMAIN t.devices = DOMAIN Baseline.devices
    PROVE  \A c \in Cell : Cells(t)[c] \in ValuesOf(c[2])
<1>. SUFFICES ASSUME NEW c \in Cell
              PROVE  Cells(t)[c] \in ValuesOf(c[2])
  OBVIOUS
<1>1. PICK r \in Row : c \in CellsOf(r)
  BY DEF Cell
<1>2. c[1] = r /\ c[2] \in Columns(r)
  BY <1>1 DEF CellsOf
<1>3. /\ GatewayId \notin DOMAIN t.access_points \union DOMAIN t.devices
      /\ DOMAIN t.access_points \intersect DOMAIN t.devices = {}
  BY DEF IsTopology
<1>4. CASE r = GatewayId
  <2>1. c[2] = "wan_status" /\ Cells(t)[c] = t.gateway
    BY <1>2, <1>3, <1>4 DEF Cells, Columns
  <2>. QED
    BY <2>1 DEF IsTopology, ValuesOf
<1>5. CASE r \in DOMAIN t.access_points
  <2>1. /\ c[2] \in {"status", "backhaul_quality"}
        /\ Cells(t)[c] = t.access_points[r][c[2]]
    BY <1>2, <1>3, <1>5 DEF Cells, Columns
  <2>2. t.access_points[r] \in ApRow
    BY <1>5 DEF IsTopology
  <2>. QED
    BY <2>1, <2>2 DEF ApRow, ValuesOf
<1>6. CASE r \in DOMAIN t.devices
  <2>1. c[2] \in {"band", "rssi"} /\ Cells(t)[c] = t.devices[r][c[2]]
    BY <1>2, <1>3, <1>6 DEF Cells, Columns
  <2>2. t.devices[r] \in DeviceRow
    BY <1>6 DEF IsTopology
  <2>. QED
    BY <2>1, <2>2 DEF DeviceRow, ValuesOf
<1>. QED
  BY <1>4, <1>5, <1>6 DEF Row

\* A function on cells holds what their columns may.
Typed(f) == \A c \in DOMAIN f : c \in Cell /\ f[c] \in ValuesOf(c[2])

\* The baseline is typed, so is what an earlier take has left.
LEMMA SeededTyped == Typed(Seeded) /\ DOMAIN Seeded = Cell
<1>1. DOMAIN Seeded = Cell
  BY DEF Seeded, Cells
<1>. QED
  BY <1>1, TypedCells, StageAssumption DEF Seeded, Typed

\* What a step of a pack sets is typed.
LEMMA StepTyped ==
    ASSUME NEW s \in Scenario, NEW i \in DOMAIN Pack[s].steps
    PROVE  Typed(StepValues(Pack[s].steps[i]))
<1> DEFINE step == Pack[s].steps[i]
<1>1. /\ step.row \in Row /\ DOMAIN step.set \subseteq Columns(step.row)
      /\ \A f \in DOMAIN step.set : step.set[f] \in ValuesOf(f)
  BY StageAssumption DEF IsPack
<1>. HIDE DEF step
<1>2. StepValues(step) = [c \in {<<step.row, f>> : f \in DOMAIN step.set} |-> step.set[c[2]]]
  BY DEF StepValues
<1>3. \A f \in DOMAIN step.set : <<step.row, f>> \in Cell
  BY <1>1 DEF Cell, CellsOf
<1>4. Typed(StepValues(step))
  BY <1>1, <1>2, <1>3 DEF Typed
<1>. QED
  BY <1>4 DEF step

\* What a verb makes of typed cells is typed.
LEMMA OutcomeTyped ==
    ASSUME NEW w \in Worker, Typed(seen[w]), DOMAIN seen[w] = Cell,
           request[w].verb \in Verbs, Outcome(w).ok
    PROVE  /\ IsTopology(Topology(seen[w]))
           /\ \A c \in Cell : Cells(Outcome(w).topology)[c] \in ValuesOf(c[2])
<1> DEFINE t == Topology(seen[w])
           r == Outcome(w).topology
<1>1. IsTopology(t)
  BY TypedTopology DEF Typed
<1>2. /\ t.gateway # NoGateway
      /\ DOMAIN t.access_points = DOMAIN Baseline.access_points
      /\ DOMAIN t.devices = DOMAIN Baseline.devices
  <2>1. <<GatewayId, "wan_status">> \in Cell
    BY NamedCells
  <2>2. seen[w][<<GatewayId, "wan_status">>] \in WanStatuses
    <3>1. seen[w][<<GatewayId, "wan_status">>] \in ValuesOf("wan_status")
      BY <2>1 DEF Typed
    <3>. QED
      BY <3>1 DEF ValuesOf
  <2>. QED
    BY <2>2 DEF Topology, WanStatuses, NoGateway
<1>. HIDE DEF t
<1>3. \/ r = t
      \/ \E d \in DOMAIN t.devices :
             /\ Config.steer_target_band \in Bands
             /\ r = Steered(t, d, NoBand)
      \/ \E a \in DOMAIN t.access_points : \E quality \in PgInteger :
             /\ quality > Config.poor_backhaul_quality
             /\ r = Rebooted(t, a, quality)
  <2>1. CASE request[w].verb = "band-steer"
    BY <2>1, ConfigType DEF Outcome, RunVerb, BandSteer, Accepted, Refused, Verbs, t
  <2>2. CASE request[w].verb \in {"reboot-extender", "reboot-ap"}
    <3>1. Outcome(w) = RunVerb(t, request[w].verb, request[w].target, NoBand)
      BY DEF Outcome, t
    <3>. QED
      BY <1>1, <2>2, <3>1, RebootVerbs
  <2>. QED
    BY <2>1, <2>2 DEF Verbs
<1>. HIDE DEF r
<1>4. /\ IsTopology(r) /\ r.gateway = t.gateway
      /\ DOMAIN r.access_points = DOMAIN t.access_points
      /\ DOMAIN r.devices = DOMAIN t.devices
  <2>1. CASE r = t
    BY <1>1, <2>1
  <2>2. ASSUME NEW d \in DOMAIN t.devices, Config.steer_target_band \in Bands,
               r = Steered(t, d, NoBand)
        PROVE  /\ IsTopology(r) /\ r.gateway = t.gateway
               /\ DOMAIN r.access_points = DOMAIN t.access_points
               /\ DOMAIN r.devices = DOMAIN t.devices
    <3>1. IsTopology(r) /\ r.gateway = t.gateway
      BY <1>1, <2>2, SteerHeals DEF SteerBand
    <3>2. \E row : r = [gateway       |-> t.gateway,
                        access_points |-> t.access_points,
                        devices       |-> [t.devices EXCEPT ![d] = row]]
      BY <1>1, <2>2, SteeredRows
    <3>. QED
      BY <3>1, <3>2
  <2>3. ASSUME NEW a \in DOMAIN t.access_points, NEW quality \in PgInteger,
               quality > Config.poor_backhaul_quality, r = Rebooted(t, a, quality)
        PROVE  /\ IsTopology(r) /\ r.gateway = t.gateway
               /\ DOMAIN r.access_points = DOMAIN t.access_points
               /\ DOMAIN r.devices = DOMAIN t.devices
    <3>1. IsTopology(r) /\ r.gateway = t.gateway
      BY <1>1, <2>3, RebootHeals
    <3> DEFINE row == [t.access_points[a] EXCEPT !.status = "online",
                                                 !.backhaul_quality = quality]
    <3>2. r = [gateway       |-> t.gateway,
               access_points |-> [t.access_points EXCEPT ![a] = row],
               devices       |-> t.devices]
      BY <1>1, <2>3, RebootedRows
    <3>. HIDE DEF row
    <3>. QED
      BY <3>1, <3>2
  <2>. QED
    BY <1>3, <2>1, <2>2, <2>3
<1>5. \A c \in Cell : Cells(r)[c] \in ValuesOf(c[2])
  BY <1>2, <1>4, TypedCells
<1>. QED
  BY <1>1, <1>5 DEF r, t

Event == [nr : 0..MaxTakes, fault_type : Detectors]

\* What is typed apart from cells.
BookInv ==
    /\ lock \in [Row -> Worker \union {Free}]
    /\ pc \in [Worker -> Places]
    /\ request \in [Worker -> Requests]
    /\ takes \in 0..MaxTakes
    /\ feed \subseteq Event
    /\ doomed \in [Worker -> SUBSET Event]
    /\ since \in [Worker -> SUBSET Cell]

\* The cells of a Session; what is written is locked until the commit.
CellInv(w) ==
    /\ Typed(seen[w]) /\ Typed(dirty[w]) /\ Typed(written[w])
    /\ DOMAIN dirty[w] \subseteq DOMAIN seen[w]
    /\ pc[w] = "act" => DOMAIN seen[w] = Cell
    /\ pc[w] # "answer" => \A c \in DOMAIN written[w] : lock[c[1]] = w

\* What a device-action has written and is to write is what its verb changed.
ActionInv(w) ==
    request[w].kind = "action" /\ pc[w] = "flush" =>
        LET change == NetChange(seen[w], Cells(Outcome(w).topology))
        IN  /\ DOMAIN seen[w] = Cell /\ Outcome(w).ok
            /\ DOMAIN change = DOMAIN dirty[w] \union DOMAIN written[w]
            /\ \A c \in DOMAIN dirty[w] : dirty[w][c] = change[c]
            /\ \A c \in DOMAIN written[w] : written[w][c] = change[c]

TypesInv ==
    /\ BookInv /\ Typed(home)
    /\ \A w \in Worker : CellInv(w) /\ ActionInv(w)

AllInv == TxInv /\ TakeInv /\ TypesInv

\* A step of one worker leaves the Sessions of the others typed.
LEMMA TypedBystanders ==
    ASSUME AllInv, NEW w \in Worker, Aside(w), BookInv', Typed(home'),
           CellInv(w)', ActionInv(w)'
    PROVE  TypesInv'
<1>1. ASSUME NEW v \in Worker \ {w}
      PROVE  CellInv(v)' /\ ActionInv(v)'
  <2>1. CellInv(v) /\ ActionInv(v)
    BY DEF AllInv, TypesInv
  <2>2. /\ pc'[v] = pc[v] /\ request'[v] = request[v] /\ seen'[v] = seen[v]
        /\ dirty'[v] = dirty[v] /\ written'[v] = written[v]
    BY DEF Aside
  <2>3. \A r \in Row : lock[r] = v => lock'[r] = v
    BY StageAssumption DEF Aside
  <2>4. \A c \in DOMAIN written[v] : c[1] \in Row
    BY <2>1, CellsOfRow DEF CellInv, Typed
  <2>5. CellInv(v)'
    BY <2>1, <2>2, <2>3, <2>4 DEF CellInv, Typed
  <2>6. Outcome(v)' = Outcome(v)
    BY <2>2 DEF Outcome
  <2>7. ActionInv(v)'
    BY <2>1, <2>2, <2>6 DEF ActionInv, NetChange
  <2>. QED
    BY <2>5, <2>7
<1>. QED
  BY <1>1 DEF TypesInv

\* Telemetry names a fault.
LEMMA EmittedTyped ==
    ASSUME NEW t, NEW nr \in 0..MaxTakes
    PROVE  Emitted(t, nr) \subseteq Event
<1>1. ChosenFault(t) = NoFault \/ ChosenFault(t) \in Detectors
  BY ChosenIsDetected DEF DetectAll
<1>. QED
  BY <1>1 DEF Emitted, Event

\* A commit leaves a typed home.
LEMMA PublishTyped ==
    ASSUME AllInv, NEW w \in Worker, Publish(w)
    PROVE  Typed(home')
<1>1. home' = [c \in Cell |-> IF c \in DOMAIN written[w] THEN written[w][c] ELSE home[c]]
  BY DEF Publish, Overlaid, AllInv, TakeInv
<1>2. Typed(home) /\ DOMAIN home = Cell /\ Typed(written[w])
  BY DEF AllInv, TypesInv, TakeInv, CellInv
<1>. QED
  BY <1>1, <1>2 DEF Typed

\* Nothing empty is untyped.
LEMMA NoneTyped == Typed(None) /\ DOMAIN None = {}
BY DEF Typed, None

\* The types hold at the start.
LEMMA InitTypes == Init => TypesInv
<1>. SUFFICES ASSUME Init
              PROVE  TypesInv
  OBVIOUS
<1>1. Typed(home)
  <2> DEFINE steps == Pack[Before].steps
  <2>1. \A i \in DOMAIN steps : Typed(StepValues(steps[i]))
    BY StepTyped, StageAssumption
  <2>2. DOMAIN home = Cell /\ \A c \in Cell :
            \/ home[c] = Seeded[c]
            \/ \E i \in DOMAIN steps : /\ c \in DOMAIN StepValues(steps[i])
                                       /\ home[c] = StepValues(steps[i])[c]
    BY DEF Init, StagedBefore
  <2>. HIDE DEF steps
  <2>. QED
    BY <2>1, <2>2, SeededTyped DEF Typed
<1>2. BookInv
  <2>1. 0 \in 0..MaxTakes
    BY StageAssumption
  <2>2. feed \subseteq Event
    BY <2>1, EmittedTyped DEF Init
  <2>. QED
    BY <2>1, <2>2 DEF Init, BookInv, Places, Requests
<1>3. \A w \in Worker : CellInv(w) /\ ActionInv(w)
  <2>1. \A w \in Worker : pc[w] = "idle" /\ seen[w] = None /\ dirty[w] = None /\ written[w] = None
    BY DEF Init
  <2>. QED
    BY <2>1, NoneTyped DEF CellInv, ActionInv
<1>. QED
  BY <1>1, <1>2, <1>3 DEF TypesInv

\* Every step keeps the types that are not about cells.
LEMMA StepBook ==
    ASSUME AllInv, NEW w \in Worker, Request(w) \/ Serve(w) \/ RollBack(w)
    PROVE  BookInv'
<1>1. BookInv /\ DOMAIN written[w] \subseteq Cell /\ PlaceInv(w)
  BY DEF AllInv, TypesInv, TakeInv, WorkInv, CleanInv, TxInv
<1>2. CASE RequestReset(w) \/ \E s \in Scenario : RequestApply(w, s)
  <2>1. takes' \in 1..MaxTakes /\ takes' \in 0..MaxTakes
    BY <1>1, <1>2, StageAssumption DEF RequestReset, RequestApply, BookInv
  <2>2. request' \in [Worker -> Requests]
    BY <1>1, <1>2, <2>1 DEF RequestReset, RequestApply, BookInv, Requests
  <2>3. pc' \in [Worker -> Places]
    BY <1>1, <1>2 DEF RequestReset, RequestApply, BookInv, Goto, Places
  <2>. QED
    BY <1>1, <1>2, <2>1, <2>2, <2>3 DEF RequestReset, RequestApply, BookInv
<1>3. CASE \E c \in Call : RequestAction(w, c)
  <2>1. request' \in [Worker -> Requests]
    BY <1>1, <1>3, StageAssumption DEF RequestAction, BookInv, Requests
  <2>. QED
    BY <1>1, <1>3, <2>1 DEF RequestAction, BookInv, Goto, Places, shared
<1>4. CASE Merge(w) \/ LoadStaged(w) \/ LoadHome(w) \/ Act(w)
  BY <1>1, <1>4 DEF Merge, LoadStaged, LoadHome, Act, BookInv, Goto, Places, shared
<1>5. CASE Flush(w) \/ Stage(w)
  BY <1>1, <1>5 DEF Flush, Stage, Update, BookInv
<1>6. CASE DeleteEvents(w) \/ LockEvents(w)
  BY <1>1, <1>6 DEF DeleteEvents, LockEvents, BookInv, Goto, Places, shared
<1>7. lock' = Unlocked(w) => lock' \in [Row -> Worker \union {Free}]
  BY <1>1 DEF Unlocked, BookInv
<1>8. News(w) \in [Worker -> SUBSET Cell]
  BY <1>1 DEF News, BookInv
<1>9. CASE CommitReset(w)
  <2>1. since' \in [Worker -> SUBSET Cell]
    BY <1>8, <1>9 DEF CommitReset
  <2>2. request' \in [Worker -> Requests] /\ pc' \in [Worker -> Places]
    BY <1>1, <1>9 DEF CommitReset, BookInv, Goto, Places, Requests
  <2>. QED
    BY <1>1, <1>7, <1>9, <2>1, <2>2 DEF CommitReset, Publish, BookInv
<1>10. CASE CommitApply(w)
  <2>1. request[w].kind = "apply"
    BY <1>1, <1>10 DEF CommitApply, PlaceInv
  <2>2. request[w].nr \in 0..MaxTakes
    BY <1>1, <2>1, StageAssumption DEF BookInv, Requests, NoRequest
  <2>3. feed' \subseteq Event
    BY <1>1, <1>10, <2>2, EmittedTyped DEF CommitApply, BookInv
  <2>4. since' \in [Worker -> SUBSET Cell]
    BY <1>8, <1>10 DEF CommitApply
  <2>5. request' \in [Worker -> Requests] /\ pc' \in [Worker -> Places]
    BY <1>1, <1>10 DEF CommitApply, BookInv, Goto, Places, Requests
  <2>. QED
    BY <1>1, <1>7, <1>10, <2>3, <2>4, <2>5 DEF CommitApply, Publish, BookInv
<1>11. CASE CommitAction(w)
  BY <1>1, <1>7, <1>8, <1>11 DEF CommitAction, Publish, BookInv, Goto, Places
<1>12. CASE RefuseAction(w) \/ Answer(w) \/ RollBack(w)
  <2>1. Finish(w) /\ UNCHANGED <<feed, takes>> /\ lock' \in {lock, Unlocked(w)}
    BY <1>12 DEF RefuseAction, Answer, RollBack, shared
  <2>2. lock' \in [Row -> Worker \union {Free}]
    BY <1>1, <1>7, <2>1 DEF BookInv
  <2>3. request' \in [Worker -> Requests] /\ pc' \in [Worker -> Places]
    BY <1>1, <2>1 DEF Finish, BookInv, Goto, Places, Requests
  <2>. QED
    BY <1>1, <2>1, <2>2, <2>3 DEF Finish, BookInv
<1>. QED
  BY <1>2, <1>3, <1>4, <1>5, <1>6, <1>9, <1>10, <1>11, <1>12 DEF Request, Serve

\* A SELECT returns typed cells.
LEMMA SelectTyped ==
    ASSUME AllInv, NEW w \in Worker, NEW cells \in SUBSET Cell, Select(w, cells)
    PROVE  Typed(seen'[w]) /\ DOMAIN seen'[w] = DOMAIN seen[w] \union cells
<1>1. /\ Typed(seen[w]) /\ Typed(written[w]) /\ Typed(home) /\ DOMAIN home = Cell
      /\ seen'[w] = Joined(seen[w], Loaded(w, cells))
  BY DEF AllInv, TypesInv, TakeInv, TxInv, CellInv, Select
<1>2. DOMAIN Loaded(w, cells) = cells /\ Typed(Loaded(w, cells))
  BY <1>1 DEF Loaded, Typed
<1>. HIDE DEF Loaded
<1>. QED
  BY <1>1, <1>2 DEF Joined, Typed

\* Joining typed cells gives typed cells.
LEMMA JoinedTyped ==
    ASSUME NEW f, NEW g, Typed(f), Typed(g)
    PROVE  Typed(Joined(f, g)) /\ DOMAIN Joined(f, g) = DOMAIN f \union DOMAIN g
BY DEF Joined, Typed

\* An idle worker's Session is empty.
LEMMA IdleTyped ==
    ASSUME NEW w \in Worker, pc'[w] = "idle", seen'[w] = None, written'[w] = None,
           Typed(dirty'[w]), DOMAIN dirty'[w] = {}
    PROVE  CellInv(w)' /\ ActionInv(w)'
BY NoneTyped DEF CellInv, ActionInv

\* An UPDATE locks the row it writes.
LEMMA UpdateTyped ==
    ASSUME AllInv, NEW w \in Worker, NEW r \in Row, NEW values, Typed(values),
           \A c \in DOMAIN values : c[1] = r, Update(w, r, values), pc[w] # "answer"
    PROVE  /\ Typed(written'[w]) /\ DOMAIN written'[w] = DOMAIN written[w] \union DOMAIN values
           /\ \A c \in DOMAIN written'[w] : lock'[c[1]] = w
<1>1. /\ Typed(written[w]) /\ \A c \in DOMAIN written[w] : lock[c[1]] = w
      /\ DOMAIN lock = Row
      /\ written'[w] = Joined(written[w], values) /\ lock' = [lock EXCEPT ![r] = w]
  BY DEF AllInv, TypesInv, CellInv, TxInv, TakeInv, Update
<1>2. \A c \in DOMAIN written[w] : c[1] \in Row
  BY <1>1, CellsOfRow DEF Typed
<1>3. Typed(written'[w]) /\ DOMAIN written'[w] = DOMAIN written[w] \union DOMAIN values
  BY <1>1, JoinedTyped
<1>4. \A q \in Row : lock[q] = w \/ q = r => lock'[q] = w
  BY <1>1
<1>. QED
  BY <1>1, <1>2, <1>3, <1>4

\* Every statement keeps what is typed about the worker's own cells.
LEMMA StepCells ==
    ASSUME AllInv, NEW w \in Worker, Request(w) \/ Serve(w) \/ RollBack(w)
    PROVE  CellInv(w)' /\ ActionInv(w)' /\ Typed(home')
<1>1. /\ CellInv(w) /\ ActionInv(w) /\ PlaceInv(w) /\ SessionInv(w)
      /\ CleanInv(w) /\ StageInv(w) /\ Typed(home) /\ DOMAIN home = Cell
  BY DEF AllInv, TypesInv, TxInv, TakeInv, WorkInv
<1>2. MergedRow(w) \in SUBSET Cell /\ LoadedTable(w) \in SUBSET Cell
  BY DEF MergedRow, LoadedTable, Unread
<1>3. CASE Request(w)
  <2>1. /\ pc[w] = "idle" /\ pc'[w] \in {"merge", "stage", "load"}
        /\ UNCHANGED <<home, seen, dirty, written>>
    BY <1>3, StageAssumption DEF Request, RequestReset, RequestApply, RequestAction, Goto, shared,
                                 IsPack, AllInv, TxInv
  <2>. QED
    BY <1>1, <2>1 DEF CellInv, ActionInv, CleanInv, Typed
<1>4. CASE Merge(w)
  <2>1. /\ pc[w] = "merge" /\ pc'[w] \in {"merge", "flush"} /\ DOMAIN written[w] = {}
        /\ request[w].kind # "action"
        /\ UNCHANGED <<home, request, written>>
        /\ dirty'[w] = Joined(dirty[w], MergeChanges(w))
        /\ Select(w, MergedRow(w))
    BY <1>1, <1>4 DEF Merge, Goto, shared, AllInv, TxInv, CleanInv, PlaceInv
  <2>2. Typed(MergeChanges(w)) /\ DOMAIN MergeChanges(w) \subseteq MergedRow(w)
    <3>1. DOMAIN Loaded(w, MergedRow(w)) = MergedRow(w)
      BY DEF Loaded
    <3>2. /\ DOMAIN MergeChanges(w) \subseteq MergedRow(w)
          /\ \A c \in DOMAIN MergeChanges(w) : MergeChanges(w)[c] = Seeded[c]
      BY <3>1 DEF MergeChanges, NetChange
    <3>. QED
      BY <1>2, <3>2, SeededTyped DEF Typed
  <2>3. Typed(seen'[w]) /\ DOMAIN seen'[w] = DOMAIN seen[w] \union MergedRow(w)
    BY <1>2, <2>1, SelectTyped
  <2>4. /\ Typed(dirty'[w])
        /\ DOMAIN dirty'[w] = DOMAIN dirty[w] \union DOMAIN MergeChanges(w)
    <3> DEFINE f == dirty[w]
               g == MergeChanges(w)
    <3>1. Typed(f) /\ Typed(g) /\ dirty'[w] = Joined(f, g)
      BY <1>1, <2>1, <2>2 DEF CellInv
    <3>. HIDE DEF f, g
    <3>2. Typed(Joined(f, g)) /\ DOMAIN Joined(f, g) = DOMAIN f \union DOMAIN g
      BY <3>1, JoinedTyped
    <3>3. Typed(dirty'[w]) /\ DOMAIN dirty'[w] = DOMAIN f \union DOMAIN g
      BY <3>1, <3>2
    <3>. QED
      BY <3>3 DEF f, g
  <2>. QED
    BY <1>1, <2>1, <2>2, <2>3, <2>4 DEF CellInv, ActionInv
<1>5. CASE Flush(w)
  <2> DEFINE cells == CellsOf(NextRow(w)) \intersect DOMAIN dirty[w]
             values == [c \in cells |-> dirty[w][c]]
  <2>1. /\ pc[w] = "flush" /\ UNCHANGED <<home, pc, request, seen>>
        /\ NextRow(w) \in Row /\ Update(w, NextRow(w), values)
        /\ dirty'[w] = [c \in DOMAIN dirty[w] \ cells |-> dirty[w][c]]
        /\ written'[w] = Joined(written[w], values)
    BY <1>1, <1>5, NextRowIsDirty DEF Flush, Update, AllInv, TxInv, TakeInv, SessionInv
  <2>2. \A c \in cells : c[1] = NextRow(w)
    BY CellsOfRow
  <2>3. /\ cells \subseteq DOMAIN dirty[w] /\ DOMAIN values = cells
        /\ \A c \in cells : values[c] = dirty[w][c]
    OBVIOUS
  <2>. HIDE DEF cells, values
  <2>4. Typed(values)
    BY <1>1, <2>3 DEF CellInv, Typed
  <2>5. /\ Typed(written'[w]) /\ DOMAIN written'[w] = DOMAIN written[w] \union cells
        /\ \A c \in DOMAIN written'[w] : lock'[c[1]] = w
    BY <2>1, <2>2, <2>3, <2>4, UpdateTyped
  <2>6. /\ \A c \in cells : written'[w][c] = dirty[w][c]
        /\ \A c \in DOMAIN written[w] \ cells : written'[w][c] = written[w][c]
    BY <2>1, <2>3 DEF Joined
  <2>7. /\ DOMAIN dirty'[w] = DOMAIN dirty[w] \ cells
        /\ \A c \in DOMAIN dirty'[w] : dirty'[w][c] = dirty[w][c]
    BY <2>1
  <2>8. CellInv(w)'
    BY <1>1, <2>1, <2>3, <2>5, <2>7 DEF CellInv, Typed
  <2>9. ActionInv(w)'
    <3>1. Outcome(w)' = Outcome(w)
      BY <2>1 DEF Outcome
    <3> DEFINE change == NetChange(seen[w], Cells(Outcome(w).topology))
    <3>2. NetChange(seen[w], Cells(Outcome(w).topology))' = change
      BY <2>1, <3>1 DEF NetChange
    <3>. SUFFICES ASSUME request[w].kind = "action"
                  PROVE  ActionInv(w)'
      BY <2>1 DEF ActionInv
    <3>3. /\ DOMAIN seen[w] = Cell /\ Outcome(w).ok
          /\ DOMAIN change = DOMAIN dirty[w] \union DOMAIN written[w]
          /\ \A c \in DOMAIN dirty[w] : dirty[w][c] = change[c]
          /\ \A c \in DOMAIN written[w] : written[w][c] = change[c]
      BY <1>1, <2>1 DEF ActionInv
    <3>. HIDE DEF change
    <3>4. /\ DOMAIN change = DOMAIN dirty'[w] \union DOMAIN written'[w]
          /\ \A c \in DOMAIN dirty'[w] : dirty'[w][c] = change[c]
          /\ \A c \in DOMAIN written'[w] : written'[w][c] = change[c]
      BY <2>3, <2>5, <2>6, <2>7, <3>3
    <3>. QED
      BY <2>1, <3>1, <3>2, <3>3, <3>4 DEF ActionInv
  <2>. QED
    BY <1>1, <2>1, <2>8, <2>9
<1>6. CASE DeleteEvents(w) \/ LockEvents(w)
  <2>1. /\ pc[w] \in {"flush", "lock_events"} /\ pc'[w] \in {"lock_events", "reset"}
        /\ UNCHANGED <<home, lock, seen, dirty, written>>
    BY <1>6 DEF DeleteEvents, LockEvents, Flushed, Goto, shared, AllInv, TxInv
  <2>. QED
    BY <1>1, <2>1 DEF CellInv, ActionInv, Typed
<1>7. CASE CommitReset(w) \/ CommitApply(w)
  <2>1. Publish(w) /\ pc[w] \in {"reset", "emit"} /\ dirty' = dirty
    BY <1>7 DEF CommitReset, CommitApply
  <2>2. pc'[w] \in {"idle", "stage"} /\ seen'[w] = None /\ written'[w] = None
    BY <1>7 DEF CommitReset, CommitApply, Goto, AllInv, TxInv, TakeInv
  <2>3. DOMAIN dirty[w] = {}
    BY <1>1, <2>1 DEF CleanInv
  <2>4. Typed(home')
    BY <2>1, PublishTyped
  <2>. QED
    BY <2>1, <2>2, <2>3, <2>4, NoneTyped DEF CellInv, ActionInv, Typed
<1>8. CASE Stage(w)
  <2>1. /\ pc[w] = "stage" /\ UNCHANGED <<home, pc, request, seen, dirty>>
        /\ StepsLeft(w) # {} /\ Update(w, NextStep(w).row, StepValues(NextStep(w)))
    BY <1>8 DEF Stage
  <2>2. request[w].scenario \in Scenario
    BY <1>1, <2>1 DEF PlaceInv
  <2>3. /\ NextStep(w).row \in Row
        /\ \E m \in DOMAIN Steps(w) : NextStep(w) = Steps(w)[m]
    BY <2>1, <2>2, NextStepIsStep
  <2>4. Typed(StepValues(NextStep(w)))
    BY <2>2, <2>3, StepTyped DEF Steps
  <2>5. \A c \in DOMAIN StepValues(NextStep(w)) : c[1] = NextStep(w).row
    BY DEF StepValues
  <2>6. Typed(written'[w]) /\ \A c \in DOMAIN written'[w] : lock'[c[1]] = w
    BY <2>1, <2>3, <2>4, <2>5, UpdateTyped
  <2>. QED
    BY <1>1, <2>1, <2>6 DEF CellInv, ActionInv, Typed
<1>9. CASE LoadStaged(w) \/ LoadHome(w)
  <2>1. /\ Select(w, LoadedTable(w))
        /\ pc[w] \in {"stage", "load"} /\ pc'[w] \in {"stage", "load", "emit", "act"}
        /\ pc'[w] = "act" => Unread(w) = LoadedTable(w)
        /\ UNCHANGED <<home, lock, dirty, written>>
    BY <1>9 DEF LoadStaged, LoadHome, Goto, shared, AllInv, TxInv
  <2>2. Typed(seen'[w]) /\ DOMAIN seen'[w] = DOMAIN seen[w] \union LoadedTable(w)
    BY <1>2, <2>1, SelectTyped
  <2>3. pc'[w] = "act" => DOMAIN seen'[w] = Cell
    BY <1>1, <2>1, <2>2 DEF Unread, SessionInv
  <2>. QED
    BY <1>1, <2>1, <2>2, <2>3 DEF CellInv, ActionInv, Typed
<1>10. CASE Act(w)
  <2> DEFINE change == NetChange(seen[w], Cells(Outcome(w).topology))
  <2>1. /\ pc[w] = "act" /\ pc'[w] = "flush" /\ dirty'[w] = change /\ Outcome(w).ok
        /\ UNCHANGED <<home, lock, request, seen, written>>
    BY <1>10 DEF Act, Goto, shared, AllInv, TxInv
  <2>2. DOMAIN seen[w] = Cell /\ Typed(seen[w]) /\ request[w].verb \in Verbs
    BY <1>1, <2>1 DEF CellInv, PlaceInv
  <2>3. \A c \in Cell : Cells(Outcome(w).topology)[c] \in ValuesOf(c[2])
    BY <2>1, <2>2, OutcomeTyped
  <2>4. Typed(change) /\ DOMAIN change \subseteq DOMAIN seen[w]
    BY <2>2, <2>3 DEF NetChange, Typed
  <2>5. Outcome(w)' = Outcome(w)
    BY <2>1 DEF Outcome
  <2>6. NetChange(seen[w], Cells(Outcome(w).topology))' = change
    BY <2>1, <2>5 DEF NetChange
  <2>. HIDE DEF change
  <2>7. DOMAIN written'[w] = {}
    BY <1>1, <2>1 DEF CleanInv
  <2>8. CellInv(w)'
    BY <1>1, <2>1, <2>4, <2>7 DEF CellInv, Typed
  <2>9. ActionInv(w)'
    BY <2>1, <2>2, <2>5, <2>6, <2>7 DEF ActionInv
  <2>. QED
    BY <1>1, <2>1, <2>8, <2>9
<1>11. CASE CommitAction(w)
  <2>1. /\ Publish(w) /\ pc'[w] = "answer" /\ UNCHANGED <<seen, dirty, written>>
    BY <1>11 DEF CommitAction, Goto, AllInv, TxInv
  <2>2. Typed(home')
    BY <2>1, PublishTyped
  <2>. QED
    BY <1>1, <2>1, <2>2 DEF CellInv, ActionInv, Typed
<1>12. CASE RefuseAction(w) \/ Answer(w) \/ RollBack(w)
  <2>1. Finish(w) /\ home' = home
    BY <1>12 DEF RefuseAction, Answer, RollBack, shared
  <2>2. pc'[w] = "idle" /\ seen'[w] = None /\ written'[w] = None /\ dirty'[w] = None
    BY <2>1 DEF Finish, Goto, AllInv, TxInv, TakeInv
  <2>. QED
    BY <1>1, <2>1, <2>2, IdleTyped, NoneTyped
<1>. QED
  BY <1>3, <1>4, <1>5, <1>6, <1>7, <1>8, <1>9, <1>10, <1>11, <1>12 DEF Serve

\* All the invariants hold in every reachable state.
LEMMA Invariants == Spec => []AllInv
<1>1. AllInv /\ [Next]_vars => TypesInv'
  <2>. SUFFICES ASSUME AllInv, [Next]_vars
                PROVE  TypesInv'
    OBVIOUS
  <2>1. CASE UNCHANGED vars
    <3>1. /\ UNCHANGED <<home, feed, lock, pc, request, seen, dirty>>
          /\ UNCHANGED <<written, doomed, takes, since>>
      BY <2>1 DEF vars
    <3>2. BookInv' /\ Typed(home')
      BY <3>1 DEF AllInv, TypesInv, BookInv
    <3>3. ASSUME NEW w \in Worker
          PROVE  CellInv(w)' /\ ActionInv(w)'
      <4>1. CellInv(w) /\ ActionInv(w)
        BY DEF AllInv, TypesInv
      <4>2. Outcome(w)' = Outcome(w)
        BY <3>1 DEF Outcome
      <4>3. CellInv(w)'
        BY <3>1, <4>1 DEF CellInv
      <4>4. ActionInv(w)'
        BY <3>1, <4>1, <4>2 DEF ActionInv, NetChange
      <4>. QED
        BY <4>3, <4>4
    <3>. QED
      BY <3>2, <3>3 DEF TypesInv
  <2>2. ASSUME NEW w \in Worker, Request(w) \/ Serve(w) \/ RollBack(w)
        PROVE  TypesInv'
    <3>1. Aside(w)
      BY <2>2, StepAside DEF AllInv
    <3>. QED
      BY <2>2, <3>1, StepBook, StepCells, TypedBystanders
  <2>. QED
    BY <2>1, <2>2 DEF Next, Crash, AbortDeadlock
<1>2. Init => TypesInv
  BY InitTypes
<1>. QED
  BY <1>1, <1>2, TakeInvariant, PTL DEF Spec, AllInv

\* For any workers, home, packs and calls: no interleaving leaves a home the
\* tables forbid, and a transaction's writes are locked by it until it commits.
THEOREM TypesKept == Spec => []TypeOK
<1>1. AllInv => TypeOK
  <2>. SUFFICES ASSUME AllInv
                PROVE  TypeOK
    OBVIOUS
  <2>1. IsTopology(Topology(home))
    BY TypedTopology DEF AllInv, TypesInv, TakeInv, Typed
  <2>2. BookInv
    BY DEF AllInv, TypesInv
  <2>3. \A w \in Worker : CellInv(w) /\ SessionInv(w)
    BY DEF AllInv, TypesInv, TxInv
  <2>. QED
    BY <2>1, <2>2, <2>3 DEF TypeOK, BookInv, CellInv, SessionInv, Event
<1>. QED
  BY <1>1, Invariants, PTL

----------------------------------------------------------------------------
(* Device-actions *)

\* A device-action commits what its verb changed, over whatever the home holds.
LEMMA CommitIsChange ==
    ASSUME AllInv, NEW w \in Worker, CommitAction(w)
    PROVE  /\ Typed(seen[w]) /\ DOMAIN seen[w] = Cell /\ Outcome(w).ok
           /\ request[w].verb \in Verbs
           /\ \A c \in Cell :
                  \/ home'[c] = home[c] /\ seen[w][c] = Cells(Outcome(w).topology)[c]
                  \/ /\ home'[c] = Cells(Outcome(w).topology)[c]
                     /\ seen[w][c] # Cells(Outcome(w).topology)[c]
           /\ \A c \in Cell : c[1] # request[w].target => home'[c] = home[c]
<1> DEFINE after == Cells(Outcome(w).topology)
           change == NetChange(seen[w], after)
<1>1. /\ pc[w] = "flush" /\ DOMAIN dirty[w] = {} /\ request[w].kind = "action" /\ Publish(w)
  BY DEF CommitAction, Flushed
<1>2. CellInv(w) /\ ActionInv(w) /\ PlaceInv(w) /\ SessionInv(w) /\ DOMAIN home = Cell
  BY DEF AllInv, TypesInv, TxInv, TakeInv
<1>3. /\ Typed(seen[w]) /\ DOMAIN seen[w] = Cell /\ Outcome(w).ok
      /\ request[w].verb \in Verbs
      /\ DOMAIN change = DOMAIN written[w]
      /\ \A c \in DOMAIN written[w] : written[w][c] = change[c]
  BY <1>1, <1>2 DEF CellInv, ActionInv, PlaceInv
<1>4. \A c \in DOMAIN change : c[1] = request[w].target
  BY <1>2, <1>3, OneRowToFlush DEF SessionInv
<1>5. /\ \A c \in DOMAIN change : change[c] = after[c] /\ seen[w][c] # after[c]
      /\ \A c \in Cell : c \notin DOMAIN change => seen[w][c] = after[c]
  BY <1>3 DEF NetChange
<1>. HIDE DEF change, after
<1>6. home' = [c \in Cell |-> IF c \in DOMAIN written[w] THEN written[w][c] ELSE home[c]]
  BY <1>1, <1>2 DEF Publish, Overlaid
<1>7. \A c \in Cell : \/ home'[c] = home[c] /\ seen[w][c] = after[c]
                      \/ home'[c] = after[c] /\ seen[w][c] # after[c]
  BY <1>3, <1>5, <1>6
<1>8. \A c \in Cell : c[1] # request[w].target => home'[c] = home[c]
  BY <1>3, <1>4, <1>6
<1>. QED
  BY <1>3, <1>7, <1>8 DEF after

\* What detectors read of a topology is in its cells.
LEMMA TopologyCells ==
    ASSUME NEW h
    PROVE  /\ Topology(h).gateway = h[<<GatewayId, "wan_status">>]
           /\ DOMAIN Topology(h).access_points = DOMAIN Baseline.access_points
           /\ DOMAIN Topology(h).devices = DOMAIN Baseline.devices
           /\ \A a \in DOMAIN Baseline.access_points :
                  /\ Topology(h).access_points[a].status = h[<<a, "status">>]
                  /\ Topology(h).access_points[a].backhaul_quality = h[<<a, "backhaul_quality">>]
                  /\ Topology(h).access_points[a].kind = Baseline.access_points[a].kind
                  /\ Topology(h).access_points[a].radios = Baseline.access_points[a].radios
           /\ \A d \in DOMAIN Baseline.devices :
                  /\ Topology(h).devices[d].band = h[<<d, "band">>]
                  /\ Topology(h).devices[d].rssi = h[<<d, "rssi">>]
                  /\ Topology(h).devices[d].connected_ap_id = Baseline.devices[d].connected_ap_id
                  /\ Topology(h).devices[d].steer_eligible = Baseline.devices[d].steer_eligible
<1>1. \A a \in DOMAIN Baseline.access_points : Baseline.access_points[a] \in ApRow
  BY StageAssumption DEF IsTopology
<1>2. \A d \in DOMAIN Baseline.devices : Baseline.devices[d] \in DeviceRow
  BY StageAssumption DEF IsTopology
<1>. QED
  BY <1>1, <1>2 DEF Topology, ApRow, DeviceRow

\* The cells a verb sets, read from the topology it leaves.
LEMMA VerbCells ==
    ASSUME NEW t, DOMAIN t.access_points = DOMAIN Baseline.access_points,
           DOMAIN t.devices = DOMAIN Baseline.devices
    PROVE  /\ \A a \in DOMAIN Baseline.access_points :
                  /\ Cells(t)[<<a, "status">>] = t.access_points[a].status
                  /\ Cells(t)[<<a, "backhaul_quality">>] = t.access_points[a].backhaul_quality
           /\ \A d \in DOMAIN Baseline.devices :
                  Cells(t)[<<d, "band">>] = t.devices[d].band
<1>1. /\ GatewayId \notin DOMAIN Baseline.access_points \union DOMAIN Baseline.devices
      /\ DOMAIN Baseline.access_points \intersect DOMAIN Baseline.devices = {}
  BY StageAssumption DEF IsTopology
<1>2. ASSUME NEW a \in DOMAIN Baseline.access_points, NEW f \in {"status", "backhaul_quality"}
      PROVE  Cells(t)[<<a, f>>] = t.access_points[a][f]
  <2>1. <<a, f>> \in Cell
    BY NamedCells
  <2>. QED
    BY <1>1, <2>1 DEF Cells
<1>3. ASSUME NEW d \in DOMAIN Baseline.devices
      PROVE  Cells(t)[<<d, "band">>] = t.devices[d]["band"]
  <2>1. <<d, "band">> \in Cell
    BY NamedCells
  <2>. QED
    BY <1>1, <2>1 DEF Cells
<1>. QED
  BY <1>2, <1>3

\* A device-action commits no fault that was not there, however stale the rows
\* its verb has worked on.
LEMMA CommitHeals ==
    ASSUME AllInv, NEW w \in Worker, CommitAction(w)
    PROVE  DetectAll(Topology(home')) \subseteq DetectAll(Topology(home))
<1> DEFINE t == Topology(home)
           u == Topology(home')
           s == Topology(seen[w])
           r == Outcome(w).topology
           target == request[w].target
<1>1. /\ Typed(seen[w]) /\ DOMAIN seen[w] = Cell /\ Outcome(w).ok
      /\ request[w].verb \in Verbs
      /\ \A c \in Cell : \/ home'[c] = home[c] /\ seen[w][c] = Cells(r)[c]
                         \/ home'[c] = Cells(r)[c] /\ seen[w][c] # Cells(r)[c]
      /\ \A c \in Cell : c[1] # target => home'[c] = home[c]
  BY CommitIsChange
<1>2. /\ IsTopology(s)
      /\ DOMAIN s.access_points = DOMAIN Baseline.access_points
      /\ DOMAIN s.devices = DOMAIN Baseline.devices
      /\ \A c \in Cell : Cells(s)[c] = seen[w][c]
  BY <1>1, TypedTopology, TopologyCells, RoundTrip DEF Typed
<1>3. Outcome(w) = RunVerb(s, request[w].verb, target, NoBand)
  BY DEF Outcome
<1>. HIDE DEF s
<1>4. \/ r = s
      \/ /\ target \in DOMAIN s.devices /\ s.devices[target].band # Config.steer_target_band
         /\ r = Steered(s, target, NoBand)
      \/ /\ target \in DOMAIN s.access_points
         /\ \E quality \in PgInteger : /\ quality > Config.poor_backhaul_quality
                                        /\ r = Rebooted(s, target, quality)
  <2>1. CASE request[w].verb = "band-steer"
    BY <1>1, <1>3, <2>1 DEF RunVerb, BandSteer, Accepted, Refused, Verbs, SteerBand
  <2>2. CASE request[w].verb \in {"reboot-extender", "reboot-ap"}
    BY <1>1, <1>2, <1>3, <2>2, RebootVerbs
  <2>. QED
    BY <1>1, <2>1, <2>2 DEF Verbs
<1>5. ASSUME target # GatewayId,
             \A a \in DOMAIN Baseline.access_points :
                 a \in UnhealthyExtenders(u) => a \in UnhealthyExtenders(t),
             \A d \in DOMAIN Baseline.devices : d \in StuckDevices(u) => d \in StuckDevices(t)
      PROVE  DetectAll(u) \subseteq DetectAll(t)
  <2>1. u.gateway = t.gateway
    BY <1>1, <1>5, TopologyCells, NamedCells
  <2>2. /\ UnhealthyExtenders(u) \subseteq DOMAIN Baseline.access_points
        /\ StuckDevices(u) \subseteq DOMAIN Baseline.devices
    BY TopologyCells DEF UnhealthyExtenders, Extenders, StuckDevices
  <2>. QED
    BY <1>5, <2>1, <2>2, FewerFaults
<1>6. /\ DOMAIN t.access_points = DOMAIN Baseline.access_points
       /\ DOMAIN u.access_points = DOMAIN Baseline.access_points
       /\ \A a \in DOMAIN Baseline.access_points :
              /\ t.access_points[a].status = home[<<a, "status">>]
              /\ t.access_points[a].backhaul_quality = home[<<a, "backhaul_quality">>]
              /\ u.access_points[a].status = home'[<<a, "status">>]
              /\ u.access_points[a].backhaul_quality = home'[<<a, "backhaul_quality">>]
              /\ u.access_points[a].kind = t.access_points[a].kind
              /\ u.access_points[a].radios = t.access_points[a].radios
  <2>1. \A h : /\ DOMAIN Topology(h).access_points = DOMAIN Baseline.access_points
               /\ \A a \in DOMAIN Baseline.access_points :
                      /\ Topology(h).access_points[a].status = h[<<a, "status">>]
                      /\ Topology(h).access_points[a].backhaul_quality =
                             h[<<a, "backhaul_quality">>]
                      /\ Topology(h).access_points[a].kind = Baseline.access_points[a].kind
                      /\ Topology(h).access_points[a].radios = Baseline.access_points[a].radios
    BY TopologyCells
  <2>. QED
    BY <2>1
<1>7. ASSUME NEW a \in DOMAIN Baseline.access_points,
             home'[<<a, "status">>] \in {home[<<a, "status">>], "online"},
             \/ home'[<<a, "backhaul_quality">>] = home[<<a, "backhaul_quality">>]
             \/ ~ (home'[<<a, "backhaul_quality">>] <= Config.poor_backhaul_quality),
             a \in UnhealthyExtenders(u)
      PROVE  a \in UnhealthyExtenders(t)
  <2>. HIDE DEF t, u
  <2>. QED
    BY <1>7, <1>6, ConfigHeals DEF UnhealthyExtenders, Extenders
<1>8. \A a : BandsOn(u, a) = BandsOn(t, a)
  <2>. HIDE DEF t, u
  <2>. QED
    BY <1>6 DEF BandsOn
<1>9. ASSUME NEW d \in DOMAIN Baseline.devices,
             \/ home'[<<d, "band">>] = Config.steer_target_band
             \/ /\ home'[<<d, "band">>] = home[<<d, "band">>]
                /\ home'[<<d, "rssi">>] = home[<<d, "rssi">>],
             d \in StuckDevices(u)
      PROVE  d \in StuckDevices(t)
  BY <1>8, <1>9, TopologyCells DEF StuckDevices
<1>. HIDE DEF t, u, r
<1>10. CASE r = s
  <2>1. \A c \in Cell : home'[c] = home[c]
    BY <1>1, <1>2, <1>10
  <2>2. Topology(home') = Topology(home)
    BY <2>1, NamedCells DEF Topology
  <2>. QED
    BY <2>2
<1>11. CASE /\ target \in DOMAIN s.devices /\ s.devices[target].band # Config.steer_target_band
            /\ r = Steered(s, target, NoBand)
  <2>1. /\ DOMAIN r.access_points = DOMAIN Baseline.access_points
        /\ DOMAIN r.devices = DOMAIN Baseline.devices
        /\ r.devices[target].band = Config.steer_target_band
    <3> DEFINE row == [s.devices[target] EXCEPT !.band = SteerBand(NoBand),
                                                !.rssi = SteeredRssi(s.devices[target].rssi)]
    <3>1. r = [gateway |-> s.gateway, access_points |-> s.access_points,
               devices |-> [s.devices EXCEPT ![target] = row]]
      BY <1>2, <1>11, SteeredRows
    <3>2. row.band = Config.steer_target_band
      BY <1>2, <1>11 DEF IsTopology, DeviceRow, SteerBand
    <3>. HIDE DEF row
    <3>. QED
      BY <1>2, <1>11, <3>1, <3>2
  <2>2. home'[<<target, "band">>] = Config.steer_target_band
    <3>1. Cells(r)[<<target, "band">>] = Config.steer_target_band
      BY <1>2, <1>11, <2>1, VerbCells
    <3>2. seen[w][<<target, "band">>] = s.devices[target].band /\ <<target, "band">> \in Cell
      BY <1>2, <1>11, VerbCells, NamedCells
    <3>. QED
      BY <1>1, <1>11, <3>1, <3>2
  <2>3. /\ target # GatewayId /\ target \notin DOMAIN Baseline.access_points
    BY <1>2, <1>11 DEF IsTopology
  <2>4. \A a \in DOMAIN Baseline.access_points :
            /\ home'[<<a, "status">>] = home[<<a, "status">>]
            /\ home'[<<a, "backhaul_quality">>] = home[<<a, "backhaul_quality">>]
    BY <1>1, <2>3, NamedCells
  <2>5. \A d \in DOMAIN Baseline.devices \ {target} :
            /\ home'[<<d, "band">>] = home[<<d, "band">>]
            /\ home'[<<d, "rssi">>] = home[<<d, "rssi">>]
    BY <1>1, NamedCells
  <2>. QED
    BY <1>5, <1>7, <1>9, <2>2, <2>3, <2>4, <2>5 DEF t, u
<1>12. ASSUME target \in DOMAIN s.access_points,
              NEW quality \in PgInteger, quality > Config.poor_backhaul_quality,
              r = Rebooted(s, target, quality)
       PROVE  DetectAll(u) \subseteq DetectAll(t)
  <2>1. /\ DOMAIN r.access_points = DOMAIN Baseline.access_points
        /\ DOMAIN r.devices = DOMAIN Baseline.devices
        /\ r.access_points[target].status = "online"
        /\ r.access_points[target].backhaul_quality = quality
    <3> DEFINE row == [s.access_points[target] EXCEPT !.status = "online",
                                                      !.backhaul_quality = quality]
    <3>1. r = [gateway |-> s.gateway,
               access_points |-> [s.access_points EXCEPT ![target] = row],
               devices |-> s.devices]
      BY <1>2, <1>12, RebootedRows
    <3>2. row.status = "online" /\ row.backhaul_quality = quality
      BY <1>2, <1>12 DEF IsTopology, ApRow
    <3>. HIDE DEF row
    <3>. QED
      BY <1>2, <1>12, <3>1, <3>2
  <2>2. /\ home'[<<target, "status">>] \in {home[<<target, "status">>], "online"}
        /\ home'[<<target, "backhaul_quality">>] \in
               {home[<<target, "backhaul_quality">>], quality}
    <3>1. /\ Cells(r)[<<target, "status">>] = "online"
          /\ Cells(r)[<<target, "backhaul_quality">>] = quality
      BY <1>2, <1>12, <2>1, VerbCells
    <3>2. <<target, "status">> \in Cell /\ <<target, "backhaul_quality">> \in Cell
      BY <1>2, <1>12, NamedCells
    <3>. QED
      BY <1>1, <3>1, <3>2
  <2>3. ~ (quality <= Config.poor_backhaul_quality)
    <3>1. quality \in Int /\ Config.poor_backhaul_quality \in Int
      BY ConfigType DEF PgInteger
    <3>. QED
      BY <1>12, <3>1
  <2>4. target # GatewayId /\ target \notin DOMAIN Baseline.devices
    BY <1>2, <1>12 DEF IsTopology
  <2>5. \A a \in DOMAIN Baseline.access_points \ {target} :
            /\ home'[<<a, "status">>] = home[<<a, "status">>]
            /\ home'[<<a, "backhaul_quality">>] = home[<<a, "backhaul_quality">>]
    BY <1>1, NamedCells
  <2>6. \A d \in DOMAIN Baseline.devices :
            /\ home'[<<d, "band">>] = home[<<d, "band">>]
            /\ home'[<<d, "rssi">>] = home[<<d, "rssi">>]
    BY <1>1, <2>4, NamedCells
  <2>. QED
    BY <1>5, <1>7, <1>9, <2>2, <2>3, <2>4, <2>5, <2>6
<1>. QED
  BY <1>4, <1>10, <1>11, <1>12 DEF t, u

\* For any workers, home, packs and calls: whatever is committed between the
\* load and the commit of a device-action, it commits no new fault type.
THEOREM ActionsHeal == Spec => ActionsOnlyHeal
<1> DEFINE Heals == \A w \in Worker : CommitAction(w) =>
                        DetectAll(Topology(home')) \subseteq DetectAll(Topology(home))
<1>1. AllInv /\ [Next]_vars => [Heals]_vars
  BY CommitHeals
<1>. QED
  BY <1>1, Invariants, PTL DEF Spec, ActionsOnlyHeal

----------------------------------------------------------------------------
(* What a request goes by *)

\* What a device-action has loaded is committed, or others have changed it since;
\* and after its commit, with its own writes over it.  What telemetry has loaded of
\* the rows its apply has locked is what the apply commits.
ReadInv(w) ==
    /\ request[w].kind = "action" /\ pc[w] \in {"load", "act", "flush"} =>
           \A c \in DOMAIN seen[w] : home[c] = seen[w][c] \/ c \in since[w]
    /\ pc[w] = "answer" =>
           /\ DOMAIN seen[w] = Cell
           /\ \A c \in Cell : home[c] = Reread(w)[c] \/ c \in since[w]
    /\ Staging(w) =>
           /\ DOMAIN seen[w] # {} => StepsLeft(w) = {}
           /\ pc[w] = "emit" => DOMAIN seen[w] = Cell
           /\ \A c \in DOMAIN seen[w] : lock[c[1]] = w =>
                  seen[w][c] = IF c \in DOMAIN written[w] THEN written[w][c] ELSE home[c]

ReadsInv == \A w \in Worker : ReadInv(w)

\* A step commits cells of rows its worker has locked, and no others.
LEMMA CommitsItsRows ==
    ASSUME AllInv, NEW w \in Worker, Request(w) \/ Serve(w) \/ RollBack(w)
    PROVE  \A c \in Cell : home'[c] = home[c] \/ lock[c[1]] = w
<1>1. /\ DOMAIN home = Cell
      /\ pc[w] # "answer" => \A c \in DOMAIN written[w] : lock[c[1]] = w
  BY DEF AllInv, TypesInv, CellInv, TakeInv
<1>2. CASE pc[w] # "answer" /\ Publish(w)
  BY <1>1, <1>2 DEF Publish, Overlaid
<1>3. CASE UNCHANGED home
  BY <1>3
<1>. QED
  BY <1>2, <1>3 DEF Request, RequestReset, RequestApply, RequestAction, Serve, Merge, Flush,
                    DeleteEvents, LockEvents, CommitReset, Stage, LoadStaged, CommitApply,
                    LoadHome, RefuseAction, Act, CommitAction, Flushed, Answer, RollBack, shared

\* A step of one worker takes nothing from what another goes by.
LEMMA ReadBystanders ==
    ASSUME AllInv, ReadsInv, NEW w \in Worker, Request(w) \/ Serve(w) \/ RollBack(w),
           ReadInv(w)'
    PROVE  ReadsInv'
<1>1. Aside(w)
  BY StepAside DEF AllInv
<1>2. ASSUME NEW v \in Worker \ {w}
      PROVE  ReadInv(v)'
  <2>1. /\ pc'[v] = pc[v] /\ request'[v] = request[v] /\ seen'[v] = seen[v]
        /\ dirty'[v] = dirty[v] /\ written'[v] = written[v]
        /\ since[v] \subseteq since'[v]
        /\ \A c \in Relied(v) : home'[c] = home[c] \/ c \in since'[v]
    BY <1>1 DEF Aside
  <2>2. ReadInv(v) /\ SessionInv(v) /\ PlaceInv(v)
    BY DEF ReadsInv, AllInv, TxInv
  <2>3. ~Staging(v) => Relied(v) = DOMAIN seen[v]
    BY DEF Staging, Relied
  <2>4. Reread(v)' = Reread(v)
    BY <2>1 DEF Reread
  <2>5. \A r \in Row : lock'[r] = v <=> lock[r] = v
    BY <1>1, StageAssumption DEF Aside
  <2>6. ASSUME Staging(v)
        PROVE  /\ StepsLeft(v)' = StepsLeft(v)
               /\ \A c \in DOMAIN seen[v] : lock'[c[1]] = v =>
                      lock[c[1]] = v /\ home'[c] = home[c]
    <3>1. Steps(v)' = Steps(v)
      BY <2>1 DEF Steps
    <3>2. \A i \in DOMAIN Steps(v) : Steps(v)[i].row \in Row
      BY <2>2, <2>6, StageAssumption DEF Staging, PlaceInv, Steps, IsPack
    <3>3. StepsLeft(v)' = StepsLeft(v)
      BY <2>5, <3>1, <3>2 DEF StepsLeft
    <3>4. \A c \in DOMAIN seen[v] : c \in Cell /\ c[1] \in Row
      BY <2>2, CellsOfRow DEF SessionInv
    <3>5. \A c \in Cell : home'[c] = home[c] \/ lock[c[1]] = w
      BY CommitsItsRows
    <3>. QED
      BY <2>5, <3>3, <3>4, <3>5
  <2>7. Staging(v)' = Staging(v)
    BY <2>1 DEF Staging
  <2>8. ASSUME Staging(v)
        PROVE  ReadInv(v)'
    BY <2>1, <2>2, <2>6, <2>7, <2>8 DEF ReadInv, Staging
  <2>9. ASSUME ~Staging(v)
        PROVE  ReadInv(v)'
    BY <2>1, <2>2, <2>3, <2>4, <2>7, <2>9 DEF ReadInv
  <2>. QED
    BY <2>8, <2>9
<1>. QED
  BY <1>2 DEF ReadsInv

\* A worker's own step keeps what it goes by.
LEMMA StepReads ==
    ASSUME AllInv, NEW w \in Worker, ReadInv(w), Request(w) \/ Serve(w) \/ RollBack(w)
    PROVE  ReadInv(w)'
<1>1. /\ CellInv(w) /\ ActionInv(w) /\ PlaceInv(w) /\ SessionInv(w) /\ CleanInv(w)
      /\ DOMAIN home = Cell /\ DOMAIN pc = Worker /\ DOMAIN seen = Worker
      /\ DOMAIN since = Worker
  BY DEF AllInv, TypesInv, TxInv, TakeInv, WorkInv
<1>2. ASSUME DOMAIN seen'[w] = {}, pc'[w] \notin {"answer", "emit"}
      PROVE  ReadInv(w)'
  BY <1>2 DEF ReadInv
<1>3. ASSUME pc'[w] \notin {"load", "act", "flush", "answer", "stage", "emit"}
      PROVE  ReadInv(w)'
  BY <1>3 DEF ReadInv, Staging
<1>4. CASE Request(w)
  <2>1. pc[w] = "idle" /\ pc'[w] \in {"merge", "stage", "load"} /\ seen' = seen
    BY <1>1, <1>4 DEF Request, RequestReset, RequestApply, RequestAction, Goto, shared
  <2>. QED
    BY <1>1, <1>2, <2>1 DEF CleanInv
<1>5. CASE Merge(w)
  <2>1. pc'[w] \in {"merge", "flush"} /\ request[w].kind # "action" /\ request' = request
    BY <1>1, <1>5 DEF Merge, Goto, PlaceInv
  <2>. QED
    BY <2>1 DEF ReadInv, Staging
<1>6. CASE Flush(w)
  <2>1. pc[w] = "flush" /\ UNCHANGED <<home, pc, request, seen, since>>
    BY <1>6 DEF Flush
  <2>. QED
    BY <2>1 DEF ReadInv, Staging
<1>7. CASE DeleteEvents(w) \/ LockEvents(w)
  <2>1. pc'[w] \in {"lock_events", "reset"}
    BY <1>1, <1>7 DEF DeleteEvents, LockEvents, Goto
  <2>. QED
    BY <1>3, <2>1
<1>8. CASE CommitReset(w) \/ CommitApply(w)
  <2>1. seen'[w] = None /\ pc'[w] \in {"idle", "stage"}
    BY <1>1, <1>8 DEF CommitReset, CommitApply, Goto
  <2>. QED
    BY <1>2, <2>1 DEF None
<1>9. CASE Stage(w)
  <2>1. /\ pc[w] = "stage" /\ StepsLeft(w) # {}
        /\ pc' = pc /\ seen' = seen
    BY <1>9 DEF Stage
  <2>2. DOMAIN seen[w] = {}
    BY <2>1 DEF ReadInv, Staging
  <2>. QED
    BY <1>2, <2>1, <2>2
<1>10. CASE LoadStaged(w)
  <2> DEFINE cells == LoadedTable(w)
             value(c) == IF c \in DOMAIN written[w] THEN written[w][c] ELSE home[c]
  <2>1. /\ pc[w] = "stage" /\ StepsLeft(w) = {} /\ pc'[w] \in {"stage", "emit"}
        /\ pc'[w] = "emit" => Unread(w) = cells
        /\ seen'[w] = Joined(seen[w], Loaded(w, cells))
        /\ UNCHANGED <<home, lock, request, written>>
    BY <1>1, <1>10 DEF LoadStaged, Goto, Select, shared
  <2>2. DOMAIN Loaded(w, cells) = cells /\ \A c \in cells : Loaded(w, cells)[c] = value(c)
    BY DEF Loaded
  <2>. HIDE DEF cells
  <2>3. /\ DOMAIN seen'[w] = DOMAIN seen[w] \union cells
        /\ \A c \in cells : seen'[w][c] = value(c)
        /\ \A c \in DOMAIN seen[w] \ cells : seen'[w][c] = seen[w][c]
    BY <2>1, <2>2 DEF Joined
  <2>4. pc'[w] = "emit" => DOMAIN seen'[w] = Cell
    BY <1>1, <2>1, <2>3 DEF Unread, SessionInv
  <2>5. StepsLeft(w)' = {}
    BY <2>1 DEF StepsLeft, Steps
  <2>6. \A c \in DOMAIN seen'[w] : lock[c[1]] = w => seen'[w][c] = value(c)
    BY <2>1, <2>3 DEF ReadInv, Staging
  <2>. QED
    BY <2>1, <2>4, <2>5, <2>6 DEF ReadInv
<1>11. CASE LoadHome(w)
  <2> DEFINE cells == LoadedTable(w)
  <2>1. /\ pc[w] = "load" /\ pc'[w] \in {"load", "act"}
        /\ seen'[w] = Joined(seen[w], Loaded(w, cells))
        /\ UNCHANGED <<home, request, since>>
    BY <1>1, <1>11 DEF LoadHome, Goto, Select, shared
  <2>2. DOMAIN written[w] = {} /\ request[w].kind = "action"
    BY <1>1, <2>1 DEF CleanInv, PlaceInv
  <2>3. DOMAIN Loaded(w, cells) = cells /\ \A c \in cells : Loaded(w, cells)[c] = home[c]
    BY <2>2 DEF Loaded
  <2>. HIDE DEF cells
  <2>4. /\ DOMAIN seen'[w] = DOMAIN seen[w] \union cells
        /\ \A c \in cells : seen'[w][c] = home[c]
        /\ \A c \in DOMAIN seen[w] \ cells : seen'[w][c] = seen[w][c]
    BY <2>1, <2>3 DEF Joined
  <2>5. \A c \in DOMAIN seen'[w] : home[c] = seen'[w][c] \/ c \in since[w]
    BY <2>1, <2>2, <2>4 DEF ReadInv
  <2>. QED
    BY <2>1, <2>5 DEF ReadInv, Staging
<1>12. CASE Act(w)
  <2>1. pc[w] = "act" /\ pc'[w] = "flush" /\ UNCHANGED <<home, request, seen, since>>
    BY <1>1, <1>12 DEF Act, Goto, shared
  <2>2. request[w].kind = "action"
    BY <1>1, <2>1 DEF PlaceInv
  <2>. QED
    BY <2>1, <2>2 DEF ReadInv, Staging
<1>13. CASE CommitAction(w)
  <2>1. /\ pc[w] = "flush" /\ request[w].kind = "action" /\ pc'[w] = "answer"
        /\ home' = Overlaid(home, written[w])
        /\ UNCHANGED <<seen, written>>
        /\ since' = News(w)
    BY <1>1, <1>13 DEF CommitAction, Flushed, Publish, Goto
  <2>2. since'[w] = since[w]
    BY <2>1 DEF News
  <2>3. /\ DOMAIN seen[w] = Cell
        /\ \A c \in Cell : home[c] = seen[w][c] \/ c \in since[w]
    BY <1>1, <2>1 DEF ActionInv, ReadInv
  <2>4. Reread(w)' = Overlaid(seen[w], written[w])
    BY <2>1 DEF Reread
  <2>5. /\ \A c \in Cell : home'[c] =
               IF c \in DOMAIN written[w] THEN written[w][c] ELSE home[c]
        /\ \A c \in Cell : Overlaid(seen[w], written[w])[c] =
               IF c \in DOMAIN written[w] THEN written[w][c] ELSE seen[w][c]
    BY <1>1, <2>1, <2>3 DEF Overlaid
  <2>6. \A c \in Cell : home'[c] = Reread(w)'[c] \/ c \in since'[w]
    BY <2>2, <2>3, <2>4, <2>5
  <2>. QED
    BY <2>1, <2>3, <2>6 DEF ReadInv, Staging
<1>14. CASE RefuseAction(w) \/ Answer(w) \/ RollBack(w)
  <2>1. pc'[w] = "idle"
    BY <1>1, <1>14 DEF RefuseAction, Answer, RollBack, Finish, Goto
  <2>. QED
    BY <1>3, <2>1
<1>. QED
  BY <1>4, <1>5, <1>6, <1>7, <1>8, <1>9, <1>10, <1>11, <1>12, <1>13, <1>14 DEF Serve

LEMMA ReadsInvariant == Spec => [](AllInv /\ ReadsInv)
<1>1. Init => ReadsInv
  <2>. SUFFICES ASSUME Init
                PROVE  ReadsInv
    OBVIOUS
  <2>1. \A w \in Worker : pc[w] = "idle"
    BY DEF Init
  <2>. QED
    BY <2>1 DEF ReadsInv, ReadInv, Staging
<1>2. AllInv /\ ReadsInv /\ [Next]_vars => ReadsInv'
  <2>. SUFFICES ASSUME AllInv, ReadsInv, [Next]_vars
                PROVE  ReadsInv'
    OBVIOUS
  <2>1. ASSUME NEW w \in Worker, Request(w) \/ Serve(w) \/ RollBack(w)
        PROVE  ReadsInv'
    BY <2>1, StepReads, ReadBystanders DEF ReadsInv
  <2>2. CASE UNCHANGED vars
    BY <2>2 DEF vars, ReadsInv, ReadInv, Staging, StepsLeft, Steps, Reread
  <2>. QED
    BY <2>1, <2>2 DEF Next, Crash, AbortDeadlock
<1>. QED
  BY <1>1, <1>2, Invariants, PTL DEF Spec

\* The rows a fault shows on, detector by detector.
LEMMA EvidenceOf ==
    ASSUME NEW t
    PROVE  /\ Evidence(t, "wan_degraded") = {GatewayId}
           /\ Evidence(t, "device_band_stuck") = StuckDevices(t)
           /\ Evidence(t, "extender_flapping") = UnhealthyExtenders(t)
BY Zenon DEF Evidence

\* Whether a fault shows on a row is a matter of the row's own cells.
LEMMA EvidenceIsLocal ==
    ASSUME NEW h, NEW g, NEW r, \A c \in Cell : c[1] = r => g[c] = h[c],
           NEW f \in DetectAll(Topology(h)), r \in Evidence(Topology(h), f)
    PROVE  f \in DetectAll(Topology(g)) /\ r \in Row
<1> DEFINE t == Topology(h)
           u == Topology(g)
<1>1. /\ DOMAIN u.access_points = DOMAIN t.access_points
      /\ \A a \in DOMAIN t.access_points :
             /\ t.access_points[a].status = h[<<a, "status">>]
             /\ t.access_points[a].backhaul_quality = h[<<a, "backhaul_quality">>]
             /\ u.access_points[a].status = g[<<a, "status">>]
             /\ u.access_points[a].backhaul_quality = g[<<a, "backhaul_quality">>]
             /\ u.access_points[a].kind = t.access_points[a].kind
             /\ u.access_points[a].radios = t.access_points[a].radios
      /\ DOMAIN u.devices = DOMAIN t.devices
      /\ \A d \in DOMAIN t.devices :
             /\ t.devices[d].band = h[<<d, "band">>]
             /\ t.devices[d].rssi = h[<<d, "rssi">>]
             /\ u.devices[d].band = g[<<d, "band">>]
             /\ u.devices[d].rssi = g[<<d, "rssi">>]
             /\ u.devices[d].connected_ap_id = t.devices[d].connected_ap_id
             /\ u.devices[d].steer_eligible = t.devices[d].steer_eligible
  <2> DEFINE shape(x, y) ==
          /\ DOMAIN x.access_points = DOMAIN Baseline.access_points
          /\ \A a \in DOMAIN Baseline.access_points :
                 /\ x.access_points[a].status = y[<<a, "status">>]
                 /\ x.access_points[a].backhaul_quality = y[<<a, "backhaul_quality">>]
                 /\ x.access_points[a].kind = Baseline.access_points[a].kind
                 /\ x.access_points[a].radios = Baseline.access_points[a].radios
          /\ DOMAIN x.devices = DOMAIN Baseline.devices
          /\ \A d \in DOMAIN Baseline.devices :
                 /\ x.devices[d].band = y[<<d, "band">>]
                 /\ x.devices[d].rssi = y[<<d, "rssi">>]
                 /\ x.devices[d].connected_ap_id = Baseline.devices[d].connected_ap_id
                 /\ x.devices[d].steer_eligible = Baseline.devices[d].steer_eligible
  <2>1. \A y : shape(Topology(y), y)
    BY TopologyCells
  <2>2. shape(t, h) /\ shape(u, g)
    <3>. HIDE DEF shape
    <3>. QED
      BY <2>1
  <2>. HIDE DEF t, u
  <2>. QED
    BY <2>2
<1>2. CASE f = "wan_degraded"
  <2>1. r = GatewayId
    BY <1>2, EvidenceOf
  <2>2. t.gateway = u.gateway
    BY <2>1, TopologyCells, NamedCells
  <2>. HIDE DEF t, u
  <2>3. WanDegraded(t)
    BY <1>2 DEF DetectAll, t
  <2>. QED
    BY <1>2, <2>1, <2>2, <2>3 DEF WanDegraded, DetectAll, Detectors, Row, u
<1>3. CASE f = "device_band_stuck"
  <2>1. r \in StuckDevices(t)
    BY <1>3, EvidenceOf
  <2>2. r \in DOMAIN Baseline.devices
    BY <2>1, TopologyCells DEF StuckDevices
  <2>3. /\ r \in DOMAIN u.devices
        /\ u.devices[r].band = t.devices[r].band
        /\ u.devices[r].rssi = t.devices[r].rssi
        /\ u.devices[r].connected_ap_id = t.devices[r].connected_ap_id
        /\ u.devices[r].steer_eligible = t.devices[r].steer_eligible
    <3>1. g[<<r, "band">>] = h[<<r, "band">>] /\ g[<<r, "rssi">>] = h[<<r, "rssi">>]
      BY <2>2, NamedCells
    <3>2. r \in DOMAIN t.devices
      BY <2>1 DEF StuckDevices
    <3>. HIDE DEF t, u
    <3>. QED
      BY <1>1, <3>1, <3>2
  <2>4. \A a : BandsOn(u, a) = BandsOn(t, a)
    <3>. HIDE DEF t, u
    <3>. QED
      BY <1>1 DEF BandsOn
  <2>. HIDE DEF t, u
  <2>5. r \in StuckDevices(u)
    BY <2>1, <2>3, <2>4 DEF StuckDevices
  <2>. QED
    BY <1>3, <2>2, <2>5 DEF DetectAll, Detectors, Row, u
<1>4. CASE f = "extender_flapping"
  <2>1. r \in UnhealthyExtenders(t)
    BY <1>4, EvidenceOf
  <2>2. r \in DOMAIN Baseline.access_points
    BY <2>1, TopologyCells DEF UnhealthyExtenders, Extenders
  <2>3. /\ r \in DOMAIN u.access_points
        /\ u.access_points[r].status = t.access_points[r].status
        /\ u.access_points[r].backhaul_quality = t.access_points[r].backhaul_quality
        /\ u.access_points[r].kind = t.access_points[r].kind
    <3>1. /\ g[<<r, "status">>] = h[<<r, "status">>]
          /\ g[<<r, "backhaul_quality">>] = h[<<r, "backhaul_quality">>]
      BY <2>2, NamedCells
    <3>2. r \in DOMAIN t.access_points
      BY <2>1 DEF UnhealthyExtenders, Extenders
    <3>. HIDE DEF t, u
    <3>. QED
      BY <1>1, <3>1, <3>2
  <2>. HIDE DEF t, u
  <2>4. r \in UnhealthyExtenders(u)
    BY <2>1, <2>3 DEF UnhealthyExtenders, Extenders
  <2>. QED
    BY <1>4, <2>2, <2>4 DEF DetectAll, Detectors, Row, u
<1>. QED
  BY <1>2, <1>3, <1>4 DEF DetectAll, Detectors

\* The verdict outranks every fault of its home.
LEMMA ChosenOutranks ==
    ASSUME NEW t, NEW f \in DetectAll(t)
    PROVE  ChosenFault(t) # NoFault /\ Outranks(ChosenFault(t), f)
<1> DEFINE prec == Config.fault_precedence
           hits == {i \in DOMAIN prec : prec[i] \in DetectAll(t)}
           first == CHOOSE i \in hits : \A j \in hits : i <= j
<1>1. PICK j \in DOMAIN prec : prec[j] = f
  BY ConfigHeals DEF DetectAll
<1>2. j \in hits /\ hits \in SUBSET DOMAIN prec
  BY <1>1
<1>3. ChosenFault(t) = prec[first]
  BY <1>2 DEF ChosenFault
<1>4. first \in hits /\ first <= j
  <2>. HIDE DEF hits
  <2>. QED
    BY <1>2, FirstPlace
<1>5. ChosenFault(t) # NoFault
  BY HealthyIsNoFault
<1>. QED
  BY <1>1, <1>3, <1>4, <1>5 DEF Outranks

\* Whatever is committed while an apply runs, a fault on a row it has set is
\* announced with its commit, by itself or by one that outranks it.
THEOREM TakesAreAnnounced == Spec => TakeIsAnnounced
<1> DEFINE Announced ==
        \A w \in Worker : CommitApply(w) =>
            LET pack == Pack[request[w].scenario]
                rows == {pack.steps[i].row : i \in DOMAIN pack.steps}
            IN  \A f \in DetectAll(Topology(home')) :
                    Evidence(Topology(home'), f) \intersect rows # {} =>
                        \E e \in feed' : /\ e.nr = request[w].nr
                                         /\ Outranks(e.fault_type, f)
<1>1. ASSUME AllInv, ReadsInv, NEW w \in Worker, CommitApply(w)
      PROVE  LET rows == {Steps(w)[i].row : i \in DOMAIN Steps(w)}
             IN  \A f \in DetectAll(Topology(home')) :
                     Evidence(Topology(home'), f) \intersect rows # {} =>
                         \E e \in feed' : /\ e.nr = request[w].nr
                                          /\ Outranks(e.fault_type, f)
  <2> DEFINE s == Topology(seen[w])
             event == [nr |-> request[w].nr, fault_type |-> ChosenFault(s)]
  <2>1. /\ pc[w] = "emit" /\ Publish(w)
        /\ feed' = feed \union Emitted(s, request[w].nr)
    BY <1>1 DEF CommitApply
  <2>2. ReadInv(w) /\ StageInv(w) /\ Staging(w) /\ DOMAIN home = Cell
    BY <1>1, <2>1 DEF ReadsInv, AllInv, TakeInv, WorkInv, Staging
  <2>3. DOMAIN seen[w] = Cell /\ StepsLeft(w) = {}
    BY <2>1, <2>2 DEF ReadInv, StageInv
  <2>4. \A c \in Cell : lock[c[1]] = w => seen[w][c] = home'[c]
    BY <2>1, <2>2, <2>3 DEF ReadInv, Publish, Overlaid
  <2>5. ASSUME NEW f \in DetectAll(Topology(home')), NEW i \in DOMAIN Steps(w),
               Steps(w)[i].row \in Evidence(Topology(home'), f)
        PROVE  event \in feed' /\ Outranks(event.fault_type, f)
    <3>1. lock[Steps(w)[i].row] = w
      BY <2>3 DEF StepsLeft
    <3>2. f \in DetectAll(s)
      BY <2>4, <2>5, <3>1, EvidenceIsLocal
    <3>. HIDE DEF s
    <3>3. ChosenFault(s) # NoFault /\ Outranks(ChosenFault(s), f)
      BY <3>2, ChosenOutranks
    <3>. QED
      BY <2>1, <3>3 DEF Emitted
  <2>6. event.nr = request[w].nr
    OBVIOUS
  <2>. HIDE DEF event
  <2>. QED
    BY <2>5, <2>6
<1>2. AllInv /\ ReadsInv /\ [Next]_vars => [Announced]_vars
  BY <1>1 DEF Steps
<1>. QED
  BY <1>2, ReadsInvariant, PTL DEF Spec, TakeIsAnnounced

\* If a device-action reports a fault cleared that is there, every row it shows on
\* was changed by another request while this one ran.
THEOREM ClearedUnlessChanged == Spec => ClearedIsSound
<1> DEFINE Sound(w) ==
        /\ Answer(w) /\ FaultCleared(w)
        /\ FaultBefore(w) \in DetectAll(Topology(home))
        => \A r \in Evidence(Topology(home), FaultBefore(w)) :
                CellsOf(r) \intersect since[w] # {}
<1>1. ASSUME ReadsInv, NEW w \in Worker
      PROVE  Sound(w)
  <2>. SUFFICES ASSUME Answer(w), FaultCleared(w),
                       FaultBefore(w) \in DetectAll(Topology(home)),
                       NEW r \in Evidence(Topology(home), FaultBefore(w)),
                       CellsOf(r) \intersect since[w] = {}
                PROVE  FALSE
    OBVIOUS
  <2>1. \A c \in Cell : home[c] = Reread(w)[c] \/ c \in since[w]
    BY <1>1 DEF ReadsInv, ReadInv, Answer
  <2>2. \A c \in Cell : c[1] = r => c \in CellsOf(r)
    BY CellsOfRow
  <2>3. \A c \in Cell : c[1] = r => Reread(w)[c] = home[c]
    BY <2>1, <2>2
  <2>4. FaultBefore(w) \in DetectAll(Topology(Reread(w)))
    BY <2>3, EvidenceIsLocal
  <2>. QED
    BY <2>4 DEF FaultCleared
<1>2. ReadsInv => [\A w \in Worker : Sound(w)]_vars
  <2>. HIDE DEF Sound
  <2>. QED
    BY <1>1
<1>. QED
  BY <1>2, ReadsInvariant, PTL DEF ClearedIsSound
=============================================================================
