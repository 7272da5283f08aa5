------------------------- MODULE ScenarioTxProofs -------------------------
(****************************************************************************)
(* What resets, applies and device-actions that overlap on a home can do to *)
(* each other, for any workers, home, packs and calls: who waits in a       *)
(* cycle, what a reset has restored when it commits, what is left of a      *)
(* take.                                                                    *)
(****************************************************************************)
EXTENDS ScenarioTx, DeviceActionsProofs

LockFree(w) == \A r \in Row : lock[r] # w

\* What a worker's Session has loaded and is to flush are cells of the home.
SessionInv(w) == DOMAIN seen[w] \subseteq Cell /\ DOMAIN dirty[w] \subseteq Cell

\* Which requests come through which steps.
PlaceInv(w) ==
    /\ request[w].kind \in {"none", "reset", "apply", "action"}
    /\ request[w].kind = "none" => pc[w] = "idle"
    /\ request[w].kind = "action" => /\ pc[w] \in {"load", "act", "flush", "answer"}
                                    /\ request[w].verb \in Verbs
    /\ request[w].kind = "apply" => request[w].scenario \in Scenario
    /\ pc[w] \in {"stage", "emit"} => request[w].kind = "apply"
    /\ pc[w] \in {"load", "act", "answer"} => request[w].kind = "action"

\* Nobody holds a lock before its first UPDATE or after its COMMIT; a
\* device-action has one row to update, and holds nothing until it has.
HoldInv(w) ==
    /\ pc[w] \in {"idle", "load", "act", "answer"} => LockFree(w)
    /\ request[w].kind = "action" /\ pc[w] = "flush" =>
           /\ \A c, e \in DOMAIN dirty[w] : c[1] = e[1]
           /\ DOMAIN dirty[w] # {} => LockFree(w)

TxInv ==
    /\ DOMAIN lock = Row /\ DOMAIN pc = Worker /\ DOMAIN request = Worker
    /\ DOMAIN seen = Worker /\ DOMAIN dirty = Worker
    /\ \A w \in Worker : SessionInv(w) /\ PlaceInv(w) /\ HoldInv(w)

----------------------------------------------------------------------------
(* Rows and cells *)

\* A cell names its row.
LEMMA CellsOfRow ==
    /\ \A c \in Cell : c[1] \in Row /\ c \in CellsOf(c[1])
    /\ \A r : \A c \in CellsOf(r) : c[1] = r
<1>1. \A r : \A c \in CellsOf(r) : c[1] = r
  BY DEF CellsOf
<1>2. \A c \in Cell : \E r \in Row : c \in CellsOf(r)
  BY DEF Cell
<1>. QED
  BY <1>1, <1>2

\* While there is something to flush, the next row is a row of the home with
\* something to flush.
LEMMA NextRowIsDirty ==
    ASSUME NEW w, DOMAIN dirty[w] \subseteq Cell, DOMAIN dirty[w] # {}
    PROVE  /\ NextRow(w) \in Row
           /\ CellsOf(NextRow(w)) \intersect DOMAIN dirty[w] # {}
<1> DEFINE left == {i \in DOMAIN FlushOrder :
                        CellsOf(FlushOrder[i]) \intersect DOMAIN dirty[w] # {}}
<1>1. PICK c \in DOMAIN dirty[w] : c[1] \in Row /\ c \in CellsOf(c[1])
  BY CellsOfRow
<1>2. PICK i \in DOMAIN FlushOrder : FlushOrder[i] = c[1]
  BY <1>1, StageAssumption
<1>3. i \in left
  BY <1>1, <1>2
<1>4. left \in SUBSET Int /\ \A j \in left : 1 <= j
  BY StageAssumption
<1>5. \E m \in left : \A j \in left : m <= j
  <2>. HIDE DEF left
  <2>. QED
    BY <1>3, <1>4, LeastNumber
<1>6. PICK m \in left : NextRow(w) = FlushOrder[m]
  BY <1>5 DEF NextRow
<1>. QED
  BY <1>6, StageAssumption

\* While there are steps left, the next one is a step of the pack.
LEMMA NextStepIsStep ==
    ASSUME NEW w, request[w].scenario \in Scenario, StepsLeft(w) # {}
    PROVE  /\ NextStep(w).row \in Row
           /\ \E m \in DOMAIN Steps(w) : NextStep(w) = Steps(w)[m]
<1>1. IsPack(Pack[request[w].scenario])
  BY StageAssumption
<1>2. StepsLeft(w) \in SUBSET Int /\ \A j \in StepsLeft(w) : 0 <= j
  BY <1>1 DEF StepsLeft, Steps, IsPack
<1>3. \E m \in StepsLeft(w) : \A j \in StepsLeft(w) : m <= j
  BY <1>2, LeastNumber
<1>4. PICK m \in StepsLeft(w) : NextStep(w) = Steps(w)[m]
  BY <1>3 DEF NextStep
<1>. QED
  BY <1>1, <1>4 DEF StepsLeft, Steps, IsPack

----------------------------------------------------------------------------
(* What a verb changes *)

\* A home's cells, read back from its topology.
LEMMA RoundTrip ==
    ASSUME NEW h
    PROVE  \A c \in Cell : Cells(Topology(h))[c] = h[c]
<1> DEFINE t == Topology(h)
<1>1. /\ t.gateway = h[<<GatewayId, "wan_status">>]
      /\ DOMAIN t.access_points = DOMAIN Baseline.access_points
      /\ DOMAIN t.devices = DOMAIN Baseline.devices
      /\ \A a \in DOMAIN Baseline.access_points :
             /\ t.access_points[a]["status"] = h[<<a, "status">>]
             /\ t.access_points[a]["backhaul_quality"] = h[<<a, "backhaul_quality">>]
      /\ \A d \in DOMAIN Baseline.devices :
             /\ t.devices[d]["band"] = h[<<d, "band">>]
             /\ t.devices[d]["rssi"] = h[<<d, "rssi">>]
  <2>1. \A a \in DOMAIN Baseline.access_points : Baseline.access_points[a] \in ApRow
    BY StageAssumption DEF IsTopology
  <2>2. \A d \in DOMAIN Baseline.devices : Baseline.devices[d] \in DeviceRow
    BY StageAssumption DEF IsTopology
  <2>. QED
    BY <2>1, <2>2 DEF Topology, ApRow, DeviceRow
<1>. HIDE DEF t
<1>2. ASSUME NEW c \in Cell
      PROVE  Cells(t)[c] = h[c]
  <2>1. PICK r \in Row : c \in CellsOf(r)
    BY DEF Cell
  <2>2. PICK col \in Columns(r) : c = <<r, col>>
    BY <2>1 DEF CellsOf
  <2>3. c[1] = r /\ c[2] = col
    BY <2>2
  <2>4. /\ GatewayId \notin DOMAIN t.access_points \union DOMAIN t.devices
        /\ DOMAIN t.access_points \intersect DOMAIN t.devices = {}
    BY <1>1, StageAssumption DEF IsTopology
  <2>5. CASE r = GatewayId
    <3>1. Cells(t)[c] = t.gateway /\ col = "wan_status"
      BY <2>2, <2>3, <2>4, <2>5, <1>1 DEF Cells, Columns
    <3>. QED
      BY <1>1, <2>2, <2>5, <3>1
  <2>6. CASE r \in DOMAIN t.access_points
    <3>1. Cells(t)[c] = t.access_points[r][col] /\ col \in {"status", "backhaul_quality"}
      BY <2>3, <2>4, <2>6, <1>1 DEF Cells, Columns
    <3>. QED
      BY <1>1, <2>2, <2>6, <3>1
  <2>7. CASE r \in DOMAIN t.devices
    <3>1. Cells(t)[c] = t.devices[r][col] /\ col \in {"band", "rssi"}
      BY <2>3, <2>4, <2>7, <1>1 DEF Cells, Columns
    <3>. QED
      BY <1>1, <2>2, <2>7, <3>1
  <2>. QED
    BY <1>1, <2>5, <2>6, <2>7 DEF Row
<1>. QED
  BY <1>2 DEF t

\* A verb touches the row it is sent, and no other.
LEMMA VerbTouchesOneRow ==
    ASSUME NEW h, NEW verb \in Verbs, NEW target,
           RunVerb(Topology(h), verb, target, NoBand).ok
    PROVE  \A c \in Cell : c[1] # target =>
               Cells(RunVerb(Topology(h), verb, target, NoBand).topology)[c] =
                   Cells(Topology(h))[c]
<1> DEFINE t == Topology(h)
           r == RunVerb(t, verb, target, NoBand).topology
<1>1. t = [gateway |-> t.gateway, access_points |-> t.access_points,
           devices |-> t.devices]
  BY DEF Topology
<1>2. /\ r.gateway = t.gateway
      /\ DOMAIN r.access_points = DOMAIN t.access_points
      /\ DOMAIN r.devices = DOMAIN t.devices
      /\ \A a \in DOMAIN t.access_points \ {target} : r.access_points[a] = t.access_points[a]
      /\ \A d \in DOMAIN t.devices \ {target} : r.devices[d] = t.devices[d]
  <2>. HIDE DEF t
  <2>1. CASE verb = "band-steer"
    <3>1. r = t \/ r = Steered(t, target, NoBand)
      BY <2>1 DEF RunVerb, BandSteer, Accepted, Refused, Verbs
    <3>. QED
      BY <1>1, <3>1 DEF Steered
  <2>2. CASE verb = "reboot-extender"
    <3>1. r = t \/ r = Rebooted(t, target, Config.healthy_backhaul_quality)
      BY <2>2 DEF RunVerb, RebootExtender, Accepted, Refused, Verbs
    <3>. QED
      BY <1>1, <3>1 DEF Rebooted
  <2>3. CASE verb = "reboot-ap"
    <3>1. r = t \/ \E quality : r = Rebooted(t, target, quality)
      BY <2>3 DEF RunVerb, RebootAp, Accepted, Refused, Verbs
    <3>. QED
      BY <1>1, <3>1 DEF Rebooted
  <2>. QED
    BY <2>1, <2>2, <2>3 DEF Verbs
<1>. HIDE DEF t, r
<1>3. \A c \in Cell : c[1] # target => Cells(r)[c] = Cells(t)[c]
  BY <1>2 DEF Cells
<1>. QED
  BY <1>3 DEF r, t

\* What device-action is to flush lies in one row.
LEMMA OneRowToFlush ==
    ASSUME NEW w \in Worker, DOMAIN seen[w] \subseteq Cell,
           request[w].verb \in Verbs, Outcome(w).ok
    PROVE  \A c \in DOMAIN NetChange(seen[w], Cells(Outcome(w).topology)) :
               c[1] = request[w].target
<1>1. \A c \in Cell : c[1] # request[w].target =>
          Cells(Outcome(w).topology)[c] = Cells(Topology(seen[w]))[c]
  BY VerbTouchesOneRow DEF Outcome
<1>2. \A c \in Cell : Cells(Topology(seen[w]))[c] = seen[w][c]
  BY RoundTrip
<1>. QED
  BY <1>1, <1>2 DEF NetChange

----------------------------------------------------------------------------
(* The invariant *)

\* A step of one worker takes nothing from what holds of another.
LEMMA OtherWorkers ==
    ASSUME TxInv, NEW w \in Worker,
           DOMAIN lock' = Row /\ DOMAIN pc' = Worker /\ DOMAIN request' = Worker,
           DOMAIN seen' = Worker /\ DOMAIN dirty' = Worker,
           \A v \in Worker \ {w} :
               /\ pc'[v] = pc[v] /\ request'[v] = request[v]
               /\ seen'[v] = seen[v] /\ dirty'[v] = dirty[v],
           \A r \in Row : lock'[r] \in {lock[r], w, Free},
           SessionInv(w)' /\ PlaceInv(w)' /\ HoldInv(w)'
    PROVE  TxInv'
<1>1. ASSUME NEW v \in Worker \ {w}
      PROVE  SessionInv(v)' /\ PlaceInv(v)' /\ HoldInv(v)'
  <2>1. SessionInv(v) /\ PlaceInv(v) /\ HoldInv(v)
    BY DEF TxInv
  <2>2. LockFree(v) => LockFree(v)'
    BY StageAssumption DEF LockFree
  <2>. QED
    BY <2>1, <2>2 DEF SessionInv, PlaceInv, HoldInv
<1>. QED
  BY <1>1 DEF TxInv

\* A transaction that ends holds nothing, and takes no lock of another.
LEMMA UnlockedFrees ==
    ASSUME NEW w \in Worker, lock' = Unlocked(w)
    PROVE  DOMAIN lock' = Row /\ LockFree(w)' /\ \A r \in Row : lock'[r] \in {lock[r], w, Free}
BY StageAssumption DEF Unlocked, LockFree

\* A request that ends leaves an idle worker, if it left no lock behind.
LEMMA FinishInv ==
    ASSUME TxInv, NEW w \in Worker, Finish(w), LockFree(w)', DOMAIN lock' = Row,
           \A r \in Row : lock'[r] \in {lock[r], w, Free}
    PROVE  TxInv'
<1>1. /\ DOMAIN pc' = Worker /\ DOMAIN request' = Worker
      /\ DOMAIN seen' = Worker /\ DOMAIN dirty' = Worker
      /\ pc'[w] = "idle" /\ request'[w].kind = "none" /\ seen'[w] = None /\ dirty'[w] = None
      /\ \A v \in Worker \ {w} :
             /\ pc'[v] = pc[v] /\ request'[v] = request[v]
             /\ seen'[v] = seen[v] /\ dirty'[v] = dirty[v]
  BY DEF TxInv, Finish, Goto, NoRequest
<1>2. SessionInv(w)' /\ PlaceInv(w)' /\ HoldInv(w)'
  BY <1>1 DEF SessionInv, PlaceInv, HoldInv, None
<1>. QED
  BY <1>1, <1>2, OtherWorkers

\* A SELECT adds cells of the home to what the Session has loaded.
LEMMA SelectInv ==
    ASSUME TxInv, NEW w \in Worker, NEW cells \in SUBSET Cell, Select(w, cells)
    PROVE  /\ DOMAIN seen' = Worker /\ DOMAIN seen'[w] \subseteq Cell
           /\ \A v \in Worker \ {w} : seen'[v] = seen[v]
BY DEF TxInv, SessionInv, Select, Joined, Loaded

\* The invariant holds at the start.
LEMMA InitInv == Init => TxInv
BY StageAssumption DEF Init, TxInv, SessionInv, PlaceInv, HoldInv, LockFree, None, NoRequest

\* A new request keeps it.
LEMMA RequestInv ==
    ASSUME TxInv, NEW w \in Worker, Request(w)
    PROVE  TxInv'
<1>1. /\ lock' = lock /\ seen' = seen /\ dirty' = dirty
      /\ DOMAIN pc' = Worker /\ DOMAIN request' = Worker
      /\ pc[w] = "idle"
      /\ \A v \in Worker \ {w} : pc'[v] = pc[v] /\ request'[v] = request[v]
  BY DEF TxInv, Request, RequestReset, RequestApply, RequestAction, Goto, shared
<1>2. \/ pc'[w] = "merge" /\ request'[w].kind = "reset"
      \/ /\ pc'[w] \in {"merge", "stage"}
         /\ request'[w].kind = "apply" /\ request'[w].scenario \in Scenario
      \/ pc'[w] = "load" /\ request'[w].kind = "action" /\ request'[w].verb \in Verbs
  BY StageAssumption DEF TxInv, Request, RequestReset, RequestApply, RequestAction, Goto
<1>3. SessionInv(w) /\ HoldInv(w)
  BY DEF TxInv
<1>4. LockFree(w)'
  BY <1>1, <1>3 DEF HoldInv, LockFree
<1>5. SessionInv(w)' /\ PlaceInv(w)' /\ HoldInv(w)'
  BY <1>1, <1>2, <1>3, <1>4 DEF SessionInv, PlaceInv, HoldInv
<1>. QED
  BY <1>1, <1>5, OtherWorkers DEF TxInv

\* An UPDATE of the flush keeps it: the one row of a device-action is its last.
LEMMA FlushInv ==
    ASSUME TxInv, NEW w \in Worker, Flush(w)
    PROVE  TxInv'
<1> DEFINE cells == CellsOf(NextRow(w)) \intersect DOMAIN dirty[w]
<1>1. /\ pc[w] = "flush" /\ DOMAIN dirty[w] # {}
      /\ lock' = [lock EXCEPT ![NextRow(w)] = w]
      /\ dirty' = [dirty EXCEPT ![w] = [c \in DOMAIN dirty[w] \ cells |-> dirty[w][c]]]
      /\ UNCHANGED <<pc, request, seen>>
  BY DEF Flush, Update, TxInv
<1>2. DOMAIN dirty'[w] = DOMAIN dirty[w] \ cells
  <2>. HIDE DEF cells
  <2>. QED
    BY <1>1 DEF TxInv
<1>3. SessionInv(w) /\ PlaceInv(w) /\ HoldInv(w)
  BY DEF TxInv
<1>4. request[w].kind = "action" => DOMAIN dirty'[w] = {}
  <2>1. PICK e \in cells : e[1] = NextRow(w)
    BY <1>1, <1>3, NextRowIsDirty, CellsOfRow DEF SessionInv
  <2>2. ASSUME request[w].kind = "action", NEW c \in DOMAIN dirty[w]
        PROVE  c \in cells
    <3>1. c[1] = NextRow(w)
      BY <1>1, <1>3, <2>1, <2>2 DEF HoldInv
    <3>. QED
      BY <1>3, <3>1, CellsOfRow DEF SessionInv
  <2>. QED
    BY <1>2, <2>2
<1>5. SessionInv(w)' /\ PlaceInv(w)' /\ HoldInv(w)'
  BY <1>1, <1>2, <1>3, <1>4 DEF SessionInv, PlaceInv, HoldInv
<1>. HIDE DEF cells
<1>. QED
  BY <1>1, <1>5, OtherWorkers DEF TxInv

\* The verb keeps it: it leaves one row to flush, and nothing is locked yet.
LEMMA ActInv ==
    ASSUME TxInv, NEW w \in Worker, Act(w)
    PROVE  TxInv'
<1> DEFINE change == NetChange(seen[w], Cells(Outcome(w).topology))
<1>1. /\ pc[w] = "act" /\ Outcome(w).ok
      /\ lock' = lock /\ request' = request /\ seen' = seen
      /\ DOMAIN pc' = Worker /\ pc'[w] = "flush"
      /\ DOMAIN dirty' = Worker /\ dirty'[w] = change
      /\ \A v \in Worker \ {w} : pc'[v] = pc[v] /\ dirty'[v] = dirty[v]
  BY DEF TxInv, Act, Goto, shared
<1>2. SessionInv(w) /\ PlaceInv(w) /\ HoldInv(w)
  BY DEF TxInv
<1>3. DOMAIN change \subseteq Cell
  BY <1>2 DEF NetChange, SessionInv
<1>4. request[w].kind = "action" => \A c \in DOMAIN change : c[1] = request[w].target
  BY <1>1, <1>2, OneRowToFlush DEF SessionInv, PlaceInv
<1>. HIDE DEF change
<1>5. LockFree(w)'
  BY <1>1, <1>2 DEF HoldInv, LockFree
<1>6. SessionInv(w)' /\ PlaceInv(w)' /\ HoldInv(w)'
  BY <1>1, <1>2, <1>3, <1>4, <1>5 DEF SessionInv, PlaceInv, HoldInv
<1>. QED
  BY <1>1, <1>6, OtherWorkers DEF TxInv

\* So does every other statement of a request.
LEMMA ServeInv ==
    ASSUME TxInv, NEW w \in Worker, Serve(w)
    PROVE  TxInv'
<1>1. SessionInv(w) /\ PlaceInv(w) /\ HoldInv(w)
  BY DEF TxInv
<1>2. MergedRow(w) \in SUBSET Cell /\ LoadedTable(w) \in SUBSET Cell
  BY DEF MergedRow, LoadedTable, Unread
<1>3. CASE Merge(w)
  <2>1. /\ DOMAIN seen' = Worker /\ DOMAIN seen'[w] \subseteq Cell
        /\ \A v \in Worker \ {w} : seen'[v] = seen[v]
    BY <1>2, <1>3, SelectInv DEF Merge
  <2>2. DOMAIN MergeChanges(w) \subseteq Cell
    BY <1>2 DEF MergeChanges, NetChange, Loaded
  <2>3. /\ pc[w] = "merge" /\ pc'[w] \in {"merge", "flush"} /\ DOMAIN pc' = Worker
        /\ lock' = lock /\ request' = request
        /\ DOMAIN dirty' = Worker /\ dirty'[w] = Joined(dirty[w], MergeChanges(w))
        /\ \A v \in Worker \ {w} : pc'[v] = pc[v] /\ dirty'[v] = dirty[v]
    BY <1>3 DEF TxInv, Merge, Goto, shared
  <2>4. DOMAIN dirty'[w] \subseteq Cell
    BY <1>1, <2>2, <2>3 DEF Joined, SessionInv
  <2>5. SessionInv(w)' /\ PlaceInv(w)' /\ HoldInv(w)'
    BY <1>1, <2>1, <2>3, <2>4 DEF SessionInv, PlaceInv, HoldInv
  <2>. QED
    BY <2>1, <2>3, <2>5, OtherWorkers DEF TxInv
<1>4. CASE Flush(w)
  BY <1>4, FlushInv
<1>5. CASE DeleteEvents(w) \/ LockEvents(w)
  <2>1. /\ pc[w] \in {"flush", "lock_events"} /\ pc'[w] \in {"lock_events", "reset"}
        /\ DOMAIN pc' = Worker /\ \A v \in Worker \ {w} : pc'[v] = pc[v]
        /\ request[w].kind # "action"
        /\ lock' = lock /\ request' = request /\ seen' = seen /\ dirty' = dirty
    BY <1>1, <1>5 DEF TxInv, PlaceInv, DeleteEvents, LockEvents, Flushed, Goto, shared
  <2>2. SessionInv(w)' /\ PlaceInv(w)' /\ HoldInv(w)'
    BY <1>1, <2>1 DEF SessionInv, PlaceInv, HoldInv
  <2>. QED
    BY <2>1, <2>2, OtherWorkers DEF TxInv
<1>6. CASE CommitReset(w) \/ CommitApply(w)
  <2>1. DOMAIN lock' = Row /\ LockFree(w)' /\ \A r \in Row : lock'[r] \in {lock[r], w, Free}
    BY <1>6, UnlockedFrees DEF CommitReset, CommitApply, Publish
  <2>2. /\ DOMAIN pc' = Worker /\ DOMAIN request' = Worker /\ DOMAIN seen' = Worker
        /\ dirty' = dirty /\ seen'[w] = None
        /\ \/ pc'[w] = "idle" /\ request'[w].kind = "none"
           \/ pc'[w] = "stage" /\ request[w].kind = "apply" /\ request'[w] = request[w]
        /\ \A v \in Worker \ {w} :
               pc'[v] = pc[v] /\ request'[v] = request[v] /\ seen'[v] = seen[v]
    BY <1>6 DEF TxInv, CommitReset, CommitApply, Goto, NoRequest
  <2>3. SessionInv(w)' /\ PlaceInv(w)' /\ HoldInv(w)'
    BY <1>1, <2>1, <2>2 DEF SessionInv, PlaceInv, HoldInv, None
  <2>. QED
    BY <2>1, <2>2, <2>3, OtherWorkers DEF TxInv
<1>7. CASE Stage(w)
  <2>1. /\ pc[w] = "stage" /\ lock' = [lock EXCEPT ![NextStep(w).row] = w]
        /\ UNCHANGED <<pc, request, seen, dirty>>
    BY <1>7 DEF Stage, Update
  <2>2. SessionInv(w)' /\ PlaceInv(w)' /\ HoldInv(w)'
    BY <1>1, <2>1 DEF SessionInv, PlaceInv, HoldInv
  <2>. QED
    BY <2>1, <2>2, OtherWorkers DEF TxInv
<1>8. CASE LoadStaged(w) \/ LoadHome(w)
  <2>1. /\ DOMAIN seen' = Worker /\ DOMAIN seen'[w] \subseteq Cell
        /\ \A v \in Worker \ {w} : seen'[v] = seen[v]
    BY <1>2, <1>8, SelectInv DEF LoadStaged, LoadHome
  <2>2. /\ \/ pc[w] = "stage" /\ pc'[w] \in {"stage", "emit"}
           \/ pc[w] = "load" /\ pc'[w] \in {"load", "act"}
        /\ DOMAIN pc' = Worker /\ \A v \in Worker \ {w} : pc'[v] = pc[v]
        /\ lock' = lock /\ request' = request /\ dirty' = dirty
    BY <1>8 DEF TxInv, LoadStaged, LoadHome, Goto, shared
  <2>3. SessionInv(w)' /\ PlaceInv(w)' /\ HoldInv(w)'
    BY <1>1, <2>1, <2>2 DEF SessionInv, PlaceInv, HoldInv, LockFree
  <2>. QED
    BY <2>1, <2>2, <2>3, OtherWorkers DEF TxInv
<1>9. CASE RefuseAction(w) \/ Answer(w)
  <2>1. Finish(w) /\ pc[w] \in {"act", "answer"} /\ lock' = lock
    BY <1>9 DEF RefuseAction, Answer, shared
  <2>2. LockFree(w)'
    BY <1>1, <2>1 DEF HoldInv, LockFree
  <2>. QED
    BY <2>1, <2>2, FinishInv DEF TxInv
<1>10. CASE Act(w)
  BY <1>10, ActInv
<1>11. CASE CommitAction(w)
  <2>1. DOMAIN lock' = Row /\ LockFree(w)' /\ \A r \in Row : lock'[r] \in {lock[r], w, Free}
    BY <1>11, UnlockedFrees DEF CommitAction, Publish
  <2>2. /\ pc'[w] = "answer" /\ request[w].kind = "action"
        /\ DOMAIN pc' = Worker /\ \A v \in Worker \ {w} : pc'[v] = pc[v]
        /\ UNCHANGED <<request, seen, dirty>>
    BY <1>11 DEF TxInv, CommitAction, Goto
  <2>3. SessionInv(w)' /\ PlaceInv(w)' /\ HoldInv(w)'
    BY <1>1, <2>1, <2>2 DEF SessionInv, PlaceInv, HoldInv
  <2>. QED
    BY <2>1, <2>2, <2>3, OtherWorkers DEF TxInv
<1>. QED
  BY <1>3, <1>4, <1>5, <1>6, <1>7, <1>8, <1>9, <1>10, <1>11 DEF Serve

\* And a rollback, after a crash or to break a deadlock.
LEMMA RollBackInv ==
    ASSUME TxInv, NEW w \in Worker, RollBack(w)
    PROVE  TxInv'
BY UnlockedFrees, FinishInv DEF RollBack

\* The invariant holds in every reachable state.
LEMMA TxInvariant == Spec => []TxInv
<1>1. TxInv /\ [Next]_vars => TxInv'
  <2>1. ASSUME TxInv, UNCHANGED vars
        PROVE  TxInv'
    BY <2>1 DEF vars, TxInv, SessionInv, PlaceInv, HoldInv, LockFree
  <2>. QED
    BY <2>1, RequestInv, ServeInv, RollBackInv DEF Next, Crash, AbortDeadlock
<1>. QED
  BY <1>1, InitInv, PTL DEF Spec

----------------------------------------------------------------------------
(* Deadlocks *)

\* For any workers, home, packs and calls: a worker in a cycle of waits serves
\* a reset or an apply, never a device-action, which waits for its one row
\* while it holds nothing.
THEOREM CallsNeverDeadlock == Spec => []OnlyOperatorsDeadlock
<1>1. TxInv => OnlyOperatorsDeadlock
  <2>. SUFFICES ASSUME TxInv, NEW w \in Worker, InCycle(w)
                PROVE  request[w].kind \in {"reset", "apply"}
    BY DEF OnlyOperatorsDeadlock
  <2>1. PICK u \in Worker : w \in Blockers(u)
    BY DEF InCycle
  <2>2. SessionInv(u) /\ PlaceInv(u) /\ PlaceInv(w) /\ HoldInv(w)
    BY DEF TxInv
  <2>3. ASSUME request[w].kind = "action"
        PROVE  ~ LockFree(w)
    <3>1. ~ HoldsEvents(w)
      BY <2>2, <2>3 DEF HoldsEvents, PlaceInv
    <3>2. \/ DOMAIN dirty[u] # {} /\ lock[NextRow(u)] = w
          \/ pc[u] = "stage" /\ StepsLeft(u) # {} /\ lock[NextStep(u).row] = w
      BY <2>1, <3>1 DEF Blockers
    <3>3. \E r \in Row : lock[r] = w
      BY <2>2, <3>2, NextRowIsDirty, NextStepIsStep DEF SessionInv, PlaceInv
    <3>. QED
      BY <3>3 DEF LockFree
  <2>4. /\ Blockers(w) # {}
        /\ \/ pc[w] = "flush" /\ DOMAIN dirty[w] # {}
           \/ pc[w] \in {"stage", "lock_events"}
    BY DEF InCycle, Blockers
  <2>. QED
    BY <2>2, <2>3, <2>4 DEF PlaceInv, HoldInv
<1>. QED
  BY <1>1, TxInvariant, PTL

----------------------------------------------------------------------------
(* Takes *)

Resetting(w) == \/ pc[w] \in {"merge", "lock_events", "reset"}
                \/ pc[w] = "flush" /\ request[w].kind # "action"

Staging(w) == pc[w] \in {"stage", "emit"}

\* Nothing is left over from one transaction to the next.
CleanInv(w) ==
    /\ DOMAIN written[w] \subseteq Cell
    /\ pc[w] \in {"idle", "merge", "load", "act"} => DOMAIN written[w] = {}
    /\ pc[w] = "idle" => DOMAIN seen[w] = {}
    /\ pc[w] \in {"idle", "lock_events", "reset", "stage", "emit"} => DOMAIN dirty[w] = {}

\* A cell a reset has loaded is still as loaded, or news; one that was not at
\* its baseline is on its way there.
RestoreInv(w) ==
    Resetting(w) =>
        /\ \A c \in DOMAIN seen[w] :
               /\ home[c] = seen[w][c] \/ c \in since[w]
               /\ \/ seen[w][c] = Seeded[c]
                  \/ c \in DOMAIN dirty[w] \union DOMAIN written[w]
        /\ \A c \in DOMAIN dirty[w] : dirty[w][c] = Seeded[c]
        /\ \A c \in DOMAIN written[w] : written[w][c] = Seeded[c]
        /\ pc[w] # "merge" => DOMAIN seen[w] = Cell

Sets(step, c) == c[1] = step.row /\ c[2] \in DOMAIN step.set

\* An apply has written what the steps whose rows it has locked set, and no
\* more; what else its reset did not restore is news.
StageInv(w) ==
    Staging(w) =>
        /\ \A i \in DOMAIN Steps(w) :
               lock[Steps(w)[i].row] = w =>
                   \A f \in DOMAIN Steps(w)[i].set :
                       /\ <<Steps(w)[i].row, f>> \in DOMAIN written[w]
                       /\ written[w][<<Steps(w)[i].row, f>>] = Steps(w)[i].set[f]
        /\ \A c \in DOMAIN written[w] : \E i \in DOMAIN Steps(w) : Sets(Steps(w)[i], c)
        /\ pc[w] = "emit" => StepsLeft(w) = {}
        /\ Pack[request[w].scenario].reset_first =>
               \A c \in Cell : home[c] # Seeded[c] => c \in since[w]

WorkInv(w) == CleanInv(w) /\ RestoreInv(w) /\ StageInv(w)

TakeInv ==
    /\ DOMAIN home = Cell /\ DOMAIN written = Worker /\ DOMAIN since = Worker
    /\ \A w \in Worker : WorkInv(w)

\* What a step of a worker does to the others: their transactions are as they
\* were, so are their locks, and what is committed under them is news to them.
Aside(w) ==
    /\ \A v \in Worker \ {w} :
           /\ pc'[v] = pc[v] /\ request'[v] = request[v] /\ seen'[v] = seen[v]
           /\ dirty'[v] = dirty[v] /\ written'[v] = written[v]
           /\ since[v] \subseteq since'[v]
           /\ \A c \in Relied(v) : home'[c] = home[c] \/ c \in since'[v]
    /\ \A r \in Row : lock'[r] = lock[r] \/ {lock[r], lock'[r]} \subseteq {Free, w}
    /\ DOMAIN home' = Cell /\ DOMAIN written' = Worker /\ DOMAIN since' = Worker

\* A commit is news to all who rely on what it writes.
LEMMA PublishAside ==
    ASSUME TxInv, TakeInv, NEW w \in Worker, Publish(w),
           \A v \in Worker \ {w} : since'[v] = News(w)[v]
    PROVE  /\ \A v \in Worker \ {w} :
                  /\ since[v] \subseteq since'[v]
                  /\ \A c \in Relied(v) : home'[c] = home[c] \/ c \in since'[v]
           /\ \A r \in Row : lock'[r] = lock[r] \/ {lock[r], lock'[r]} \subseteq {Free, w}
           /\ DOMAIN home' = Cell
<1>1. home' = [c \in Cell |-> IF c \in DOMAIN written[w] THEN written[w][c] ELSE home[c]]
  BY DEF Publish, Overlaid, TakeInv
<1>2. ASSUME NEW v \in Worker \ {w}
      PROVE  /\ since[v] \subseteq since'[v]
             /\ \A c \in Relied(v) : home'[c] = home[c] \/ c \in since'[v]
  <2>1. since'[v] = since[v] \union (DOMAIN written[w] \intersect Relied(v))
    BY DEF News
  <2>2. Relied(v) \subseteq Cell
    BY DEF Relied, TxInv, SessionInv
  <2>. QED
    BY <1>1, <2>1, <2>2
<1>3. \A r \in Row : lock'[r] = lock[r] \/ {lock[r], lock'[r]} \subseteq {Free, w}
  BY DEF Publish, Unlocked
<1>. QED
  BY <1>1, <1>2, <1>3

\* Every step of a worker leaves the others aside.
LEMMA StepAside ==
    ASSUME TxInv, TakeInv, NEW w \in Worker, Request(w) \/ Serve(w) \/ RollBack(w)
    PROVE  Aside(w)
<1>. USE DEF TxInv, TakeInv
<1>1. CASE Request(w)
  BY <1>1 DEF Request, RequestReset, RequestApply, RequestAction, Goto, shared, Aside
<1>2. CASE Merge(w) \/ LoadStaged(w) \/ LoadHome(w)
  BY <1>2 DEF Merge, LoadStaged, LoadHome, Select, Goto, shared, Aside
<1>3. CASE Flush(w)
  BY <1>3 DEF Flush, Update, Aside
<1>4. CASE Stage(w)
  BY <1>4 DEF Stage, Update, Aside
<1>5. CASE DeleteEvents(w) \/ LockEvents(w) \/ Act(w)
  BY <1>5 DEF DeleteEvents, LockEvents, Act, Goto, shared, Aside
<1>6. CASE RefuseAction(w) \/ Answer(w)
  BY <1>6 DEF RefuseAction, Answer, Finish, Goto, shared, Aside
<1>7. CASE CommitReset(w)
  <2>1. Publish(w) /\ \A v \in Worker \ {w} : since'[v] = News(w)[v]
    BY <1>7 DEF CommitReset, News
  <2>2. /\ DOMAIN since' = Worker /\ DOMAIN written' = Worker
        /\ \A v \in Worker \ {w} :
               /\ pc'[v] = pc[v] /\ request'[v] = request[v] /\ seen'[v] = seen[v]
               /\ dirty'[v] = dirty[v] /\ written'[v] = written[v]
    BY <1>7 DEF CommitReset, News, Goto
  <2>. QED
    BY <2>1, <2>2, PublishAside DEF Aside
<1>8. CASE CommitApply(w)
  <2>1. Publish(w) /\ \A v \in Worker \ {w} : since'[v] = News(w)[v]
    BY <1>8 DEF CommitApply, News
  <2>2. /\ DOMAIN since' = Worker /\ DOMAIN written' = Worker
        /\ \A v \in Worker \ {w} :
               /\ pc'[v] = pc[v] /\ request'[v] = request[v] /\ seen'[v] = seen[v]
               /\ dirty'[v] = dirty[v] /\ written'[v] = written[v]
    BY <1>8 DEF CommitApply, News, Goto
  <2>. QED
    BY <2>1, <2>2, PublishAside DEF Aside
<1>9. CASE CommitAction(w)
  <2>1. Publish(w) /\ \A v \in Worker \ {w} : since'[v] = News(w)[v]
    BY <1>9 DEF CommitAction
  <2>2. /\ DOMAIN since' = Worker /\ DOMAIN written' = Worker
        /\ \A v \in Worker \ {w} :
               /\ pc'[v] = pc[v] /\ request'[v] = request[v] /\ seen'[v] = seen[v]
               /\ dirty'[v] = dirty[v] /\ written'[v] = written[v]
    BY <1>9 DEF CommitAction, News, Goto
  <2>. QED
    BY <2>1, <2>2, PublishAside DEF Aside
<1>10. CASE RollBack(w)
  BY <1>10 DEF RollBack, Unlocked, Finish, Goto, Aside
<1>. QED
  BY <1>1, <1>2, <1>3, <1>4, <1>5, <1>6, <1>7, <1>8, <1>9, <1>10 DEF Serve

\* Whoever is left aside keeps its part of the invariant.
LEMMA Bystanders ==
    ASSUME TxInv, TakeInv, NEW w \in Worker, Aside(w), WorkInv(w)'
    PROVE  TakeInv'
<1>1. ASSUME NEW v \in Worker \ {w}
      PROVE  WorkInv(v)'
  <2>1. /\ pc'[v] = pc[v] /\ request'[v] = request[v] /\ seen'[v] = seen[v]
        /\ dirty'[v] = dirty[v] /\ written'[v] = written[v]
        /\ since[v] \subseteq since'[v]
        /\ \A c \in Relied(v) : home'[c] = home[c] \/ c \in since'[v]
    BY DEF Aside
  <2>2. PlaceInv(v) /\ CleanInv(v) /\ RestoreInv(v) /\ StageInv(v)
    BY DEF TxInv, TakeInv, WorkInv
  <2>3. CleanInv(v)'
    BY <2>1, <2>2 DEF CleanInv
  <2>4. RestoreInv(v)'
    <3>. SUFFICES ASSUME Resetting(v)
                  PROVE  RestoreInv(v)'
      BY <2>1 DEF Resetting, RestoreInv
    <3>1. Relied(v) = DOMAIN seen[v]
      BY DEF Resetting, Relied
    <3>. QED
      BY <2>1, <2>2, <3>1 DEF RestoreInv
  <2>5. StageInv(v)'
    <3>. SUFFICES ASSUME Staging(v)
                  PROVE  StageInv(v)'
      BY <2>1 DEF Staging, StageInv
    <3>1. Relied(v) = Cell
      BY DEF Staging, Relied
    <3>2. Steps(v)' = Steps(v)
      BY <2>1 DEF Steps
    <3>3. \A i \in DOMAIN Steps(v) :
              lock'[Steps(v)[i].row] = v <=> lock[Steps(v)[i].row] = v
      <4>1. \A i \in DOMAIN Steps(v) : Steps(v)[i].row \in Row
        BY <2>2, StageAssumption DEF Staging, PlaceInv, Steps, IsPack
      <4>. QED
        BY <4>1, StageAssumption DEF Aside
    <3>4. StepsLeft(v)' = StepsLeft(v)
      BY <3>2, <3>3 DEF StepsLeft
    <3>. QED
      BY <2>1, <2>2, <3>1, <3>2, <3>3, <3>4 DEF StageInv
  <2>. QED
    BY <2>3, <2>4, <2>5 DEF WorkInv
<1>. QED
  BY <1>1 DEF TakeInv, Aside

\* At the start there are no transactions.
LEMMA InitTake == Init => TakeInv
<1>. SUFFICES ASSUME Init
              PROVE  TakeInv
  OBVIOUS
<1>1. DOMAIN home = Cell
  BY DEF Init, StagedBefore
<1>2. \A w \in Worker : pc[w] = "idle" /\ seen[w] = None /\ dirty[w] = None /\ written[w] = None
  BY DEF Init
<1>3. \A w \in Worker : WorkInv(w)
  BY <1>2 DEF WorkInv, CleanInv, RestoreInv, StageInv, Resetting, Staging, None
<1>. QED
  BY <1>1, <1>3 DEF Init, TakeInv

\* A worker that becomes idle has nothing left.
LEMMA IdleWork ==
    ASSUME NEW w \in Worker,
           pc'[w] = "idle" /\ seen'[w] = None /\ written'[w] = None,
           DOMAIN dirty'[w] = {}
    PROVE  WorkInv(w)'
BY DEF WorkInv, CleanInv, RestoreInv, StageInv, Resetting, Staging, None

\* A new request starts from nothing.
LEMMA RequestWork ==
    ASSUME TxInv, TakeInv, NEW w \in Worker, Request(w)
    PROVE  WorkInv(w)'
<1>1. /\ pc[w] = "idle"
      /\ lock' = lock /\ seen' = seen /\ dirty' = dirty /\ written' = written
  BY DEF Request, RequestReset, RequestApply, RequestAction, shared
<1>2. \/ pc'[w] \in {"merge", "load"}
      \/ /\ pc'[w] = "stage" /\ request'[w].scenario \in Scenario
         /\ ~Pack[request'[w].scenario].reset_first
  BY StageAssumption DEF TxInv, Request, RequestReset, RequestApply, RequestAction, Goto, IsPack
<1>3. LockFree(w) /\ CleanInv(w)
  BY <1>1 DEF TxInv, HoldInv, TakeInv, WorkInv
<1>4. CleanInv(w)'
  BY <1>1, <1>2, <1>3 DEF CleanInv
<1>5. RestoreInv(w)'
  BY <1>1, <1>2, <1>3 DEF CleanInv, RestoreInv, Resetting
<1>6. StageInv(w)'
  <2>1. ASSUME pc'[w] = "stage"
        PROVE  \A i \in DOMAIN Steps(w)' : Steps(w)'[i].row \in Row
    BY <1>2, <2>1, StageAssumption DEF Steps, IsPack
  <2>. QED
    BY <1>1, <1>2, <1>3, <2>1 DEF CleanInv, StageInv, Staging, LockFree
<1>. QED
  BY <1>4, <1>5, <1>6 DEF WorkInv

\* merge loads a row as it is committed, and is to write what differs.
LEMMA MergeWork ==
    ASSUME TxInv, TakeInv, NEW w \in Worker, Merge(w)
    PROVE  WorkInv(w)'
<1> DEFINE row == MergedRow(w)
           news == MergeChanges(w)
<1>1. CleanInv(w) /\ RestoreInv(w) /\ SessionInv(w)
  BY DEF TxInv, TakeInv, WorkInv
<1>2. /\ pc[w] = "merge" /\ pc'[w] \in {"merge", "flush"}
      /\ pc'[w] = "flush" => Unread(w) = row
      /\ written'[w] = written[w] /\ DOMAIN written[w] = {}
      /\ home' = home /\ since' = since /\ request' = request
      /\ seen'[w] = Joined(seen[w], Loaded(w, row))
      /\ dirty'[w] = Joined(dirty[w], news)
  BY <1>1 DEF Merge, Select, TxInv, Goto, shared, CleanInv
<1>3. row \subseteq Cell /\ row \intersect DOMAIN seen[w] = {}
  BY DEF MergedRow, Unread
<1>4. /\ DOMAIN Loaded(w, row) = row
      /\ \A c \in row : Loaded(w, row)[c] = home[c]
  BY <1>2 DEF Loaded
<1>5. /\ DOMAIN news \subseteq row
      /\ \A c \in DOMAIN news : news[c] = Seeded[c]
      /\ \A c \in row : home[c] = Seeded[c] \/ c \in DOMAIN news
  BY <1>4 DEF MergeChanges, NetChange
<1>6. pc'[w] = "flush" => row = Cell \ DOMAIN seen[w]
  BY <1>2 DEF Unread
<1>. HIDE DEF row, news
<1>7. /\ DOMAIN seen'[w] = DOMAIN seen[w] \union row
      /\ \A c \in DOMAIN seen[w] : seen'[w][c] = seen[w][c]
      /\ \A c \in row : seen'[w][c] = home[c]
  BY <1>2, <1>3, <1>4 DEF Joined
<1>8. /\ DOMAIN dirty'[w] = DOMAIN dirty[w] \union DOMAIN news
      /\ \A c \in DOMAIN dirty'[w] : dirty'[w][c] = Seeded[c]
  BY <1>1, <1>2, <1>5 DEF Joined, RestoreInv, Resetting
<1>9. CleanInv(w)'
  BY <1>1, <1>2 DEF CleanInv
<1>10. RestoreInv(w)'
  <2>1. Resetting(w)
    BY <1>2 DEF Resetting
  <2>2. \A c \in DOMAIN seen'[w] :
            /\ home'[c] = seen'[w][c] \/ c \in since'[w]
            /\ \/ seen'[w][c] = Seeded[c]
               \/ c \in DOMAIN dirty'[w] \union DOMAIN written'[w]
    BY <1>1, <1>2, <1>5, <1>7, <1>8, <2>1 DEF RestoreInv
  <2>3. pc'[w] # "merge" => DOMAIN seen'[w] = Cell
    BY <1>1, <1>2, <1>3, <1>6, <1>7 DEF SessionInv
  <2>. QED
    BY <1>2, <1>8, <2>2, <2>3 DEF RestoreInv
<1>11. StageInv(w)'
  BY <1>2 DEF StageInv, Staging
<1>. QED
  BY <1>9, <1>10, <1>11 DEF WorkInv

\* The flush moves cells from what is to be written to what is.
LEMMA FlushWork ==
    ASSUME TxInv, TakeInv, NEW w \in Worker, Flush(w)
    PROVE  WorkInv(w)'
<1> DEFINE cells == CellsOf(NextRow(w)) \intersect DOMAIN dirty[w]
<1>1. CleanInv(w) /\ RestoreInv(w) /\ SessionInv(w)
  BY DEF TxInv, TakeInv, WorkInv
<1>2. /\ pc[w] = "flush" /\ UNCHANGED <<home, pc, request, seen, since>>
      /\ written'[w] = Joined(written[w], [c \in cells |-> dirty[w][c]])
      /\ dirty'[w] = [c \in DOMAIN dirty[w] \ cells |-> dirty[w][c]]
  BY DEF Flush, Update, TxInv, TakeInv
<1>3. cells \subseteq DOMAIN dirty[w]
  OBVIOUS
<1>. HIDE DEF cells
<1>4. /\ DOMAIN written'[w] = DOMAIN written[w] \union cells
      /\ DOMAIN dirty'[w] = DOMAIN dirty[w] \ cells
      /\ \A c \in cells : written'[w][c] = dirty[w][c]
      /\ \A c \in DOMAIN written[w] \ cells : written'[w][c] = written[w][c]
      /\ \A c \in DOMAIN dirty'[w] : dirty'[w][c] = dirty[w][c]
  BY <1>2 DEF Joined
<1>5. CleanInv(w)'
  BY <1>1, <1>2, <1>3, <1>4 DEF CleanInv, SessionInv
<1>6. RestoreInv(w)'
  <2>1. Resetting(w)' = Resetting(w)
    BY <1>2 DEF Resetting
  <2>. QED
    BY <1>1, <1>2, <1>3, <1>4, <2>1 DEF RestoreInv
<1>7. StageInv(w)'
  BY <1>2 DEF StageInv, Staging
<1>. QED
  BY <1>5, <1>6, <1>7 DEF WorkInv

\* Once its reset is done, an apply relies on every cell: what differs from the
\* baseline is news.
LEMMA ResetRestores ==
    ASSUME TxInv, TakeInv, NEW w \in Worker, CommitReset(w)
    PROVE  \A c \in Cell : home'[c] # Seeded[c] => c \in since[w]
<1>1. CleanInv(w) /\ RestoreInv(w) /\ pc[w] = "reset"
  BY DEF TakeInv, WorkInv, CommitReset
<1>2. home' = [c \in Cell |-> IF c \in DOMAIN written[w] THEN written[w][c] ELSE home[c]]
  BY DEF CommitReset, Publish, Overlaid, TakeInv
<1>3. /\ DOMAIN seen[w] = Cell /\ DOMAIN dirty[w] = {}
      /\ \A c \in Cell : home[c] = seen[w][c] \/ c \in since[w]
      /\ \A c \in Cell : seen[w][c] = Seeded[c] \/ c \in DOMAIN written[w]
      /\ \A c \in DOMAIN written[w] : written[w][c] = Seeded[c]
  BY <1>1 DEF CleanInv, RestoreInv, Resetting
<1>. QED
  BY <1>2, <1>3

\* After it, a reset is idle, and an apply starts to stage with nothing locked.
LEMMA CommitResetWork ==
    ASSUME TxInv, TakeInv, NEW w \in Worker, CommitReset(w)
    PROVE  WorkInv(w)'
<1>1. CleanInv(w) /\ PlaceInv(w) /\ pc[w] = "reset"
  BY DEF TakeInv, WorkInv, TxInv, CommitReset
<1>2. /\ seen'[w] = None /\ written'[w] = None /\ DOMAIN dirty'[w] = {}
      /\ lock' = Unlocked(w)
      /\ \/ pc'[w] = "idle"
         \/ /\ pc'[w] = "stage" /\ request'[w] = request[w]
            /\ request[w].kind = "apply" /\ since' = News(w)
  BY <1>1 DEF CommitReset, Publish, TxInv, TakeInv, Goto, CleanInv
<1>3. CASE pc'[w] = "idle"
  BY <1>2, <1>3, IdleWork
<1>4. CASE pc'[w] = "stage"
  <2>1. since[w] \subseteq since'[w]
    BY <1>2, <1>4 DEF News
  <2>2. \A i \in DOMAIN Steps(w)' : Steps(w)'[i].row \in Row
    BY <1>1, <1>2, <1>4, StageAssumption DEF Steps, IsPack, PlaceInv
  <2>3. LockFree(w)'
    BY <1>2, UnlockedFrees
  <2>4. StageInv(w)'
    BY <1>2, <1>4, <2>1, <2>2, <2>3, ResetRestores DEF StageInv, LockFree, None
  <2>. QED
    BY <1>2, <1>4, <2>4 DEF WorkInv, CleanInv, RestoreInv, Resetting, None
<1>. QED
  BY <1>2, <1>3, <1>4

\* A step of a pack writes its row, which no other step of the pack sets.
LEMMA StageWork ==
    ASSUME TxInv, TakeInv, NEW w \in Worker, Stage(w)
    PROVE  WorkInv(w)'
<1> DEFINE steps == Steps(w)
<1>1. CleanInv(w) /\ StageInv(w) /\ PlaceInv(w)
  BY DEF TxInv, TakeInv, WorkInv
<1>2. /\ pc[w] = "stage" /\ StepsLeft(w) # {}
      /\ UNCHANGED <<home, pc, request, seen, dirty, since>>
      /\ lock[NextStep(w).row] = Free /\ lock' = [lock EXCEPT ![NextStep(w).row] = w]
      /\ written'[w] = Joined(written[w], StepValues(NextStep(w)))
  BY DEF Stage, Update, TakeInv
<1>3. IsPack(Pack[request[w].scenario])
  BY <1>1, <1>2, StageAssumption DEF PlaceInv
<1>4. PICK m \in DOMAIN steps : NextStep(w) = steps[m]
  BY <1>1, <1>2, NextStepIsStep DEF PlaceInv
<1>5. /\ \A i \in DOMAIN steps : /\ steps[i].row \in Row
                                 /\ DOMAIN steps[i].set \subseteq Columns(steps[i].row)
      /\ \A i, j \in DOMAIN steps : steps[i].row = steps[j].row => i = j
  BY <1>3 DEF Steps, IsPack
<1> DEFINE values == StepValues(NextStep(w))
<1>6. /\ DOMAIN values = {<<steps[m].row, f>> : f \in DOMAIN steps[m].set}
      /\ \A f \in DOMAIN steps[m].set : values[<<steps[m].row, f>>] = steps[m].set[f]
      /\ \A c \in DOMAIN values : Sets(steps[m], c)
      /\ DOMAIN values \subseteq Cell
  <2>1. values = [c \in {<<steps[m].row, f>> : f \in DOMAIN steps[m].set} |->
                     steps[m].set[c[2]]]
    BY <1>4 DEF StepValues
  <2>2. \A f \in DOMAIN steps[m].set : <<steps[m].row, f>> \in Cell
    BY <1>5 DEF Cell, CellsOf
  <2>. HIDE DEF steps, values
  <2>. QED
    BY <2>1, <2>2 DEF Sets
<1>7. Steps(w)' = steps
  BY <1>2 DEF Steps
<1>. HIDE DEF steps, values
<1>8. /\ DOMAIN written'[w] = DOMAIN written[w] \union DOMAIN values
      /\ \A c \in DOMAIN values : written'[w][c] = values[c]
      /\ \A c \in DOMAIN written[w] \ DOMAIN values : written'[w][c] = written[w][c]
  BY <1>2 DEF Joined, values
<1>9. CleanInv(w)'
  BY <1>1, <1>2, <1>6, <1>8 DEF CleanInv
<1>10. StageInv(w)'
  <2>1. \A i \in DOMAIN steps : lock'[steps[i].row] = w =>
            \A f \in DOMAIN steps[i].set :
                /\ <<steps[i].row, f>> \in DOMAIN written'[w]
                /\ written'[w][<<steps[i].row, f>>] = steps[i].set[f]
    <3>1. ASSUME NEW i \in DOMAIN steps, i = m, NEW f \in DOMAIN steps[i].set
          PROVE  /\ <<steps[i].row, f>> \in DOMAIN written'[w]
                 /\ written'[w][<<steps[i].row, f>>] = steps[i].set[f]
      BY <1>6, <1>8, <3>1
    <3>2. ASSUME NEW i \in DOMAIN steps, i # m, lock'[steps[i].row] = w,
                 NEW f \in DOMAIN steps[i].set
          PROVE  /\ <<steps[i].row, f>> \in DOMAIN written'[w]
                 /\ written'[w][<<steps[i].row, f>>] = steps[i].set[f]
      <4>1. steps[i].row # steps[m].row
        BY <1>5, <3>2
      <4>2. lock[steps[i].row] = w
        BY <1>2, <1>4, <1>5, <3>2, <4>1 DEF TxInv
      <4>3. /\ <<steps[i].row, f>> \in DOMAIN written[w]
            /\ written[w][<<steps[i].row, f>>] = steps[i].set[f]
        BY <1>1, <1>2, <3>2, <4>2 DEF StageInv, Staging, steps
      <4>4. <<steps[i].row, f>> \notin DOMAIN values
        BY <1>6, <4>1
      <4>. QED
        BY <1>8, <4>3, <4>4
    <3>. QED
      BY <3>1, <3>2
  <2>2. \A c \in DOMAIN written'[w] : \E i \in DOMAIN steps : Sets(steps[i], c)
    <3>1. \A c \in DOMAIN written[w] : \E i \in DOMAIN steps : Sets(steps[i], c)
      BY <1>1, <1>2 DEF StageInv, Staging, steps
    <3>. QED
      BY <1>6, <1>8, <3>1
  <2>3. Pack[request'[w].scenario].reset_first =>
            \A c \in Cell : home'[c] # Seeded[c] => c \in since'[w]
    BY <1>1, <1>2 DEF StageInv, Staging
  <2>. QED
    BY <1>2, <1>7, <2>1, <2>2, <2>3 DEF StageInv
<1>11. RestoreInv(w)'
  BY <1>2 DEF RestoreInv, Resetting
<1>. QED
  BY <1>9, <1>10, <1>11 DEF WorkInv

\* Every statement of a request keeps the worker's part of the invariant.
LEMMA ServeWork ==
    ASSUME TxInv, TakeInv, NEW w \in Worker, Serve(w)
    PROVE  WorkInv(w)'
<1>1. PlaceInv(w) /\ CleanInv(w) /\ RestoreInv(w) /\ StageInv(w)
  BY DEF TxInv, TakeInv, WorkInv
<1>2. CASE DeleteEvents(w) \/ LockEvents(w)
  <2>1. /\ Resetting(w) /\ pc[w] \in {"flush", "lock_events"} /\ DOMAIN dirty[w] = {}
        /\ pc'[w] \in {"lock_events", "reset"}
        /\ UNCHANGED <<home, request, seen, dirty, written, since>>
    BY <1>1, <1>2 DEF DeleteEvents, LockEvents, Flushed, Goto, shared, Resetting, TxInv,
                      CleanInv
  <2>2. CleanInv(w)' /\ RestoreInv(w)' /\ StageInv(w)'
    BY <1>1, <2>1 DEF CleanInv, RestoreInv, StageInv, Staging
  <2>. QED
    BY <2>2 DEF WorkInv
<1>3. CASE LoadStaged(w)
  <2>1. /\ pc[w] = "stage" /\ StepsLeft(w) = {} /\ pc'[w] \in {"stage", "emit"}
        /\ UNCHANGED <<home, lock, request, dirty, written, since>>
    BY <1>3 DEF LoadStaged, Goto, shared, TxInv
  <2>2. Steps(w)' = Steps(w)
    BY <2>1 DEF Steps
  <2>3. StepsLeft(w)' = {}
    BY <2>1, <2>2 DEF StepsLeft
  <2>4. StageInv(w)'
    BY <1>1, <2>1, <2>2, <2>3 DEF StageInv, Staging
  <2>. QED
    BY <1>1, <2>1, <2>4 DEF WorkInv, CleanInv, RestoreInv, Resetting
<1>4. CASE LoadHome(w) \/ Act(w)
  <2>1. /\ pc[w] \in {"load", "act"} /\ pc'[w] \in {"load", "act", "flush"}
        /\ pc'[w] = "flush" => request'[w].kind = "action"
        /\ UNCHANGED written
    BY <1>1, <1>4 DEF LoadHome, Act, Goto, shared, TxInv, PlaceInv
  <2>. QED
    BY <1>1, <2>1 DEF WorkInv, CleanInv, RestoreInv, StageInv, Resetting, Staging
<1>5. CASE CommitAction(w)
  <2>1. pc[w] = "flush" /\ pc'[w] = "answer" /\ UNCHANGED written
    BY <1>5 DEF CommitAction, Flushed, Goto, TxInv
  <2>. QED
    BY <1>1, <2>1 DEF WorkInv, CleanInv, RestoreInv, StageInv, Resetting, Staging
<1>6. CASE CommitApply(w)
  <2>1. /\ pc[w] = "emit" /\ pc'[w] = "idle" /\ seen'[w] = None /\ written'[w] = None
        /\ dirty' = dirty
    BY <1>6 DEF CommitApply, Goto, TxInv, TakeInv
  <2>. QED
    BY <1>1, <2>1, IdleWork DEF CleanInv
<1>7. CASE RefuseAction(w) \/ Answer(w)
  BY <1>7, IdleWork DEF RefuseAction, Answer, Finish, Goto, TxInv, TakeInv, None
<1>. QED
  BY <1>2, <1>3, <1>4, <1>5, <1>6, <1>7, MergeWork, FlushWork, CommitResetWork, StageWork
     DEF Serve

\* The invariant of the takes holds in every reachable state.
LEMMA TakeInvariant == Spec => [](TxInv /\ TakeInv)
<1>1. TxInv /\ TakeInv /\ [Next]_vars => TakeInv'
  <2>1. ASSUME TxInv, TakeInv, UNCHANGED vars
        PROVE  TakeInv'
    <3>1. UNCHANGED <<home, lock, pc, request, seen, dirty, written, since>>
      BY <2>1 DEF vars
    <3>2. ASSUME NEW w \in Worker
          PROVE  WorkInv(w)'
      <4>1. CleanInv(w) /\ RestoreInv(w) /\ StageInv(w)
        BY <2>1 DEF TakeInv, WorkInv
      <4>2. Steps(w)' = Steps(w) /\ StepsLeft(w)' = StepsLeft(w)
        BY <3>1 DEF StepsLeft, Steps
      <4>3. CleanInv(w)' /\ RestoreInv(w)'
        BY <3>1, <4>1 DEF CleanInv, RestoreInv, Resetting
      <4>4. StageInv(w)'
        BY <3>1, <4>1, <4>2 DEF StageInv, Staging
      <4>. QED
        BY <4>3, <4>4 DEF WorkInv
    <3>. QED
      BY <2>1, <3>1, <3>2 DEF TakeInv
  <2>2. ASSUME TxInv, TakeInv, NEW w \in Worker, RollBack(w)
        PROVE  WorkInv(w)'
    BY <2>2, IdleWork DEF RollBack, Finish, Goto, TxInv, TakeInv, None
  <2>. QED
    BY <2>1, <2>2, StepAside, Bystanders, RequestWork, ServeWork
       DEF Next, Crash, AbortDeadlock
<1>. QED
  BY <1>1, InitTake, TxInvariant, PTL DEF Spec

\* For any workers, home and packs: whatever else goes on, a reset restores
\* every cell that nobody changed after it had looked.
THEOREM ResetsRestore == Spec => QuietResetRestores
<1> DEFINE Restores == \A w \in Worker : CommitReset(w) =>
                           \A c \in Cell : home'[c] # Seeded[c] => c \in since[w]
<1>1. TxInv /\ TakeInv /\ [Next]_vars => [Restores]_vars
  BY ResetRestores
<1>. QED
  BY <1>1, TakeInvariant, PTL DEF Spec, QuietResetRestores

\* For any workers, home and packs: an apply commits all its pack sets, over a
\* baseline that only other requests have changed.
LEMMA TakeCommitsWhole ==
    ASSUME TxInv, TakeInv, NEW w \in Worker, CommitApply(w)
    PROVE  LET pack   == Pack[request[w].scenario]
               staged == {pack.steps[i] : i \in DOMAIN pack.steps}
               set    == {c \in Cell : \E step \in staged :
                             c[1] = step.row /\ c[2] \in DOMAIN step.set}
           IN  /\ \A step \in staged : \A f \in DOMAIN step.set :
                      home'[<<step.row, f>>] = step.set[f]
               /\ pack.reset_first =>
                      {c \in Cell \ set : home'[c] # Seeded[c]} \subseteq since[w]
<1> DEFINE steps == Steps(w)
<1>1. CleanInv(w) /\ StageInv(w) /\ pc[w] = "emit"
  BY DEF TakeInv, WorkInv, CommitApply
<1>2. home' = [c \in Cell |-> IF c \in DOMAIN written[w] THEN written[w][c] ELSE home[c]]
  BY DEF CommitApply, Publish, Overlaid, TakeInv
<1>3. \A i \in DOMAIN steps : \A f \in DOMAIN steps[i].set :
          /\ <<steps[i].row, f>> \in DOMAIN written[w]
          /\ written[w][<<steps[i].row, f>>] = steps[i].set[f]
  <2>1. \A i \in DOMAIN steps : lock[steps[i].row] = w
    BY <1>1 DEF StageInv, Staging, StepsLeft
  <2>. QED
    BY <1>1, <2>1 DEF StageInv, Staging
<1>4. \A i \in DOMAIN steps : \A f \in DOMAIN steps[i].set :
          home'[<<steps[i].row, f>>] = steps[i].set[f]
  BY <1>1, <1>2, <1>3 DEF CleanInv
<1>5. ASSUME Pack[request[w].scenario].reset_first, NEW c \in Cell, home'[c] # Seeded[c],
             \A i \in DOMAIN steps : ~ Sets(steps[i], c)
      PROVE  c \in since[w]
  <2>1. c \notin DOMAIN written[w]
    BY <1>1, <1>5 DEF StageInv, Staging
  <2>. QED
    BY <1>1, <1>2, <1>5, <2>1 DEF StageInv, Staging
<1>. QED
  BY <1>4, <1>5 DEF Steps, Sets

\* For any workers, home and packs: when an apply commits, the home has every
\* value its pack sets, over a baseline that only other requests have changed.
THEOREM TakesAreWhole == Spec => TakeIsWhole
<1> DEFINE Whole == \A w \in Worker : CommitApply(w) =>
          LET pack   == Pack[request[w].scenario]
              staged == {pack.steps[i] : i \in DOMAIN pack.steps}
              set    == {c \in Cell : \E step \in staged :
                            c[1] = step.row /\ c[2] \in DOMAIN step.set}
          IN  /\ \A step \in staged : \A f \in DOMAIN step.set :
                     home'[<<step.row, f>>] = step.set[f]
              /\ pack.reset_first =>
                     {c \in Cell \ set : home'[c] # Seeded[c]} \subseteq since[w]
<1>1. TxInv /\ TakeInv /\ [Next]_vars => [Whole]_vars
  BY TakeCommitsWhole
<1>. QED
  BY <1>1, TakeInvariant, PTL DEF Spec, TakeIsWhole
=============================================================================
