------------------------------ MODULE OrderStore ------------------------------
(****************************************************************************)
(* The orders and their confirmation events of one tenant, as concurrent    *)
(* requests see them: order-action's place and send-confirmation            *)
(* (app/modules/orders) and the reset of the scenario engine, which deletes *)
(* events and orders.  Sync handlers run in a thread pool, each request in  *)
(* its own Session and transaction, on PostgreSQL at READ COMMITTED: a      *)
(* statement sees what was committed when it started, an UPDATE or DELETE   *)
(* waits for the row's lock and then works on the newest version of the     *)
(* row, and nothing is visible before COMMIT.  One action per statement.    *)
(*                                                                          *)
(* A worker serves one request at a time and any request may be repeated at *)
(* any time, which is all a retry is to the server.  A worker may crash     *)
(* between two statements: its transaction rolls back.                      *)
(*                                                                          *)
(* Left out: names, prices and texts; 'cancelled', which nothing ever sets; *)
(* unknown identifiers, verbs and offers, which answer 4xx before the store *)
(* is touched.  The message reference is a function of the order id and is  *)
(* set with the status in one UPDATE, so a confirmed row is one that has a  *)
(* reference.                                                               *)
(****************************************************************************)
EXTENDS Integers, FiniteSets

CONSTANTS Worker,       \* server threads
          Key,          \* a subscriber and an offer of the catalogue
          Serves,       \* the keys each worker's order requests are about
          Resetter,     \* the workers that also serve reset requests
          Emailable,    \* the keys whose subscriber has an email address
          MaxOrder,     \* bound: order ids that can be minted
          Free, NoKey   \* nobody, nothing

ASSUME StoreAssumption ==
    /\ Serves \in [Worker -> SUBSET Key]
    /\ Resetter \subseteq Worker
    /\ Emailable \subseteq Key
    /\ MaxOrder \in Nat
    /\ Free \notin Worker /\ NoKey \notin Key

Order   == 1..MaxOrder  \* UUIDs, numbered in the order their rows are inserted
NoOrder == 0

\* An id has no row before it is minted, and none after the row is deleted.
Unborn  == [key |-> NoKey, status |-> "unborn"]
Deleted == [key |-> NoKey, status |-> "deleted"]
Row     == [key : Key, status : {"placed", "confirmed"}] \union {Unborn, Deleted}

VARIABLES orders,       \* committed customer_order rows
          events,       \* committed order.confirmation_sent events
          lock,         \* the worker holding each row's lock
          pc,           \* what each worker does next
          key,          \* the key of its place request
          ord,          \* the order it inserts or confirms
          arrived,      \* history: the orders there were when its request came in
          doomed,       \* the events its reset deletes
          rows,         \* the orders its reset deletes
          prior         \* history: arrived, of the request that created an order

vars == <<orders, events, lock, pc, key, ord, arrived, doomed, rows, prior>>
work == <<key, ord, arrived, doomed, rows>>   \* what a request keeps to itself

IsRow(o) == orders[o].status \in {"placed", "confirmed"}
Live     == {o \in Order : IsRow(o)}

\* Faulty variant: a confirmed order is not looked for.
PlacedOn(k) == {o \in Live : orders[o].key = k /\ orders[o].status = "placed"}

LiveOn(k) == {o \in Live : orders[o].key = k}

Minted(o) == orders[o].status # "unborn" \/ \E w \in Worker : pc[w] = "inserted" /\ ord[w] = o

NextId(o) == ~Minted(o) /\ \A n \in Order : ~Minted(n) => o <= n

\* The bound on ids never stops a request midway.
Room == Cardinality({w \in Worker : pc[w] \in {"find", "insert"}})
            < Cardinality({o \in Order : ~Minted(o)})

Goto(w, where) == pc' = [pc EXCEPT ![w] = where]

\* The request is answered and its Session closed.
Finish(w) ==
    /\ Goto(w, "idle")
    /\ key' = [key EXCEPT ![w] = NoKey]
    /\ ord' = [ord EXCEPT ![w] = NoOrder]
    /\ arrived' = [arrived EXCEPT ![w] = {}]
    /\ doomed' = [doomed EXCEPT ![w] = {}]
    /\ rows' = [rows EXCEPT ![w] = {}]

\* Faulty variant: the locks outlive the transaction.
NeverUnlocked(w) == lock

Unlocked(w) == [o \in Order |-> IF lock[o] = w THEN Free ELSE lock[o]]

Init ==
    /\ orders = [o \in Order |-> Unborn]
    /\ events = {}
    /\ lock = [o \in Order |-> Free]
    /\ pc = [w \in Worker |-> "idle"]
    /\ key = [w \in Worker |-> NoKey]
    /\ ord = [w \in Worker |-> NoOrder]
    /\ arrived = [w \in Worker |-> {}]
    /\ doomed = [w \in Worker |-> {}]
    /\ rows = [w \in Worker |-> {}]
    /\ prior = [o \in Order |-> {}]

----------------------------------------------------------------------------
(* place *)

RequestPlace(w, k) ==
    /\ pc[w] = "idle"
    /\ Room
    /\ k \in Serves[w]
    /\ Goto(w, "find")
    /\ key' = [key EXCEPT ![w] = k]
    /\ arrived' = [arrived EXCEPT ![w] = Live]
    /\ UNCHANGED <<orders, events, lock, ord, doomed, rows, prior>>

\* find_live_order: none means insert; one is returned as it is; two make
\* scalar_one_or_none raise MultipleResultsFound, a 500.  Nothing is written in
\* either of the last two.
FindLiveOrder(w) ==
    /\ pc[w] = "find"
    /\ \/ LiveOn(key[w]) = {} /\ Goto(w, "insert") /\ UNCHANGED work
       \/ LiveOn(key[w]) # {} /\ Finish(w)
    /\ UNCHANGED <<orders, events, lock, prior>>

\* db.add and flush: the INSERT, visible to nobody else yet.
InsertOrder(w) ==
    /\ pc[w] = "insert"
    /\ \E o \in Order :
           /\ NextId(o)
           /\ ord' = [ord EXCEPT ![w] = o]
    /\ Goto(w, "inserted")
    /\ UNCHANGED <<orders, events, lock, key, arrived, doomed, rows, prior>>

CommitPlace(w) ==
    /\ pc[w] = "inserted"
    /\ orders' = [orders EXCEPT ![ord[w]] = [key |-> key[w], status |-> "placed"]]
    /\ prior' = [prior EXCEPT ![ord[w]] = arrived[w]]
    /\ Finish(w)
    /\ UNCHANGED <<events, lock>>

----------------------------------------------------------------------------
(* send-confirmation *)

RequestConfirm(w, o) ==
    /\ pc[w] = "idle"
    /\ Goto(w, "get")
    /\ ord' = [ord EXCEPT ![w] = o]
    /\ UNCHANGED <<orders, events, lock, key, arrived, doomed, rows, prior>>

\* get_order, scoped to the subscriber (404), the email check (400), and the
\* reference an earlier confirmation left (reported again, nothing written).
Confirmable(w, o) ==
    /\ o \in Live
    /\ orders[o].key \in Serves[w] \intersect Emailable
    /\ orders[o].status # "confirmed"

GetOrder(w) ==
    /\ pc[w] = "get"
    /\ \/ Confirmable(w, ord[w]) /\ Goto(w, "update") /\ UNCHANGED work
       \/ ~Confirmable(w, ord[w]) /\ Finish(w)
    /\ UNCHANGED <<orders, events, lock, prior>>

\* Faulty variant: an UPDATE that matched no row is taken for done.
UpdateBlindly(w) ==
    /\ pc[w] = "update"
    /\ lock[ord[w]] = Free
    /\ lock' = [lock EXCEPT ![ord[w]] = w]
    /\ Goto(w, "updated")
    /\ UNCHANGED <<orders, events, prior, work>>

\* mark_confirmed's flush: the UPDATE waits for the row's lock.  If the row is
\* gone by then it matches no row: StaleDataError, a 500.
UpdateOrder(w) ==
    LET o == ord[w]
    IN  /\ pc[w] = "update"
        /\ \/ /\ ~IsRow(o)
              /\ Finish(w)
              /\ UNCHANGED lock
           \/ /\ IsRow(o)
              /\ lock[o] = Free
              /\ lock' = [lock EXCEPT ![o] = w]
              /\ Goto(w, "updated")
              /\ UNCHANGED work
        /\ UNCHANGED <<orders, events, prior>>

\* Faulty variant: the order is confirmed, the event is not recorded.
ConfirmUnrecorded(w) ==
    /\ pc[w] = "updated"
    /\ orders' = [orders EXCEPT ![ord[w]].status = "confirmed"]
    /\ lock' = Unlocked(w)
    /\ Finish(w)
    /\ UNCHANGED <<events, prior>>

\* record_event's INSERT waits for nothing and shows at COMMIT only, so it is
\* taken with it.  A worker confirms an order at most once, so <<order, worker>>
\* names the event.
CommitConfirm(w) ==
    LET o == ord[w]
    IN  /\ pc[w] = "updated"
        /\ orders' = [orders EXCEPT ![o].status = "confirmed"]
        /\ events' = events \union {<<o, w>>}
        /\ lock' = Unlocked(w)
        /\ Finish(w)
        /\ UNCHANGED prior

----------------------------------------------------------------------------
(* reset: the two deletes of the scenario engine, in its order *)

RequestReset(w) ==
    /\ pc[w] = "idle"
    /\ w \in Resetter
    /\ Goto(w, "delete_events")
    /\ UNCHANGED <<orders, events, lock, work, prior>>

DeleteEvents(w) ==
    /\ pc[w] = "delete_events"
    /\ doomed' = [doomed EXCEPT ![w] = events]
    /\ Goto(w, "lock_events")
    /\ UNCHANGED <<orders, events, lock, key, ord, arrived, rows, prior>>

\* The rows another reset is deleting are waited for.
HoldsEvents(v) == pc[v] \in {"delete_orders", "lock_orders", "lock_row"}

LockEvents(w) ==
    /\ pc[w] = "lock_events"
    /\ \A v \in Worker \ {w} :
           HoldsEvents(v) => doomed[v] \intersect doomed[w] \intersect events = {}
    /\ Goto(w, "delete_orders")
    /\ UNCHANGED <<orders, events, lock, work, prior>>

\* Faulty variant: only orders nobody confirmed are deleted.
DeletePlacedOrders(w) ==
    /\ pc[w] = "delete_orders"
    /\ rows' = [rows EXCEPT ![w] = {o \in Live : orders[o].status = "placed"}]
    /\ Goto(w, "lock_orders")
    /\ UNCHANGED <<orders, events, lock, key, ord, arrived, doomed, prior>>

DeleteOrders(w) ==
    /\ pc[w] = "delete_orders"
    /\ rows' = [rows EXCEPT ![w] = Live]
    /\ Goto(w, "lock_orders")
    /\ UNCHANGED <<orders, events, lock, key, ord, arrived, doomed, prior>>

\* The statement locks the rows it found one by one, in an order SQL leaves
\* open, skipping those deleted by the time it gets their lock.
ToLock(w) == {o \in rows[w] : IsRow(o) /\ lock[o] # w}

NextRow(w) ==
    /\ pc[w] = "lock_orders"
    /\ \E o \in ToLock(w) : ord' = [ord EXCEPT ![w] = o]
    /\ Goto(w, "lock_row")
    /\ UNCHANGED <<orders, events, lock, key, arrived, doomed, rows, prior>>

LockRow(w) ==
    LET o == ord[w]
    IN  /\ pc[w] = "lock_row"
        /\ \/ ~IsRow(o) /\ UNCHANGED lock
           \/ IsRow(o) /\ lock[o] = Free /\ lock' = [lock EXCEPT ![o] = w]
        /\ ord' = [ord EXCEPT ![w] = NoOrder]
        /\ Goto(w, "lock_orders")
        /\ UNCHANGED <<orders, events, key, arrived, doomed, rows, prior>>

CommitReset(w) ==
    /\ pc[w] = "lock_orders"
    /\ ToLock(w) = {}
    /\ orders' = [o \in Order |-> IF o \in rows[w] THEN Deleted ELSE orders[o]]
    /\ events' = events \ doomed[w]
    /\ lock' = Unlocked(w)
    /\ Finish(w)
    /\ UNCHANGED prior

----------------------------------------------------------------------------
(* Failures *)

\* The transaction rolls back and the client gets no answer, or a 500.
RollBack(w) ==
    /\ lock' = Unlocked(w)
    /\ Finish(w)
    /\ UNCHANGED <<orders, events, prior>>

\* The process dies, or a statement fails.
Crash(w) == pc[w] # "idle" /\ RollBack(w)

\* Who waits for whose transaction to end.
WaitsFor(v, w) ==
    /\ v # w
    /\ \/ pc[v] \in {"update", "lock_row"} /\ ord[v] \in Live /\ lock[ord[v]] = w
       \/ /\ pc[v] = "lock_events" /\ HoldsEvents(w)
          /\ doomed[v] \intersect doomed[w] \intersect events # {}

InCycle(w) ==
    \E S \in SUBSET Worker :
        /\ w \in S
        /\ \A v \in S : \E u \in S : WaitsFor(v, u)
        /\ \A v \in S : \E u \in S : WaitsFor(u, v)

\* PostgreSQL's deadlock detection ends the transaction of one who waits in a cycle.
AbortDeadlock(w) == InCycle(w) /\ RollBack(w)

Request(w) == \/ \E k \in Key : RequestPlace(w, k)
              \/ \E o \in Order : RequestConfirm(w, o)
              \/ RequestReset(w)

Serve(w) == \/ FindLiveOrder(w) \/ InsertOrder(w) \/ CommitPlace(w)
            \/ GetOrder(w) \/ UpdateOrder(w) \/ CommitConfirm(w)
            \/ DeleteEvents(w) \/ LockEvents(w)
            \/ DeleteOrders(w) \/ NextRow(w) \/ LockRow(w) \/ CommitReset(w)

Next == \E w \in Worker : Request(w) \/ Serve(w) \/ Crash(w) \/ AbortDeadlock(w)

Spec == Init /\ [][Next]_vars

\* A thread keeps running, PostgreSQL grants a lock in the order it was asked
\* for, so nobody is passed over for ever, and it looks for deadlocks.
FairSpec ==
    /\ Spec
    /\ \A w \in Worker : SF_vars(Serve(w))
    /\ WF_vars(\E w \in Worker : AbortDeadlock(w))

----------------------------------------------------------------------------
Steps == {"idle", "find", "insert", "inserted", "get", "update", "updated",
          "delete_events", "lock_events", "delete_orders", "lock_orders", "lock_row"}

TypeOK ==
    /\ orders \in [Order -> Row]
    /\ events \subseteq Order \X Worker
    /\ lock \in [Order -> Worker \union {Free}]
    /\ pc \in [Worker -> Steps]
    /\ key \in [Worker -> Key \union {NoKey}]
    /\ ord \in [Worker -> Order \union {NoOrder}]
    /\ arrived \in [Worker -> SUBSET Order]
    /\ doomed \in [Worker -> SUBSET (Order \X Worker)]
    /\ rows \in [Worker -> SUBSET Order]
    /\ prior \in [Order -> SUBSET Order]

\* A retry never doubles an order (orders/actions.py: "an agent that retries ...
\* must not end up with two orders"), as long as it is sent after the first
\* request has committed: two live orders on one key come from requests that
\* overlapped, each of which had arrived before the other's order was there.
NoSequentialDuplicate ==
    \A o, n \in Live : o # n /\ orders[o].key = orders[n].key => o \notin prior[n]

\* The audit trail is complete: an order marked confirmed has its
\* order.confirmation_sent event, whatever a concurrent reset is deleting.
ConfirmedHasEvent ==
    \A o \in Live : orders[o].status = "confirmed" =>
        \E w \in Worker : <<o, w>> \in events

\* A confirmation once recorded stays: only deletion by a reset ends it, and a
\* deleted order never comes back.
ConfirmationSticks ==
    [][\A o \in Order :
           /\ orders[o] = Deleted => orders'[o] = Deleted
           /\ o \in Live /\ orders[o].status = "confirmed" =>
                  orders'[o] \in {orders[o], Deleted}]_vars

\* An order request never dies of a deadlock: only resets deleting orders, many
\* rows in no particular order, can come to wait for each other in a cycle.
OnlyResetsDeadlock == \A w \in Worker : InCycle(w) => pc[w] = "lock_row"

\* Every request is answered, with its result or with an error.
RequestsAnswered == \A w \in Worker : pc[w] # "idle" ~> pc[w] = "idle"

\* Where no two workers handle the same subscriber's requests, the store keeps
\* the promise of OrderBook, resets, crashes and retries included.
BookOf(k) ==
    LET sent(o) == Cardinality({e \in events : e[1] = o})
    IN  CASE Cardinality(LiveOn(k)) = 0 -> [status |-> "none", sent |-> 0]
          [] Cardinality(LiveOn(k)) = 1 ->
                 LET o == CHOOSE o \in LiveOn(k) : TRUE
                 IN  [status |-> orders[o].status, sent |-> sent(o)]
          [] OTHER -> [status |-> "several", sent |-> 0]

Book == INSTANCE OrderBook WITH book <- [k \in Key |-> BookOf(k)]

KeepsTheBook == Book!Spec

\* orders/actions.py: an agent that retries, or a customer who asks twice, "must
\* not end up with two orders".
AtMostOneLiveOrder == \A o, n \in Live : orders[o].key = orders[n].key => o = n

\* scenarios/engine.py, reset: "clears the tenant's ... events and any orders
\* too, so a demo restarts from a genuinely clean slate".  No event is left of
\* an order that is gone.
EventsHaveTheirOrder == \A e \in events : e[1] \in Live
=============================================================================
