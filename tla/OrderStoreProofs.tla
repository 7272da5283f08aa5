--------------------------- MODULE OrderStoreProofs ---------------------------
(****************************************************************************)
(* What OrderStore keeps for any number of workers, keys and orders.        *)
(****************************************************************************)
EXTENDS OrderStore, FiniteSetTheorems, TLAPS

Born == {o \in Order : orders[o].status # "unborn"}

\* A request in the middle of its work knows its order and its key.
WorkInv ==
    \A w \in Worker :
        /\ pc[w] \in {"inserted", "get", "update", "updated", "lock_row"} => ord[w] \in Order
        /\ pc[w] \in {"find", "insert", "inserted"} => key[w] \in Key

\* An order being inserted is nobody else's and has no row yet; everything a
\* request or a committed order remembers was born before.
MintInv ==
    /\ \A w \in Worker : pc[w] = "inserted" => ord[w] \notin Born
    /\ \A v, w \in Worker :
           v # w /\ pc[v] = "inserted" /\ pc[w] = "inserted" => ord[v] # ord[w]
    /\ \A w \in Worker : arrived[w] \subseteq Born /\ rows[w] \subseteq Born
    /\ \A o \in Order : prior[o] \subseteq Born
    /\ \A e \in events : e[1] \in Born
    /\ \A w \in Worker : \A e \in doomed[w] : e[1] \in Born

\* A request that found no live order on its key will never see one of those
\* that were there when it arrived: deleted orders do not come back.
LookupInv ==
    \A w \in Worker : pc[w] \in {"insert", "inserted"} =>
        \A o \in arrived[w] : o \in Live => orders[o].key # key[w]

\* A confirmation about to commit holds the lock of an existing row.
LockInv ==
    \A w \in Worker : pc[w] = "updated" => ord[w] \in Live /\ lock[ord[w]] = w

\* Row locks are held by confirmations about to commit and by resets only.
HolderInv ==
    \A o \in Order : lock[o] # Free =>
        pc[lock[o]] \in {"updated", "lock_orders", "lock_row"}

\* A reset deletes the order of every event it deletes.
ResetInv ==
    \A w \in Worker : pc[w] \in {"lock_orders", "lock_row"} =>
        \A e \in doomed[w] : e[1] \in Live => e[1] \in rows[w]

StoreInv ==
    /\ TypeOK
    /\ WorkInv
    /\ MintInv
    /\ LookupInv
    /\ LockInv
    /\ HolderInv
    /\ ResetInv
    /\ NoSequentialDuplicate
    /\ ConfirmedHasEvent

-----------------------------------------------------------------------------
USE StoreAssumption

\* What a request keeps to itself is well typed when it ends.
LEMMA FinishType ==
    ASSUME TypeOK, NEW w \in Worker, Finish(w)
    PROVE  /\ pc' \in [Worker -> Steps]
           /\ key' \in [Worker -> Key \union {NoKey}]
           /\ ord' \in [Worker -> Order \union {NoOrder}]
           /\ arrived' \in [Worker -> SUBSET Order]
           /\ doomed' \in [Worker -> SUBSET (Order \X Worker)]
           /\ rows' \in [Worker -> SUBSET Order]
BY DEF TypeOK, Finish, Goto, Steps

\* What the end of a request does to its worker, and that it leaves the others alone.
LEMMA FinishOne ==
    ASSUME TypeOK, NEW w \in Worker, Finish(w)
    PROVE  /\ pc'[w] = "idle" /\ arrived'[w] = {} /\ doomed'[w] = {} /\ rows'[w] = {}
           /\ \A v \in Worker \ {w} :
                 /\ pc'[v] = pc[v] /\ key'[v] = key[v] /\ ord'[v] = ord[v]
                 /\ arrived'[v] = arrived[v] /\ doomed'[v] = doomed[v] /\ rows'[v] = rows[v]
BY DEF TypeOK, Finish, Goto

\* A request that ends without writing keeps the invariant, whether it held
\* locks (a crash) or not (an early return or an error).
LEMMA FinishQuiet ==
    ASSUME StoreInv, NEW w \in Worker, Finish(w),
           UNCHANGED <<orders, events, prior>>,
           lock' \in {lock, Unlocked(w)}, \A o \in Order : lock'[o] # w
    PROVE  StoreInv'
<1>1. TypeOK'
  BY FinishType DEF StoreInv, TypeOK, Unlocked
<1>2. Live' = Live /\ Born' = Born
  BY DEF Live, IsRow, Born
<1>3. \A v \in Worker \ {w}, o \in Order : lock[o] = v => lock'[o] = v
  BY DEF StoreInv, TypeOK, Unlocked
<1>4. WorkInv' /\ LookupInv' /\ ResetInv'
  BY <1>2, FinishOne DEF StoreInv, WorkInv, LookupInv, ResetInv
<1>5. MintInv'
  BY <1>2, FinishOne DEF StoreInv, MintInv
<1>6. LockInv'
  BY <1>2, <1>3, FinishOne DEF StoreInv, LockInv, Live
<1>7. NoSequentialDuplicate' /\ ConfirmedHasEvent'
  BY <1>2 DEF StoreInv, NoSequentialDuplicate, ConfirmedHasEvent
<1>8. HolderInv'
  BY <1>1, FinishOne DEF StoreInv, TypeOK, HolderInv, Unlocked
<1> QED BY <1>1, <1>4, <1>5, <1>6, <1>7, <1>8 DEF StoreInv

\* The initial states of the store.
THEOREM InitInv == Init => StoreInv
BY DEF Init, StoreInv, TypeOK, WorkInv, MintInv, LookupInv, LockInv, HolderInv, ResetInv,
   NoSequentialDuplicate, ConfirmedHasEvent, Born, Live, IsRow, Row, Unborn, Steps, Order, NoOrder

\* Every statement of every request keeps the invariant.
THEOREM StepInv ==
    ASSUME StoreInv, Next
    PROVE  StoreInv'
<1>1. PICK w \in Worker : Request(w) \/ Serve(w) \/ Crash(w) \/ AbortDeadlock(w)
  BY DEF Next
<1>2. ASSUME NEW k \in Key, RequestPlace(w, k)
      PROVE  StoreInv'
  <2>1. TypeOK'
    BY <1>2 DEF RequestPlace, Goto, Steps, StoreInv, TypeOK, Live
  <2>2. WorkInv'
    BY <1>2, <2>1 DEF RequestPlace, Goto, StoreInv, TypeOK, WorkInv
  <2>3. MintInv'
    BY <1>2, <2>1 DEF RequestPlace, Goto, StoreInv, MintInv, Born, Live, IsRow
  <2>4. LookupInv'
    BY <1>2, <2>1 DEF RequestPlace, Goto, StoreInv, LookupInv, Live, IsRow
  <2>5. LockInv'
    BY <1>2, <2>1 DEF RequestPlace, Goto, StoreInv, LockInv, Live, IsRow
  <2>6. HolderInv'
    BY <1>2, <2>1 DEF RequestPlace, Goto, StoreInv, HolderInv
  <2>7. ResetInv'
    BY <1>2, <2>1 DEF RequestPlace, Goto, StoreInv, ResetInv, Live, IsRow
  <2>8. NoSequentialDuplicate' /\ ConfirmedHasEvent'
    BY <1>2 DEF RequestPlace, StoreInv, NoSequentialDuplicate, ConfirmedHasEvent, Live, IsRow
  <2> QED BY <2>1, <2>2, <2>3, <2>4, <2>5, <2>6, <2>7, <2>8 DEF StoreInv
<1>3. ASSUME NEW o \in Order, RequestConfirm(w, o)
      PROVE  StoreInv'
  <2>1. TypeOK'
    BY <1>3 DEF RequestConfirm, Goto, Steps, StoreInv, TypeOK
  <2>2. WorkInv'
    BY <1>3, <2>1 DEF RequestConfirm, Goto, StoreInv, TypeOK, WorkInv
  <2>3. MintInv'
    BY <1>3, <2>1 DEF RequestConfirm, Goto, StoreInv, MintInv, Born
  <2>4. LookupInv'
    BY <1>3, <2>1 DEF RequestConfirm, Goto, StoreInv, LookupInv, Live, IsRow
  <2>5. LockInv'
    BY <1>3, <2>1 DEF RequestConfirm, Goto, StoreInv, LockInv, Live, IsRow
  <2>6. HolderInv'
    BY <1>3, <2>1 DEF RequestConfirm, Goto, StoreInv, HolderInv
  <2>7. ResetInv'
    BY <1>3, <2>1 DEF RequestConfirm, Goto, StoreInv, ResetInv, Live, IsRow
  <2>8. NoSequentialDuplicate' /\ ConfirmedHasEvent'
    BY <1>3 DEF RequestConfirm, StoreInv, NoSequentialDuplicate, ConfirmedHasEvent, Live, IsRow
  <2> QED BY <2>1, <2>2, <2>3, <2>4, <2>5, <2>6, <2>7, <2>8 DEF StoreInv
<1>4. ASSUME RequestReset(w)
      PROVE  StoreInv'
  <2>1. TypeOK'
    BY <1>4 DEF RequestReset, Goto, Steps, work, StoreInv, TypeOK
  <2>2. WorkInv'
    BY <1>4, <2>1 DEF RequestReset, Goto, work, StoreInv, WorkInv
  <2>3. MintInv'
    BY <1>4, <2>1 DEF RequestReset, Goto, work, StoreInv, MintInv, Born
  <2>4. LookupInv'
    BY <1>4, <2>1 DEF RequestReset, Goto, work, StoreInv, LookupInv, Live, IsRow
  <2>5. LockInv'
    BY <1>4, <2>1 DEF RequestReset, Goto, work, StoreInv, LockInv, Live, IsRow
  <2>6. HolderInv'
    BY <1>4, <2>1 DEF RequestReset, Goto, StoreInv, HolderInv
  <2>7. ResetInv'
    BY <1>4, <2>1 DEF RequestReset, Goto, work, StoreInv, ResetInv, Live, IsRow
  <2>8. NoSequentialDuplicate' /\ ConfirmedHasEvent'
    BY <1>4 DEF RequestReset, StoreInv, NoSequentialDuplicate, ConfirmedHasEvent, Live, IsRow
  <2> QED BY <2>1, <2>2, <2>3, <2>4, <2>5, <2>6, <2>7, <2>8 DEF StoreInv
<1>5. ASSUME FindLiveOrder(w)
      PROVE  StoreInv'
  <2>1. CASE Finish(w)
    BY <1>5, <2>1, FinishQuiet, FinishOne DEF FindLiveOrder, StoreInv, HolderInv
  <2>2. CASE LiveOn(key[w]) = {} /\ pc'[w] # "idle"
    <3>0. ~Finish(w)
      BY <2>2, FinishOne DEF StoreInv
    <3>1. TypeOK'
      BY <1>5, <2>2, <3>0 DEF FindLiveOrder, Goto, Steps, work, StoreInv, TypeOK
    <3>2. WorkInv'
      BY <1>5, <2>2, <3>0, <3>1 DEF FindLiveOrder, Goto, work, StoreInv, TypeOK, WorkInv
    <3>3. MintInv'
      BY <1>5, <2>2, <3>0, <3>1 DEF FindLiveOrder, Goto, work, StoreInv, TypeOK, MintInv, Born
    <3>4. LookupInv'
      BY <1>5, <2>2, <3>0, <3>1 DEF FindLiveOrder, Goto, work, StoreInv, TypeOK, LookupInv, Live, IsRow, LiveOn
    <3>5. LockInv'
      BY <1>5, <2>2, <3>0, <3>1 DEF FindLiveOrder, Goto, work, StoreInv, TypeOK, LockInv, Live, IsRow
    <3>6. HolderInv'
      BY <1>5, <2>2, <3>0, <3>1 DEF FindLiveOrder, Goto, StoreInv, TypeOK, HolderInv
    <3>7. ResetInv'
      BY <1>5, <2>2, <3>0, <3>1 DEF FindLiveOrder, Goto, work, StoreInv, TypeOK, ResetInv, Live, IsRow
    <3>8. NoSequentialDuplicate' /\ ConfirmedHasEvent'
      BY <1>5, <2>2, <3>0 DEF FindLiveOrder, StoreInv, NoSequentialDuplicate, ConfirmedHasEvent, Live, IsRow
    <3> QED BY <3>1, <3>2, <3>3, <3>4, <3>5, <3>6, <3>7, <3>8 DEF StoreInv
  <2> QED BY <1>5, <2>1, <2>2 DEF FindLiveOrder, Goto, StoreInv, TypeOK
<1>6. ASSUME InsertOrder(w)
      PROVE  StoreInv'
  <2>1. TypeOK'
    BY <1>6 DEF InsertOrder, Goto, Steps, StoreInv, TypeOK
  <2>2. WorkInv'
    BY <1>6, <2>1 DEF InsertOrder, Goto, StoreInv, TypeOK, WorkInv
  <2>3. MintInv'
    BY <1>6, <2>1 DEF InsertOrder, Goto, StoreInv, TypeOK, MintInv, Born, NextId, Minted
  <2>4. LookupInv'
    BY <1>6, <2>1 DEF InsertOrder, Goto, StoreInv, LookupInv, Live, IsRow
  <2>5. LockInv'
    BY <1>6, <2>1 DEF InsertOrder, Goto, StoreInv, LockInv, Live, IsRow
  <2>6. HolderInv'
    BY <1>6, <2>1 DEF InsertOrder, Goto, StoreInv, HolderInv
  <2>7. ResetInv'
    BY <1>6, <2>1 DEF InsertOrder, Goto, StoreInv, ResetInv, Live, IsRow
  <2>8. NoSequentialDuplicate' /\ ConfirmedHasEvent'
    BY <1>6 DEF InsertOrder, StoreInv, NoSequentialDuplicate, ConfirmedHasEvent, Live, IsRow
  <2> QED BY <2>1, <2>2, <2>3, <2>4, <2>5, <2>6, <2>7, <2>8 DEF StoreInv
<1>7. ASSUME CommitPlace(w)
      PROVE  StoreInv'
  <2> DEFINE o == ord[w]
  <2>1. o \in Order /\ o \notin Born /\ key[w] \in Key
    BY <1>7 DEF CommitPlace, StoreInv, WorkInv, MintInv
  <2>2. /\ orders'[o] = [key |-> key[w], status |-> "placed"]
        /\ prior'[o] = arrived[w]
        /\ \A n \in Order \ {o} : orders'[n] = orders[n] /\ prior'[n] = prior[n]
        /\ events' = events /\ lock' = lock
    BY <1>7, <2>1 DEF CommitPlace, StoreInv, TypeOK
  <2>3. Finish(w)
    BY <1>7 DEF CommitPlace
  <2>4. Live' = Live \union {o} /\ Born' = Born \union {o} /\ o \notin Live
    BY <2>1, <2>2 DEF Live, IsRow, Born
  <2>5. TypeOK'
    <3>1. orders' \in [Order -> Row] /\ prior' \in [Order -> SUBSET Order]
      BY <1>7, <2>1 DEF CommitPlace, StoreInv, TypeOK, Row
    <3> QED BY <2>2, <2>3, <3>1, FinishType DEF StoreInv, TypeOK
  <2>6. WorkInv'
    BY <2>3, FinishOne DEF StoreInv, WorkInv
  <2>7. MintInv'
    BY <1>7, <2>1, <2>2, <2>3, <2>4, FinishOne DEF CommitPlace, StoreInv, MintInv
  <2>8. LookupInv'
    <3>1. \A v \in Worker : o \notin arrived[v]
      BY <2>1 DEF StoreInv, MintInv
    <3> QED BY <2>2, <2>3, <2>4, <3>1, FinishOne DEF StoreInv, LookupInv, Live
  <2>9. LockInv'
    BY <2>2, <2>3, <2>4, FinishOne DEF StoreInv, LockInv
  <2>10. ResetInv'
    <3>1. \A v \in Worker : \A e \in doomed[v] : e[1] # o
      BY <2>1 DEF StoreInv, MintInv
    <3> QED BY <2>3, <2>4, <3>1, FinishOne DEF StoreInv, ResetInv
  <2>11. NoSequentialDuplicate'
    <3>1. \A n \in Live : orders[n].key = key[w] => n \notin arrived[w]
      BY <1>7 DEF CommitPlace, StoreInv, LookupInv
    <3>2. \A n \in Order : o \notin prior[n]
      BY <2>1 DEF StoreInv, MintInv
    <3> QED BY <2>2, <2>4, <3>1, <3>2 DEF StoreInv, NoSequentialDuplicate, Live
  <2>12. ConfirmedHasEvent'
    <3>1. \A n \in Live' : orders'[n].status = "confirmed" => n \in Live /\ orders'[n] = orders[n]
      BY <2>2, <2>4 DEF Live
    <3> QED BY <2>2, <3>1 DEF StoreInv, ConfirmedHasEvent
  <2>13. HolderInv'
    BY <1>7, <2>2, <2>3, FinishOne DEF CommitPlace, StoreInv, TypeOK, HolderInv
  <2> QED BY <2>5, <2>6, <2>7, <2>8, <2>9, <2>10, <2>11, <2>12, <2>13 DEF StoreInv
<1>8. ASSUME GetOrder(w)
      PROVE  StoreInv'
  <2>1. CASE Finish(w)
    BY <1>8, <2>1, FinishQuiet, FinishOne DEF GetOrder, StoreInv, HolderInv
  <2>2. CASE Confirmable(w, ord[w]) /\ pc'[w] # "idle"
    <3>0. ~Finish(w)
      BY <2>2, FinishOne DEF StoreInv
    <3>1. TypeOK'
      BY <1>8, <2>2, <3>0 DEF GetOrder, Goto, Steps, work, StoreInv, TypeOK
    <3>2. WorkInv'
      BY <1>8, <2>2, <3>0, <3>1 DEF GetOrder, Goto, work, StoreInv, TypeOK, WorkInv
    <3>3. MintInv'
      BY <1>8, <2>2, <3>0, <3>1 DEF GetOrder, Goto, work, StoreInv, TypeOK, MintInv, Born
    <3>4. LookupInv'
      BY <1>8, <2>2, <3>0, <3>1 DEF GetOrder, Goto, work, StoreInv, TypeOK, LookupInv, Live, IsRow
    <3>5. LockInv'
      BY <1>8, <2>2, <3>0, <3>1 DEF GetOrder, Goto, work, StoreInv, TypeOK, LockInv, Live, IsRow
    <3>6. HolderInv'
      BY <1>8, <2>2, <3>0, <3>1 DEF GetOrder, Goto, StoreInv, TypeOK, HolderInv
    <3>7. ResetInv'
      BY <1>8, <2>2, <3>0, <3>1 DEF GetOrder, Goto, work, StoreInv, TypeOK, ResetInv, Live, IsRow
    <3>8. NoSequentialDuplicate' /\ ConfirmedHasEvent'
      BY <1>8, <2>2, <3>0 DEF GetOrder, StoreInv, NoSequentialDuplicate, ConfirmedHasEvent, Live, IsRow
    <3> QED BY <3>1, <3>2, <3>3, <3>4, <3>5, <3>6, <3>7, <3>8 DEF StoreInv
  <2> QED BY <1>8, <2>1, <2>2 DEF GetOrder, Goto, StoreInv, TypeOK
<1>9. ASSUME UpdateOrder(w)
      PROVE  StoreInv'
  <2>1. CASE ~IsRow(ord[w]) /\ Finish(w) /\ UNCHANGED lock
    BY <1>9, <2>1, FinishQuiet DEF UpdateOrder, StoreInv, HolderInv
  <2>2. CASE /\ IsRow(ord[w]) /\ lock[ord[w]] = Free
             /\ lock' = [lock EXCEPT ![ord[w]] = w]
             /\ Goto(w, "updated") /\ UNCHANGED work
    <3>1. pc[w] = "update" /\ UNCHANGED <<orders, events, prior>>
      BY <1>9 DEF UpdateOrder
    <3>2. /\ pc'[w] = "updated"
          /\ \A v \in Worker \ {w} : pc'[v] = pc[v]
          /\ pc' \in [Worker -> Steps]
      BY <2>2 DEF Goto, StoreInv, TypeOK, Steps
    <3>3. Live' = Live /\ Born' = Born
      BY <3>1 DEF Live, IsRow, Born
    <3>4. ord[w] \in Live
      BY <2>2, <3>1 DEF StoreInv, WorkInv, Live
    <3>5. TypeOK'
      BY <2>2, <3>1, <3>2 DEF work, StoreInv, TypeOK
    <3>6. WorkInv' /\ MintInv'
      BY <2>2, <3>1, <3>2, <3>3 DEF work, StoreInv, WorkInv, MintInv
    <3>7. LookupInv' /\ ResetInv'
      BY <2>2, <3>1, <3>2, <3>3 DEF work, StoreInv, LookupInv, ResetInv
    <3>8. LockInv'
      <4>1. lock'[ord[w]] = w /\ \A n \in Order : lock[n] # Free => lock'[n] = lock[n]
        BY <2>2, <3>4 DEF StoreInv, TypeOK, Live
      <4> QED BY <2>2, <3>2, <3>3, <3>4, <4>1 DEF work, StoreInv, LockInv
    <3>9. NoSequentialDuplicate' /\ ConfirmedHasEvent'
      BY <3>1, <3>3 DEF StoreInv, NoSequentialDuplicate, ConfirmedHasEvent
    <3>10. HolderInv'
      BY <2>2, <3>1, <3>2, <3>5 DEF StoreInv, TypeOK, HolderInv
    <3> QED BY <3>5, <3>6, <3>7, <3>8, <3>9, <3>10 DEF StoreInv
  <2> QED BY <1>9, <2>1, <2>2 DEF UpdateOrder
<1>10. ASSUME CommitConfirm(w)
      PROVE  StoreInv'
  <2> DEFINE o == ord[w]
  <2>1. o \in Live /\ lock[o] = w
    BY <1>10 DEF CommitConfirm, StoreInv, LockInv
  <2>2. /\ orders'[o] = [key |-> orders[o].key, status |-> "confirmed"]
        /\ \A n \in Order \ {o} : orders'[n] = orders[n]
        /\ orders' \in [Order -> Row]
    <3>1. orders[o] \in [key : Key, status : {"placed", "confirmed"}]
      BY <2>1 DEF StoreInv, TypeOK, Row, Unborn, Deleted, Live, IsRow
    <3>2. orders' = [orders EXCEPT ![o].status = "confirmed"] /\ o \in Order
      BY <1>10, <2>1 DEF CommitConfirm, Live
    <3> QED BY <3>1, <3>2 DEF StoreInv, TypeOK, Row
  <2>3. events' = events \union {<<o, w>>} /\ prior' = prior /\ Finish(w)
    BY <1>10 DEF CommitConfirm
  <2>4. /\ Live' = Live /\ Born' = Born
        /\ \A n \in Live : orders'[n].key = orders[n].key
    BY <2>1, <2>2 DEF Live, IsRow, Born
  <2>5. /\ lock' \in [Order -> Worker \union {Free}]
        /\ \A v \in Worker \ {w}, n \in Order : lock[n] = v => lock'[n] = v
    BY <1>10 DEF CommitConfirm, StoreInv, TypeOK, Unlocked
  <2>6. TypeOK'
    <3>1. events' \subseteq Order \X Worker
      BY <2>1, <2>3 DEF StoreInv, TypeOK, Live
    <3> QED BY <2>2, <2>3, <2>5, <3>1, FinishType DEF StoreInv, TypeOK
  <2>7. WorkInv'
    BY <2>3, FinishOne DEF StoreInv, WorkInv
  <2>8. MintInv'
    <3>1. o \in Born
      BY <2>1 DEF Live, IsRow, Born
    <3> QED BY <2>3, <2>4, <3>1, FinishOne DEF StoreInv, MintInv
  <2>9. LookupInv'
    BY <2>3, <2>4, FinishOne DEF StoreInv, LookupInv
  <2>10. LockInv'
    BY <2>3, <2>4, <2>5, FinishOne DEF StoreInv, LockInv, Live
  <2>11. ResetInv'
    BY <2>3, <2>4, FinishOne DEF StoreInv, ResetInv
  <2>12. NoSequentialDuplicate'
    BY <2>3, <2>4 DEF StoreInv, NoSequentialDuplicate
  <2>13. ConfirmedHasEvent'
    BY <2>2, <2>3, <2>4 DEF StoreInv, ConfirmedHasEvent, Live
  <2>14. HolderInv'
    BY <1>10, <2>3, FinishOne DEF CommitConfirm, StoreInv, TypeOK, HolderInv, Unlocked
  <2> QED BY <2>6, <2>7, <2>8, <2>9, <2>10, <2>11, <2>12, <2>13, <2>14 DEF StoreInv
<1>11. ASSUME DeleteEvents(w)
      PROVE  StoreInv'
  <2>1. TypeOK'
    BY <1>11 DEF DeleteEvents, Goto, Steps, StoreInv, TypeOK
  <2>2. WorkInv'
    BY <1>11, <2>1 DEF DeleteEvents, Goto, StoreInv, WorkInv
  <2>3. MintInv'
    BY <1>11, <2>1 DEF DeleteEvents, Goto, StoreInv, MintInv, Born
  <2>4. LookupInv'
    BY <1>11, <2>1 DEF DeleteEvents, Goto, StoreInv, LookupInv, Live, IsRow
  <2>5. LockInv'
    BY <1>11, <2>1 DEF DeleteEvents, Goto, StoreInv, LockInv, Live, IsRow
  <2>6. HolderInv'
    BY <1>11, <2>1 DEF DeleteEvents, Goto, StoreInv, HolderInv
  <2>7. ResetInv'
    BY <1>11, <2>1 DEF DeleteEvents, Goto, StoreInv, ResetInv, Live, IsRow
  <2>8. NoSequentialDuplicate' /\ ConfirmedHasEvent'
    BY <1>11 DEF DeleteEvents, StoreInv, NoSequentialDuplicate, ConfirmedHasEvent, Live, IsRow
  <2> QED BY <2>1, <2>2, <2>3, <2>4, <2>5, <2>6, <2>7, <2>8 DEF StoreInv
<1>12. ASSUME LockEvents(w)
      PROVE  StoreInv'
  <2>1. TypeOK'
    BY <1>12 DEF LockEvents, Goto, Steps, work, StoreInv, TypeOK
  <2>2. WorkInv'
    BY <1>12, <2>1 DEF LockEvents, Goto, work, StoreInv, WorkInv
  <2>3. MintInv'
    BY <1>12, <2>1 DEF LockEvents, Goto, work, StoreInv, MintInv, Born
  <2>4. LookupInv'
    BY <1>12, <2>1 DEF LockEvents, Goto, work, StoreInv, LookupInv, Live, IsRow
  <2>5. LockInv'
    BY <1>12, <2>1 DEF LockEvents, Goto, work, StoreInv, LockInv, Live, IsRow
  <2>6. HolderInv'
    BY <1>12, <2>1 DEF LockEvents, Goto, StoreInv, HolderInv
  <2>7. ResetInv'
    BY <1>12, <2>1 DEF LockEvents, Goto, work, StoreInv, ResetInv, Live, IsRow
  <2>8. NoSequentialDuplicate' /\ ConfirmedHasEvent'
    BY <1>12 DEF LockEvents, StoreInv, NoSequentialDuplicate, ConfirmedHasEvent, Live, IsRow
  <2> QED BY <2>1, <2>2, <2>3, <2>4, <2>5, <2>6, <2>7, <2>8 DEF StoreInv
<1>13. ASSUME DeleteOrders(w)
      PROVE  StoreInv'
  <2>1. TypeOK'
    BY <1>13 DEF DeleteOrders, Goto, Steps, StoreInv, TypeOK, Live
  <2>2. WorkInv'
    BY <1>13, <2>1 DEF DeleteOrders, Goto, StoreInv, WorkInv
  <2>3. MintInv'
    BY <1>13, <2>1 DEF DeleteOrders, Goto, StoreInv, MintInv, Born, Live, IsRow
  <2>4. LookupInv'
    BY <1>13, <2>1 DEF DeleteOrders, Goto, StoreInv, LookupInv, Live, IsRow
  <2>5. LockInv'
    BY <1>13, <2>1 DEF DeleteOrders, Goto, StoreInv, LockInv, Live, IsRow
  <2>6. HolderInv'
    BY <1>13, <2>1 DEF DeleteOrders, Goto, StoreInv, HolderInv
  <2>7. ResetInv'
    BY <1>13, <2>1 DEF DeleteOrders, Goto, StoreInv, TypeOK, ResetInv, Live, IsRow
  <2>8. NoSequentialDuplicate' /\ ConfirmedHasEvent'
    BY <1>13 DEF DeleteOrders, StoreInv, NoSequentialDuplicate, ConfirmedHasEvent, Live, IsRow
  <2> QED BY <2>1, <2>2, <2>3, <2>4, <2>5, <2>6, <2>7, <2>8 DEF StoreInv
<1>14. ASSUME NextRow(w)
      PROVE  StoreInv'
  <2>1. TypeOK'
    BY <1>14 DEF NextRow, Goto, Steps, StoreInv, TypeOK, ToLock
  <2>2. WorkInv'
    BY <1>14, <2>1 DEF NextRow, Goto, StoreInv, TypeOK, WorkInv, ToLock
  <2>3. MintInv'
    BY <1>14, <2>1 DEF NextRow, Goto, StoreInv, MintInv, Born
  <2>4. LookupInv'
    BY <1>14, <2>1 DEF NextRow, Goto, StoreInv, LookupInv, Live, IsRow
  <2>5. LockInv'
    BY <1>14, <2>1 DEF NextRow, Goto, StoreInv, LockInv, Live, IsRow
  <2>6. HolderInv'
    BY <1>14, <2>1 DEF NextRow, Goto, StoreInv, HolderInv
  <2>7. ResetInv'
    BY <1>14, <2>1 DEF NextRow, Goto, StoreInv, ResetInv, Live, IsRow
  <2>8. NoSequentialDuplicate' /\ ConfirmedHasEvent'
    BY <1>14 DEF NextRow, StoreInv, NoSequentialDuplicate, ConfirmedHasEvent, Live, IsRow
  <2> QED BY <2>1, <2>2, <2>3, <2>4, <2>5, <2>6, <2>7, <2>8 DEF StoreInv
<1>15. ASSUME LockRow(w)
      PROVE  StoreInv'
  <2>1. TypeOK'
    BY <1>15 DEF LockRow, Goto, Steps, StoreInv, TypeOK
  <2>2. WorkInv'
    BY <1>15, <2>1 DEF LockRow, Goto, StoreInv, TypeOK, WorkInv
  <2>3. MintInv'
    BY <1>15, <2>1 DEF LockRow, Goto, StoreInv, MintInv, Born
  <2>4. LookupInv'
    BY <1>15, <2>1 DEF LockRow, Goto, StoreInv, LookupInv, Live, IsRow
  <2>5. LockInv'
    BY <1>15, <2>1 DEF LockRow, Goto, StoreInv, TypeOK, LockInv, Live, IsRow
  <2>6. HolderInv'
    BY <1>15, <2>1 DEF LockRow, Goto, StoreInv, TypeOK, HolderInv
  <2>7. ResetInv'
    BY <1>15, <2>1 DEF LockRow, Goto, StoreInv, ResetInv, Live, IsRow
  <2>8. NoSequentialDuplicate' /\ ConfirmedHasEvent'
    BY <1>15 DEF LockRow, StoreInv, NoSequentialDuplicate, ConfirmedHasEvent, Live, IsRow
  <2> QED BY <2>1, <2>2, <2>3, <2>4, <2>5, <2>6, <2>7, <2>8 DEF StoreInv
<1>16. ASSUME CommitReset(w)
      PROVE  StoreInv'
  <2>1. /\ \A o \in Order : orders'[o] = IF o \in rows[w] THEN Deleted ELSE orders[o]
        /\ orders' \in [Order -> Row]
    BY <1>16 DEF CommitReset, StoreInv, TypeOK, Row
  <2>2. events' = events \ doomed[w] /\ prior' = prior /\ Finish(w)
    BY <1>16 DEF CommitReset
  <2>3. /\ lock' \in [Order -> Worker \union {Free}]
        /\ \A v \in Worker \ {w}, n \in Order : lock[n] = v => lock'[n] = v
    BY <1>16 DEF CommitReset, StoreInv, TypeOK, Unlocked
  <2>4. /\ Live' = Live \ rows[w] /\ Born \subseteq Born'
        /\ \A n \in Live' : orders'[n] = orders[n]
    BY <2>1 DEF Live, IsRow, Born, Deleted
  <2>5. TypeOK'
    BY <2>1, <2>2, <2>3, FinishType DEF StoreInv, TypeOK
  <2>6. WorkInv'
    BY <2>2, FinishOne DEF StoreInv, WorkInv
  <2>7. MintInv'
    <3>1. Born' = Born
      BY <2>1 DEF StoreInv, MintInv, Born, Deleted
    <3> QED BY <2>2, <3>1, FinishOne DEF StoreInv, MintInv
  <2>8. LookupInv'
    BY <2>2, <2>4, FinishOne DEF StoreInv, LookupInv
  <2>9. LockInv'
    <3>1. \A n \in Live \intersect rows[w] : lock[n] = w
      BY <1>16 DEF CommitReset, ToLock, Live
    <3> QED BY <2>2, <2>3, <2>4, <3>1, FinishOne DEF StoreInv, LockInv, Live
  <2>10. ResetInv'
    BY <2>2, <2>4, FinishOne DEF StoreInv, ResetInv
  <2>11. NoSequentialDuplicate'
    BY <2>2, <2>4 DEF StoreInv, NoSequentialDuplicate
  <2>12. ConfirmedHasEvent'
    <3>1. \A e \in doomed[w] : e[1] \in Live => e[1] \in rows[w]
      BY <1>16 DEF CommitReset, StoreInv, ResetInv
    <3> QED BY <2>2, <2>4, <3>1 DEF StoreInv, ConfirmedHasEvent
  <2>13. HolderInv'
    BY <1>16, <2>2, FinishOne DEF CommitReset, StoreInv, TypeOK, HolderInv, Unlocked
  <2> QED BY <2>5, <2>6, <2>7, <2>8, <2>9, <2>10, <2>11, <2>12, <2>13 DEF StoreInv
<1>17. ASSUME Crash(w) \/ AbortDeadlock(w)
      PROVE  StoreInv'
  BY <1>17, FinishQuiet DEF Crash, AbortDeadlock, RollBack, Unlocked
<1> QED BY <1>1, <1>2, <1>3, <1>4, <1>5, <1>6, <1>7, <1>8, <1>9, <1>10, <1>11, <1>12, <1>13, <1>14, <1>15, <1>16, <1>17 DEF Request, Serve

-----------------------------------------------------------------------------
LEMMA StutterInv ==
    ASSUME StoreInv, UNCHANGED vars
    PROVE  StoreInv'
<1>1. Live' = Live /\ Born' = Born
  BY DEF vars, Live, IsRow, Born
<1> QED BY <1>1 DEF vars, StoreInv, TypeOK, WorkInv, MintInv, LookupInv, LockInv, HolderInv, ResetInv,
                    NoSequentialDuplicate, ConfirmedHasEvent

\* StoreInv in every reachable state.
THEOREM Invariance == Spec => []StoreInv
<1>1. StoreInv /\ [Next]_vars => StoreInv'
  BY StepInv, StutterInv
<1> QED BY InitInv, <1>1, PTL DEF Spec

\* Every variable keeps its type.
THEOREM TypeCorrect == Spec => []TypeOK
<1>1. StoreInv => TypeOK
  BY DEF StoreInv
<1> QED BY Invariance, <1>1, PTL

\* place: a retry sent after the first request's commit never doubles the order.
THEOREM RetrySafe == Spec => []NoSequentialDuplicate
<1>1. StoreInv => NoSequentialDuplicate
  BY DEF StoreInv
<1> QED BY Invariance, <1>1, PTL

\* send-confirmation against reset: no confirmed order loses its event.
THEOREM AuditComplete == Spec => []ConfirmedHasEvent
<1>1. StoreInv => ConfirmedHasEvent
  BY DEF StoreInv
<1> QED BY Invariance, <1>1, PTL

\* Whoever waits in a cycle waits for a lock and holds one, which only a reset
\* deleting orders ever does.
THEOREM OrderRequestsNeverDeadlock == Spec => []OnlyResetsDeadlock
<1>1. ASSUME StoreInv, NEW w \in Worker, InCycle(w)
      PROVE  pc[w] = "lock_row"
  <2>1. PICK u, v \in Worker : WaitsFor(w, u) /\ WaitsFor(v, w)
    BY <1>1 DEF InCycle
  <2>2. pc[w] \in {"update", "lock_row", "lock_events"}
    BY <2>1 DEF WaitsFor
  <2>3. pc[w] \in {"updated", "lock_orders", "lock_row", "delete_orders"}
    BY <1>1, <2>1 DEF WaitsFor, HoldsEvents, StoreInv, HolderInv, Live
  <2> QED BY <2>2, <2>3
<1>2. StoreInv => OnlyResetsDeadlock
  BY <1>1 DEF OnlyResetsDeadlock
<1> QED BY Invariance, <1>2, PTL

\* mark_confirmed is final: a confirmed row changes no more, except by deletion,
\* and a deleted row is never written again.
Sticks ==
    \A o \in Order :
        /\ orders[o] = Deleted => orders'[o] = Deleted
        /\ o \in Live /\ orders[o].status = "confirmed" =>
               orders'[o] \in {orders[o], Deleted}

\* A single step treats the rows of confirmed and deleted orders as it should.
LEMMA StepSticks ==
    ASSUME StoreInv, Next
    PROVE  Sticks
<1>1. PICK w \in Worker : Request(w) \/ Serve(w) \/ Crash(w) \/ AbortDeadlock(w)
  BY DEF Next
<1>2. CASE CommitPlace(w)
  <2>1. ord[w] \in Order /\ orders[ord[w]].status = "unborn"
    BY <1>2 DEF CommitPlace, StoreInv, WorkInv, MintInv, Born
  <2>2. \A o \in Order \ {ord[w]} : orders'[o] = orders[o]
    BY <1>2 DEF CommitPlace
  <2> QED BY <2>1, <2>2 DEF Sticks, Deleted
<1>3. CASE CommitConfirm(w)
  <2>1. ord[w] \in Live
    BY <1>3 DEF CommitConfirm, StoreInv, LockInv
  <2>2. /\ \A o \in Order \ {ord[w]} : orders'[o] = orders[o]
        /\ orders'[ord[w]] = [orders[ord[w]] EXCEPT !.status = "confirmed"]
    BY <1>3, <2>1 DEF CommitConfirm, StoreInv, TypeOK, Live
  <2>3. orders[ord[w]] \in [key : Key, status : {"placed", "confirmed"}]
    BY <2>1 DEF StoreInv, TypeOK, Row, Unborn, Deleted, Live, IsRow
  <2> QED BY <2>1, <2>2, <2>3 DEF Sticks, Deleted
<1>4. CASE CommitReset(w)
  BY <1>4 DEF CommitReset, Sticks
<1>5. CASE UNCHANGED orders
  BY <1>5 DEF Sticks
<1>6. Request(w) \/ Serve(w) \/ Crash(w) \/ AbortDeadlock(w) =>
         CommitPlace(w) \/ CommitConfirm(w) \/ CommitReset(w) \/ UNCHANGED orders
  BY DEF Request, Serve, Crash, AbortDeadlock, RollBack, RequestPlace, RequestConfirm, RequestReset, FindLiveOrder, InsertOrder,
         GetOrder, UpdateOrder, DeleteEvents, LockEvents, DeleteOrders, NextRow, LockRow
<1> QED BY <1>1, <1>2, <1>3, <1>4, <1>5, <1>6

\* What place and send-confirmation write is never lost to a concurrent request.
THEOREM ConfirmationIsFinal == Spec => ConfirmationSticks
<1>1. StoreInv /\ [Next]_vars => [Sticks]_vars
  BY StepSticks
<1>2. [Sticks]_vars <=> [\A o \in Order :
           /\ orders[o] = Deleted => orders'[o] = Deleted
           /\ o \in Live /\ orders[o].status = "confirmed" =>
                  orders'[o] \in {orders[o], Deleted}]_vars
  BY DEF Sticks
<1> QED BY Invariance, <1>1, <1>2, PTL DEF Spec, ConfirmationSticks
-----------------------------------------------------------------------------
(* The order book *)

\* One conversation per subscriber: no two workers serve the same key.
OneConversation == \A v, w \in Worker : v # w => Serves[v] \intersect Serves[w] = {}

\* A place request is about a key of its worker, and once it has found no order
\* there is none, since nobody else could place one.
OwnKeyInv ==
    \A w \in Worker :
        /\ pc[w] \in {"find", "insert", "inserted"} => key[w] \in Serves[w]
        /\ pc[w] \in {"insert", "inserted"} => LiveOn(key[w]) = {}

\* An order to be confirmed was there, is on one of the worker's keys, and still
\* to be confirmed if it is still there.
OwnOrderInv ==
    \A w \in Worker : pc[w] \in {"update", "updated"} =>
        /\ ord[w] \in Born
        /\ ord[w] \in Live => /\ orders[ord[w]].key \in Serves[w]
                              /\ orders[ord[w]].status = "placed"

\* Confirmations on record are of confirmed orders, by the worker of their key.
RecordInv ==
    \A e \in events : e[1] \in Live =>
        orders[e[1]].key \in Serves[e[2]] /\ orders[e[1]].status = "confirmed"

BookInv ==
    /\ StoreInv
    /\ AtMostOneLiveOrder
    /\ OwnKeyInv
    /\ OwnOrderInv
    /\ RecordInv

\* What the book says of a key without a live order, and of one with an order.
LEMMA Page ==
    ASSUME NEW k
    PROVE  /\ LiveOn(k) = {} => BookOf(k) = Book!Absent
           /\ \A o : LiveOn(k) = {o} =>
                  BookOf(k) = [status |-> orders[o].status,
                               sent   |-> Cardinality({e \in events : e[1] = o})]
<1>1. ASSUME LiveOn(k) = {}
      PROVE  BookOf(k) = Book!Absent
  <2>1. Cardinality(LiveOn(k)) = 0
    BY <1>1, FS_EmptySet
  <2>. QED
    BY <2>1 DEF BookOf, Book!Absent
<1>2. ASSUME NEW o, LiveOn(k) = {o}
      PROVE  BookOf(k) = [status |-> orders[o].status,
                          sent   |-> Cardinality({e \in events : e[1] = o})]
  <2>1. Cardinality(LiveOn(k)) = 1
    BY <1>2, FS_Singleton
  <2> DEFINE c == CHOOSE n \in LiveOn(k) : TRUE
  <2>2. c = o
    BY <1>2
  <2>3. BookOf(k) = [status |-> orders[c].status,
                     sent   |-> Cardinality({e \in events : e[1] = c})]
    BY <2>1 DEF BookOf
  <2>. HIDE DEF c
  <2>. QED
    BY <2>2, <2>3
<1>. QED
  BY <1>1, <1>2

\* The pages of a key whose order is still to be confirmed, and of one whose order
\* is confirmed.
LEMMA PageOfOrder ==
    ASSUME OneConversation, BookInv, NEW o \in Live
    PROVE  /\ orders[o].key \in Key /\ LiveOn(orders[o].key) = {o}
           /\ orders[o].status = "placed" => BookOf(orders[o].key) = Book!Placed
           /\ orders[o].status = "confirmed" => BookOf(orders[o].key) = Book!Confirmed
<1> DEFINE k == orders[o].key
           mine == {e \in events : e[1] = o}
<1>1. k \in Key
  BY DEF BookInv, StoreInv, TypeOK, Row, Unborn, Deleted, Live, IsRow
<1>2. LiveOn(k) = {o}
  BY DEF BookInv, AtMostOneLiveOrder, LiveOn
<1>3. BookOf(k) = [status |-> orders[o].status, sent |-> Cardinality(mine)]
  BY <1>2, Page
<1>4. ASSUME orders[o].status = "placed"
      PROVE  BookOf(k) = Book!Placed
  <2>1. mine = {}
    BY <1>4 DEF BookInv, RecordInv
  <2>. QED
    BY <1>3, <1>4, <2>1, FS_EmptySet DEF Book!Placed
<1>5. ASSUME orders[o].status = "confirmed"
      PROVE  BookOf(k) = Book!Confirmed
  <2>1. PICK w \in Worker : <<o, w>> \in events
    BY <1>5 DEF BookInv, StoreInv, ConfirmedHasEvent
  <2>2. \A e \in mine : e = <<o, e[2]>> /\ e[2] \in Worker /\ k \in Serves[e[2]]
    BY DEF BookInv, StoreInv, TypeOK, RecordInv
  <2>3. mine = {<<o, w>>}
    BY <2>1, <2>2 DEF OneConversation
  <2>4. Cardinality(mine) = 1
    BY <2>3, FS_Singleton
  <2>. QED
    BY <1>3, <1>5, <2>4 DEF Book!Confirmed
<1>. QED
  BY <1>1, <1>2, <1>4, <1>5

\* A page stays as it is while the orders on its key and their events do.
LEMMA SamePage ==
    ASSUME BookInv, NEW k, LiveOn(k)' = LiveOn(k),
           \A o \in LiveOn(k) : /\ orders'[o] = orders[o]
                                /\ {e \in events' : e[1] = o} = {e \in events : e[1] = o}
    PROVE  BookOf(k)' = BookOf(k)
<1>1. CASE LiveOn(k) = {}
  <2>1. Cardinality(LiveOn(k)) = 0 /\ Cardinality(LiveOn(k)') = 0
    BY <1>1, FS_EmptySet
  <2>. QED
    BY <2>1 DEF BookOf
<1>2. CASE LiveOn(k) # {}
  <2>1. PICK o \in LiveOn(k) : LiveOn(k) = {o}
    BY <1>2 DEF BookInv, AtMostOneLiveOrder, LiveOn
  <2>2. Cardinality(LiveOn(k)) = 1 /\ Cardinality(LiveOn(k)') = 1
    BY <2>1, FS_Singleton
  <2> DEFINE c == CHOOSE n \in LiveOn(k) : TRUE
             d == CHOOSE n \in LiveOn(k)' : TRUE
  <2>3. c = o /\ d = o
    BY <2>1
  <2>4. BookOf(k) = [status |-> orders[c].status,
                     sent   |-> Cardinality({e \in events : e[1] = c})]
    BY <2>2 DEF BookOf
  <2>5. BookOf(k)' = [status |-> orders'[d].status,
                      sent   |-> Cardinality({e \in events' : e[1] = d})]
    BY <2>2 DEF BookOf
  <2>. HIDE DEF c, d
  <2>. QED
    BY <2>1, <2>3, <2>4, <2>5
<1>. QED
  BY <1>1, <1>2

\* The book has the right page for every order there is.
Pages ==
    \A o \in Live :
        /\ LiveOn(orders[o].key) = {o}
        /\ orders[o].status = "placed" => BookOf(orders[o].key) = Book!Placed
        /\ orders[o].status = "confirmed" => BookOf(orders[o].key) = Book!Confirmed

Blanks == \A k : LiveOn(k) = {} => BookOf(k) = Book!Absent

\* They are right after a step, too, if the invariant holds then.
LEMMA NextPages ==
    ASSUME OneConversation
    PROVE  Blanks' /\ (BookInv => Pages)'
<1>1. Blanks
  BY Page DEF Blanks
<1>2. BookInv => Pages
  BY PageOfOrder DEF Pages
<1>. QED
  BY <1>1, <1>2, PTL

\* A statement that writes nothing keeps what the book rests on.
LEMMA QuietBook ==
    ASSUME BookInv, NEW w \in Worker, UNCHANGED <<orders, events>>,
           \A v \in Worker \ {w} :
               pc'[v] = pc[v] /\ key'[v] = key[v] /\ ord'[v] = ord[v],
           StoreInv',
           pc'[w] \in {"find", "insert", "inserted"} => key'[w] \in Serves[w],
           pc'[w] \in {"insert", "inserted"} => LiveOn(key'[w]) = {},
           pc'[w] \in {"update", "updated"} =>
               /\ ord'[w] \in Born
               /\ ord'[w] \in Live => /\ orders[ord'[w]].key \in Serves[w]
                                      /\ orders[ord'[w]].status = "placed"
    PROVE  BookInv'
<1>1. Live' = Live /\ Born' = Born /\ \A k : LiveOn(k)' = LiveOn(k)
  BY DEF Live, IsRow, LiveOn, Born
<1>2. AtMostOneLiveOrder' /\ RecordInv'
  BY <1>1 DEF BookInv, AtMostOneLiveOrder, RecordInv
<1>3. OwnKeyInv'
  BY <1>1 DEF BookInv, OwnKeyInv, LiveOn
<1>4. OwnOrderInv'
  BY <1>1 DEF BookInv, OwnOrderInv
<1>. QED
  BY <1>2, <1>3, <1>4 DEF BookInv

\* A commit of place writes a page of the book that was blank.
LEMMA PlaceBook ==
    ASSUME OneConversation, BookInv, StoreInv', NEW w \in Worker, CommitPlace(w)
    PROVE  BookInv' /\ \E k \in Key : Book!Place(k)
<1>0. PICK o, k : o = ord[w] /\ k = key[w]
  OBVIOUS
<1>1. /\ o \in Order /\ o \notin Born /\ k \in Serves[w] /\ k \in Key
      /\ LiveOn(k) = {}
  BY <1>0 DEF CommitPlace, BookInv, OwnKeyInv, StoreInv, WorkInv, MintInv
<1>2. /\ orders'[o] = [key |-> k, status |-> "placed"]
      /\ \A n \in Order \ {o} : orders'[n] = orders[n]
      /\ events' = events /\ Finish(w)
  BY <1>0, <1>1 DEF CommitPlace, BookInv, StoreInv, TypeOK
<1>3. Live' = Live \union {o} /\ o \notin Live /\ Born' = Born \union {o}
  BY <1>1, <1>2 DEF Live, IsRow, Born
<1>4. \A e \in events : e[1] # o
  BY <1>1 DEF BookInv, StoreInv, MintInv
<1>5. /\ pc'[w] = "idle"
      /\ \A v \in Worker \ {w} :
            pc'[v] = pc[v] /\ key'[v] = key[v] /\ ord'[v] = ord[v]
  BY <1>2, FinishOne DEF BookInv, StoreInv
<1>6. /\ LiveOn(k)' = {o}
      /\ \A j : j # k => LiveOn(j)' = LiveOn(j)
  <2>1. \A n \in Live : n \in Order \ {o}
    BY <1>3 DEF Live
  <2>2. \A n \in Live : orders'[n] = orders[n]
    BY <1>2, <2>1
  <2>3. orders'[o].key = k
    BY <1>2
  <2>4. \A j : LiveOn(j)' = {n \in Live : orders'[n].key = j} \union {n \in {o} : j = k}
    BY <1>3, <2>3 DEF LiveOn
  <2>5. \A j : LiveOn(j)' = LiveOn(j) \union {n \in {o} : j = k}
    BY <2>2, <2>4 DEF LiveOn
  <2>. QED
    BY <1>1, <2>5
<1>7. AtMostOneLiveOrder'
  BY <1>1, <1>2, <1>3 DEF BookInv, AtMostOneLiveOrder, LiveOn, Live
<1>8. OwnKeyInv'
  <2>1. \A v \in Worker \ {w} : k \notin Serves[v]
    BY <1>1 DEF OneConversation
  <2>. QED
    BY <1>5, <1>6, <2>1 DEF BookInv, OwnKeyInv
<1>9. OwnOrderInv'
  BY <1>1, <1>2, <1>3, <1>5 DEF BookInv, OwnOrderInv, Live
<1>10. RecordInv'
  BY <1>2, <1>3, <1>4 DEF BookInv, RecordInv, Live
<1>11. BookInv'
  BY <1>7, <1>8, <1>9, <1>10 DEF BookInv
<1>12. Book!Place(k)
  <2>1. BookOf(k) = Book!Absent
    BY <1>1, Page
  <2>2. BookOf(k)' = Book!Placed
    BY <1>2, <1>3, <1>11, NextPages DEF Pages
  <2>3. \A j \in Key \ {k} : BookOf(j)' = BookOf(j)
    <3>. SUFFICES ASSUME NEW j \in Key \ {k}
                  PROVE  BookOf(j)' = BookOf(j)
      OBVIOUS
    <3>1. LiveOn(j)' = LiveOn(j)
      BY <1>6
    <3>2. \A n \in LiveOn(j) : orders'[n] = orders[n]
      BY <1>2, <1>3 DEF LiveOn, Live
    <3>. QED
      BY <1>2, <1>11, <3>1, <3>2, SamePage
  <2>. QED
    BY <1>1, <2>1, <2>2, <2>3 DEF Book!Place
<1>. QED
  BY <1>1, <1>11, <1>12

\* A commit of send-confirmation confirms the order on its page.
LEMMA ConfirmBook ==
    ASSUME OneConversation, BookInv, StoreInv', NEW w \in Worker, CommitConfirm(w)
    PROVE  BookInv' /\ \E k \in Key : Book!Confirm(k)
<1>0. PICK o, k : o = ord[w] /\ k = orders[o].key
  OBVIOUS
<1>1. /\ o \in Live /\ o \in Order /\ k \in Serves[w]
      /\ orders[o].status = "placed" /\ Finish(w)
  BY <1>0 DEF CommitConfirm, BookInv, OwnOrderInv, StoreInv, LockInv, Live
<1>2. k \in Key /\ LiveOn(k) = {o} /\ BookOf(k) = Book!Placed
  BY <1>0, <1>1, PageOfOrder
<1>3. /\ orders'[o].key = k /\ orders'[o].status = "confirmed"
      /\ \A n \in Order \ {o} : orders'[n] = orders[n]
      /\ events' = events \union {<<o, w>>}
  <2>1. orders[o] \in [key : Key, status : {"placed", "confirmed"}]
    BY <1>1 DEF BookInv, StoreInv, TypeOK, Row, Unborn, Deleted, Live, IsRow
  <2>2. orders' = [orders EXCEPT ![o].status = "confirmed"]
    BY <1>0 DEF CommitConfirm
  <2>. QED
    BY <1>0, <1>1, <2>1, <2>2 DEF CommitConfirm, BookInv, StoreInv, TypeOK
<1>4. Live' = Live /\ Born' = Born /\ \A n \in Live : orders'[n].key = orders[n].key
  BY <1>0, <1>1, <1>3 DEF Live, IsRow, Born
<1>5. \A j : LiveOn(j)' = LiveOn(j)
  BY <1>4 DEF LiveOn
<1>6. /\ pc'[w] = "idle"
      /\ \A v \in Worker \ {w} :
            pc'[v] = pc[v] /\ key'[v] = key[v] /\ ord'[v] = ord[v]
  BY <1>1, FinishOne DEF BookInv, StoreInv
<1>7. AtMostOneLiveOrder'
  BY <1>4 DEF BookInv, AtMostOneLiveOrder
<1>8. OwnKeyInv'
  BY <1>5, <1>6 DEF BookInv, OwnKeyInv
<1>9. OwnOrderInv'
  <2>1. \A v \in Worker \ {w} : k \notin Serves[v]
    BY <1>1 DEF OneConversation
  <2>. QED
    BY <1>0, <1>1, <1>3, <1>4, <1>6, <2>1 DEF BookInv, OwnOrderInv, Live
<1>10. RecordInv'
  BY <1>1, <1>3, <1>4 DEF BookInv, RecordInv, Live
<1>11. BookInv'
  BY <1>7, <1>8, <1>9, <1>10 DEF BookInv
<1>12. Book!Confirm(k)
  <2>1. BookOf(k)' = Book!Confirmed
    BY <1>1, <1>3, <1>4, <1>11, NextPages DEF Pages
  <2>2. \A j \in Key \ {k} : BookOf(j)' = BookOf(j)
    <3>. SUFFICES ASSUME NEW j \in Key \ {k}
                  PROVE  BookOf(j)' = BookOf(j)
      OBVIOUS
    <3>1. \A n \in LiveOn(j) : n \in Order \ {o}
      BY <1>0 DEF LiveOn, Live
    <3>2. \A n \in LiveOn(j) : orders'[n] = orders[n]
      BY <1>3, <3>1
    <3>3. \A n \in LiveOn(j) : {e \in events' : e[1] = n} = {e \in events : e[1] = n}
      BY <1>3, <3>1
    <3>. QED
      BY <1>5, <1>11, <3>2, <3>3, SamePage
  <2>. QED
    BY <1>2, <2>1, <2>2 DEF Book!Confirm
<1>. QED
  BY <1>2, <1>11, <1>12

\* A commit of reset clears the pages of the orders it found, and no other.
LEMMA ResetBook ==
    ASSUME OneConversation, BookInv, StoreInv', NEW w \in Worker, CommitReset(w)
    PROVE  BookInv' /\ \E S \in SUBSET Key : Book!Clear(S)
<1>0. PICK R, D : R = rows[w] /\ D = doomed[w]
  OBVIOUS
<1>1. /\ \A o \in Order : orders'[o] = IF o \in R THEN Deleted ELSE orders[o]
      /\ events' = events \ D /\ Finish(w)
  BY <1>0 DEF CommitReset
<1>2. /\ Live' = Live \ R
      /\ \A n \in Live' : n \in Order /\ orders'[n] = orders[n]
  BY <1>1 DEF Live, IsRow, Deleted
<1>3. Born \subseteq Born'
  BY <1>1 DEF Born, Deleted
<1>4. \A e \in D : e[1] \in Live => e[1] \in R
  BY <1>0 DEF CommitReset, BookInv, StoreInv, ResetInv
<1>5. \A j : LiveOn(j)' = LiveOn(j) \ R
  BY <1>2 DEF LiveOn
<1>6. /\ pc'[w] = "idle"
      /\ \A v \in Worker \ {w} :
            pc'[v] = pc[v] /\ key'[v] = key[v] /\ ord'[v] = ord[v]
  BY <1>1, FinishOne DEF BookInv, StoreInv
<1>7. AtMostOneLiveOrder'
  BY <1>2 DEF BookInv, AtMostOneLiveOrder
<1>8. OwnKeyInv'
  BY <1>5, <1>6 DEF BookInv, OwnKeyInv
<1>9. OwnOrderInv'
  BY <1>2, <1>3, <1>6 DEF BookInv, OwnOrderInv
<1>10. RecordInv'
  BY <1>1, <1>2 DEF BookInv, RecordInv
<1>11. BookInv'
  BY <1>7, <1>8, <1>9, <1>10 DEF BookInv
<1>12. PICK S : S = {k \in Key : LiveOn(k) \intersect R # {}}
  OBVIOUS
<1>13. ASSUME NEW j \in S
       PROVE  BookOf(j)' = Book!Absent
  <2>1. PICK o : o \in LiveOn(j) \intersect R
    BY <1>12, <1>13
  <2>2. LiveOn(j) = {o}
    BY <2>1 DEF BookInv, AtMostOneLiveOrder, LiveOn
  <2>3. LiveOn(j)' = {}
    BY <1>5, <2>1, <2>2
  <2>. QED
    BY <2>3, NextPages DEF Blanks
<1>14. ASSUME NEW j \in Key \ S
       PROVE  BookOf(j)' = BookOf(j)
  <2>1. LiveOn(j)' = LiveOn(j)
    BY <1>5, <1>12
  <2>2. \A n \in LiveOn(j) : n \in Live' /\ n \in Live \ R
    BY <1>2, <1>12 DEF LiveOn
  <2>3. \A n \in LiveOn(j) : orders'[n] = orders[n]
    BY <1>2, <2>2
  <2>4. \A n \in LiveOn(j) : {e \in events' : e[1] = n} = {e \in events : e[1] = n}
    BY <1>1, <1>4, <2>2
  <2>. QED
    BY <1>11, <2>1, <2>3, <2>4, SamePage
<1>15. S \in SUBSET Key /\ Book!Clear(S)
  BY <1>12, <1>13, <1>14 DEF Book!Clear
<1>. QED
  BY <1>11, <1>15

\* The end of a request that writes nothing.
LEMMA FinishBook ==
    ASSUME BookInv, StoreInv', NEW w \in Worker, Finish(w), UNCHANGED <<orders, events>>
    PROVE  BookInv'
BY FinishOne, QuietBook DEF BookInv, StoreInv

\* What every step does to the book: nothing, or what its commit says.
LEMMA StepBook ==
    ASSUME OneConversation, BookInv, Next
    PROVE  /\ BookInv'
           /\ \/ UNCHANGED <<orders, events>>
              \/ \E k \in Key : Book!Place(k) \/ Book!Confirm(k)
              \/ \E S \in SUBSET Key : Book!Clear(S)
<1>. DEFINE Kept == BookInv' /\ UNCHANGED <<orders, events>>
<1>1. StoreInv /\ StoreInv'
  BY StepInv DEF BookInv
<1>2. PICK w \in Worker : Request(w) \/ Serve(w) \/ Crash(w) \/ AbortDeadlock(w)
  BY DEF Next
<1>3. ASSUME NEW k \in Key, RequestPlace(w, k)
      PROVE  Kept
  BY <1>1, <1>3, QuietBook DEF RequestPlace, Goto, StoreInv, TypeOK
<1>4. ASSUME NEW o \in Order, RequestConfirm(w, o)
      PROVE  Kept
  BY <1>1, <1>4, QuietBook DEF RequestConfirm, Goto, StoreInv, TypeOK
<1>5. ASSUME RequestReset(w)
      PROVE  Kept
  BY <1>1, <1>5, QuietBook DEF RequestReset, Goto, work, StoreInv, TypeOK
<1>6. ASSUME FindLiveOrder(w)
      PROVE  Kept
  <2>1. pc[w] = "find" /\ UNCHANGED <<orders, events>>
    BY <1>6 DEF FindLiveOrder
  <2>2. CASE Finish(w)
    BY <1>1, <2>1, <2>2, FinishBook
  <2>3. CASE LiveOn(key[w]) = {} /\ Goto(w, "insert") /\ UNCHANGED work
    <3>1. key[w] \in Serves[w]
      BY <2>1 DEF BookInv, OwnKeyInv
    <3>. QED
      BY <1>1, <2>1, <2>3, <3>1, QuietBook DEF Goto, work, StoreInv, TypeOK
  <2>. QED
    BY <1>6, <2>2, <2>3 DEF FindLiveOrder
<1>7. ASSUME InsertOrder(w)
      PROVE  Kept
  <2>1. key[w] \in Serves[w] /\ LiveOn(key[w]) = {}
    BY <1>7 DEF InsertOrder, BookInv, OwnKeyInv
  <2>. QED
    BY <1>1, <1>7, <2>1, QuietBook DEF InsertOrder, Goto, StoreInv, TypeOK
<1>8. ASSUME GetOrder(w)
      PROVE  Kept
  <2>1. UNCHANGED <<orders, events>>
    BY <1>8 DEF GetOrder
  <2>2. CASE Finish(w)
    BY <1>1, <2>1, <2>2, FinishBook
  <2>3. CASE Confirmable(w, ord[w]) /\ Goto(w, "update") /\ UNCHANGED work
    <3>1. /\ ord[w] \in Live /\ ord[w] \in Born
          /\ orders[ord[w]].key \in Serves[w] /\ orders[ord[w]].status = "placed"
      BY <2>3 DEF Confirmable, Live, IsRow, Born
    <3>. QED
      BY <1>1, <2>1, <2>3, <3>1, QuietBook DEF Goto, work, StoreInv, TypeOK
  <2>. QED
    BY <1>8, <2>2, <2>3 DEF GetOrder
<1>9. ASSUME UpdateOrder(w)
      PROVE  Kept
  <2>1. pc[w] = "update" /\ UNCHANGED <<orders, events>>
    BY <1>9 DEF UpdateOrder
  <2>2. CASE Finish(w)
    BY <1>1, <2>1, <2>2, FinishBook
  <2>3. CASE Goto(w, "updated") /\ UNCHANGED work
    <3>1. /\ ord[w] \in Born
          /\ ord[w] \in Live => /\ orders[ord[w]].key \in Serves[w]
                                /\ orders[ord[w]].status = "placed"
      BY <2>1 DEF BookInv, OwnOrderInv
    <3>. QED
      BY <1>1, <2>1, <2>3, <3>1, QuietBook DEF Goto, work, StoreInv, TypeOK
  <2>. QED
    BY <1>9, <2>2, <2>3 DEF UpdateOrder
<1>10. ASSUME DeleteEvents(w) \/ LockEvents(w) \/ DeleteOrders(w) \/ NextRow(w) \/ LockRow(w)
       PROVE  Kept
  <2>1. /\ UNCHANGED <<orders, events>>
        /\ pc'[w] \in {"lock_events", "delete_orders", "lock_orders", "lock_row"}
        /\ \A v \in Worker \ {w} :
              pc'[v] = pc[v] /\ key'[v] = key[v] /\ ord'[v] = ord[v]
    BY <1>1, <1>10 DEF DeleteEvents, LockEvents, DeleteOrders, NextRow, LockRow, Goto, work,
       StoreInv, TypeOK
  <2>. QED
    BY <1>1, <2>1, QuietBook
<1>11. ASSUME Crash(w) \/ AbortDeadlock(w)
       PROVE  Kept
  BY <1>1, <1>11, FinishBook DEF Crash, AbortDeadlock, RollBack
<1>12. CASE CommitPlace(w)
  BY <1>1, <1>12, PlaceBook
<1>13. CASE CommitConfirm(w)
  BY <1>1, <1>13, ConfirmBook
<1>14. CASE CommitReset(w)
  BY <1>1, <1>14, ResetBook
<1>. HIDE DEF Kept
<1>15. Kept \/ CommitPlace(w) \/ CommitConfirm(w) \/ CommitReset(w)
  BY <1>2, <1>3, <1>4, <1>5, <1>6, <1>7, <1>8, <1>9, <1>10, <1>11 DEF Request, Serve
<1>. QED
  BY <1>12, <1>13, <1>14, <1>15 DEF Kept

\* An empty store is an empty book.
LEMMA InitBook ==
    ASSUME Init
    PROVE  BookInv /\ Book!Init
<1>1. Live = {}
  BY DEF Init, Live, IsRow, Unborn
<1>2. BookInv
  BY <1>1, InitInv DEF Init, BookInv, AtMostOneLiveOrder, OwnKeyInv, OwnOrderInv, RecordInv
<1>3. \A k \in Key : LiveOn(k) = {}
  BY <1>1 DEF LiveOn
<1>. QED
  BY <1>2, <1>3, Page DEF Book!Init

LEMMA StutterBook ==
    ASSUME BookInv, UNCHANGED vars
    PROVE  BookInv'
<1>1. UNCHANGED <<orders, events, pc, key, ord>> /\ StoreInv'
  BY StutterInv DEF vars, BookInv
<1>2. Live' = Live /\ Born' = Born /\ \A k : LiveOn(k)' = LiveOn(k)
  BY <1>1 DEF Live, IsRow, Born, LiveOn
<1>. QED
  BY <1>1, <1>2 DEF BookInv, AtMostOneLiveOrder, OwnKeyInv, OwnOrderInv, RecordInv

\* "An agent that retries, or a customer who asks twice, must not end up with two
\* orders" (orders/actions.py): true where one worker at a time serves a subscriber,
\* and only there.
THEOREM OneOrder ==
    ASSUME OneConversation
    PROVE  Spec => []AtMostOneLiveOrder
<1>1. Init => BookInv
  BY InitBook
<1>2. BookInv /\ [Next]_vars => BookInv'
  BY StepBook, StutterBook
<1>3. BookInv => AtMostOneLiveOrder
  BY DEF BookInv
<1>. QED
  BY <1>1, <1>2, <1>3, PTL DEF Spec

\* order-action keeps its promise wherever a subscriber's requests come one after
\* the other (OneConversation): its commits, and those of a reset, are the steps
\* of OrderBook, and every other statement, error and crash leaves the book alone.
THEOREM BookKept ==
    ASSUME OneConversation
    PROVE  Spec => KeepsTheBook
<1>. DEFINE pages == [k \in Key |-> BookOf(k)]
<1>1. Init => BookInv /\ Book!Init
  BY InitBook
<1>2. ASSUME BookInv, UNCHANGED <<orders, events>>
      PROVE  UNCHANGED pages
  <2>1. \A k : LiveOn(k)' = LiveOn(k)
    BY <1>2 DEF LiveOn, Live, IsRow
  <2>2. \A k : BookOf(k)' = BookOf(k)
    BY <1>2, <2>1, SamePage
  <2>. QED
    BY <2>2
<1>3. ASSUME BookInv, [Next]_vars
      PROVE  BookInv' /\ [Book!Next]_pages
  <2>1. CASE Next
    BY <1>2, <1>3, <2>1, StepBook DEF Book!Next
  <2>2. CASE UNCHANGED vars
    BY <1>2, <1>3, <2>2, StutterBook DEF vars
  <2>. QED
    BY <1>3, <2>1, <2>2
<1>. QED
  BY <1>1, <1>3, PTL DEF Spec, KeepsTheBook, Book!Spec

=============================================================================
