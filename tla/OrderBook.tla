------------------------------ MODULE OrderBook ------------------------------
(****************************************************************************)
(* What order-action promises its callers (app/gx/routes.py, order_action:  *)
(* "placing the same offer twice returns the original order, and re-sending *)
(* a confirmation reports the original reference"): for each subscriber and *)
(* offer there is one order or none, it is confirmed at most once, and one  *)
(* confirmation is on record for it.  Only a reset takes orders away.       *)
(****************************************************************************)
EXTENDS Naturals

CONSTANT Key            \* a subscriber and an offer

VARIABLE book           \* the order on each key, and its confirmations on record

Absent    == [status |-> "none", sent |-> 0]
Placed    == [status |-> "placed", sent |-> 0]
Confirmed == [status |-> "confirmed", sent |-> 1]

Init == book = [k \in Key |-> Absent]

Place(k) ==
    /\ book[k] = Absent
    /\ book' = [book EXCEPT ![k] = Placed]

Confirm(k) ==
    /\ book[k] = Placed
    /\ book' = [book EXCEPT ![k] = Confirmed]

\* A reset removes the orders it found; one placed while it runs may survive it.
Clear(S) ==
    book' = [k \in Key |-> IF k \in S THEN Absent ELSE book[k]]

Next == \/ \E k \in Key : Place(k) \/ Confirm(k)
        \/ \E S \in SUBSET Key : Clear(S)

Spec == Init /\ [][Next]_book
=============================================================================
