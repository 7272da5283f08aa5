----------------------------- MODULE MCOrderStore -----------------------------
(****************************************************************************)
(* OrderStore for TLC: which worker serves whose requests, in the shapes    *)
(* the runs need.                                                           *)
(****************************************************************************)
EXTENDS OrderStore

CONSTANTS w1, w2, w3, k1, k2

\* Everybody handles every subscriber's requests: the server as deployed.
SharedKeys == [w \in Worker |-> Key]

\* One conversation per subscriber, one request of it at a time.
OwnKeys == [w \in Worker |-> CASE w = w1 -> {k1} [] w = w2 -> {k2} [] OTHER -> {}]

\* One worker for orders, the others only reset.
OneServer == [w \in Worker |-> IF w = w1 THEN Key ELSE {}]
=============================================================================
