---------------------------- MODULE MCRequestPool ----------------------------
(****************************************************************************)
(* RequestPool for TLC: as many requests as can bring every thread and      *)
(* every connection to a standstill, with fewer connections than threads.   *)
(****************************************************************************)
EXTENDS RequestPool, TLC
=============================================================================
