-------------------------- MODULE MCUsageTracking ---------------------------
(* Two requests of a key that may be renamed at any time and one without a   *)
(* key, on two workers, in batches of two; another key may take the names    *)
(* the first gives up.                                                       *)
EXTENDS UsageTracking, TLC

CONSTANTS r1, r2, r3, k1, k2, w1, w2, n1, n2, n3

MCKeyOf    == (r1 :> k1) @@ (r2 :> k1) @@ (r3 :> None)
MCWorkerOf == (r1 :> w1) @@ (r2 :> w2) @@ (r3 :> w2)
=============================================================================
