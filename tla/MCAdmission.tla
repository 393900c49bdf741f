---------------------------- MODULE MCAdmission -----------------------------
(* One key with one slot and a limit of one request per window of two ticks; *)
(* two inference requests and a discovery request.                           *)
EXTENDS Admission, TLC

CONSTANTS r1, r2, r3, k1, min, hour

MCKeyOf         == [r \in Requests |-> k1]
MCMaxConcurrent == k1 :> 1
MCLength        == (min :> 2) @@ (hour :> 3)
MCLimit         == k1 :> ((min :> 1) @@ (hour :> 0))
Symmetry        == Permutations(Requests \ Discovery)
=============================================================================
