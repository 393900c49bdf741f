-------------------------- MODULE MCWorkerRegistry --------------------------
(* Two connections of one life of a worker and one of its next life.         *)
EXTENDS WorkerRegistry, TLC

CONSTANTS t1, t2, t3, w, n1, n2

MCNameOf  == [t \in Threads |-> w]
MCNonceOf == (t1 :> n1) @@ (t2 :> n1) @@ (t3 :> n2)
=============================================================================
