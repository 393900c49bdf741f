--------------------------- MODULE MCRequestQueue ---------------------------
(* Two requests for one model, the second with a timeout of its own, one for *)
(* a worker, and two connections of that worker, which serves the model.     *)
EXTENDS RequestQueue, TLC

CONSTANTS t1, t2, t3, p1, p2, w1, m1

MCKeyOf == (t1 :> m1) @@ (t2 :> m1) @@ (t3 :> w1)
MCScan  == [p \in Pollers |-> <<w1, m1>>]

\* Bound: who meets in the queue, beside the overseer.
Present == {t \in Tasks : enq[t] # "new"} \cup {p \in Pollers : poller[p] # "idle"}
MCBound == \E few \in {{t1, t2, p1}, {t1, t3, p1}, {t1, p1, p2}} : Present \subseteq few
=============================================================================
