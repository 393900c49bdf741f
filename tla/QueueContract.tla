--------------------------- MODULE QueueContract ---------------------------
(***************************************************************************)
(* What the request queue promises its callers, without locks, deques or   *)
(* wakeups.  A request is accepted, and from then on it is live until it   *)
(* is served by a worker that can serve its route, or it is overdue and is *)
(* expired by the overseer and answered, or, a probe, dropped.             *)
(*                                                                         *)
(* A request may be stranded WHEN IT IS ACCEPTED: its deque has lost its   *)
(* key.  Only a thread that still holds the deque can then serve or expire *)
(* it.  A request accepted as pending is never stranded afterwards.        *)
(***************************************************************************)
CONSTANTS
  Tasks, Pollers, Probes,
  Serves(_, _)   \* the poller scans the route of the task

VARIABLES
  state,   \* the life of a task
  server,  \* the pollers a task was handed to
  overdue

vars == <<state, server, overdue>>

Live(t) == state[t] \in {"pending", "stranded"}

Init == /\ state = [t \in Tasks |-> "new"]
        /\ server = [t \in Tasks |-> {}]
        /\ overdue = {}

Accept(t) == /\ state[t] = "new"
             /\ \E s \in {"pending", "stranded"} : state' = [state EXCEPT ![t] = s]
             /\ UNCHANGED <<server, overdue>>

\* One dequeue: overdue probes go, then at most one request is served.
Dequeue(p, gone, got) ==
  /\ \A t \in gone : Live(t) /\ t \in Probes \cap overdue
  /\ \A t \in got : Live(t) /\ Serves(p, t)
  /\ gone \cap got = {}
  /\ \A t, u \in got : t = u
  /\ state' = [t \in Tasks |-> IF t \in gone THEN "dropped"
                               ELSE IF t \in got THEN "served" ELSE state[t]]
  /\ server' = [t \in Tasks |-> IF t \in got THEN {p} ELSE server[t]]
  /\ UNCHANGED overdue

Expire(gone) ==
  /\ \A t \in gone : Live(t) /\ t \in overdue
  /\ state' = [t \in Tasks |-> IF t \in gone THEN "expired" ELSE state[t]]
  /\ UNCHANGED <<server, overdue>>

\* Every expired request is answered before the next pass.
Answer ==
  /\ state' = [t \in Tasks |-> IF state[t] = "expired" THEN "answered" ELSE state[t]]
  /\ UNCHANGED <<server, overdue>>

BecomeOverdue(t) == /\ Live(t)
                    /\ overdue' = overdue \cup {t}
                    /\ UNCHANGED <<state, server>>

Next == \/ \E t \in Tasks : Accept(t) \/ BecomeOverdue(t)
        \/ \E p \in Pollers, gone, got \in SUBSET Tasks : Dequeue(p, gone, got)
        \/ \E gone \in SUBSET Tasks : Expire(gone)
        \/ Answer

Spec == Init /\ [][Next]_vars
=============================================================================
