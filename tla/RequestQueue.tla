---------------------------- MODULE RequestQueue ----------------------------
(***************************************************************************)
(* The proxy's request queue (servers/proxy/queue.rs) with the threads     *)
(* that use it:                                                            *)
(*                                                                         *)
(*   - one enqueuing thread per request: a client connection, a cache      *)
(*     probe or an administrator's worker command (enqueue_model,          *)
(*     enqueue_node);                                                      *)
(*   - the worker-connection threads, which take work with                 *)
(*     next_for_worker: mark, scan, park, scan once more;                  *)
(*   - the overseer, which expires what has waited too long.               *)
(*                                                                         *)
(* One action is one critical section of the code.  The index maps a key   *)
(* to a deque OBJECT (an Arc): a thread that fetched the object keeps      *)
(* using it after the key has been removed or given a new deque.  A deque  *)
(* is allocated by at most one or_insert_with of one enqueue, so deque     *)
(* objects are named by the task whose enqueue allocated them.             *)
(*                                                                         *)
(* A deque is only pushed at the back, popped at the front and filtered    *)
(* in order.  It is kept as the set of its tasks, with ahead[t], the tasks *)
(* that were in the deque when t was pushed: the front is the task with    *)
(* nobody ahead of it left.                                                *)
(***************************************************************************)
EXTENDS Naturals, Sequences

CONSTANTS
  Tasks,     \* the requests, each enqueued once by a thread of its own
  Pollers,   \* worker-connection threads
  Keys,      \* keys of the two indexes: worker names and (model, kind) pairs
  NodeKeys,  \* those of node_queue
  KeyOf,     \* the key each task is enqueued under
  Probes,    \* tasks with a queue_timeout of their own (probe.rs 45-68)
  Scan,      \* the keys a poller tries, in order: its node key, then models
  None       \* no deque, no task

ASSUME QueueAssumption ==
  /\ NodeKeys \subseteq Keys
  /\ Probes \subseteq Tasks
  /\ KeyOf \in [Tasks -> Keys]
  /\ None \notin Tasks
  /\ Tasks \cap Pollers = {}
  /\ Scan \in [Pollers -> Seq(Keys)]
  /\ \A p \in Pollers : /\ Len(Scan[p]) >= 1
                        /\ \A i \in 1..Len(Scan[p]) :
                             Scan[p][i] \in NodeKeys <=> i = 1

VARIABLES
  index,       \* key -> its deque object, or None (model_queue, node_queue)
  deque,       \* deque object -> the tasks in it
  ahead,       \* task -> the tasks it was queued behind
  generation,  \* IdleGate::generation
  overdue,     \* tasks whose queue_wait() exceeds their timeout
  enq,         \* enqueuing thread -> where it stands
  arc,         \* enqueuing thread or poller -> the deque object it fetched
  poller,      \* poller -> where it stands
  seen,        \* poller -> the generation it marked
  attempt,     \* poller -> which of the two dequeue attempts it is in
  pos,         \* poller -> position in Scan of the key it is trying
  popped,      \* poller -> the task it has popped and not yet returned
  overseer,    \* the overseer's position in expire_older_than
  todo,        \* the <<key, deque>> pairs the overseer snapshotted
  victim,      \* the key whose deque the overseer found empty
  hands,       \* the expired tasks the overseer is to answer
  taken,       \* poller -> the tasks dispatched to it (history)
  answered,    \* tasks the overseer answered with a 504 (history)
  dropped      \* tasks that expired during a dequeue (history)

enqVars  == <<enq, ahead>>
pollVars == <<poller, seen, attempt, pos, popped>>
overVars == <<overseer, todo, victim, hands>>
outVars  == <<taken, answered, dropped>>
vars == <<index, deque, generation, overdue, arc, enqVars, pollVars,
          overVars, outVars>>

ModelKeys == Keys \ NodeKeys
Deques    == Tasks   \* each deque is named by the task that allocated it

-----------------------------------------------------------------------------
(* Helpers *)

\* The key poller p is trying.
CurrentKey(p) == Scan[p][pos[p]]

\* The keys with a deque: what a snapshot of an index collects.
Entries(ks) == {<<k, index[k]>> : k \in {l \in ks : index[l] # None}}

\* expire_queue_tasks: what leaves a deque, at a dequeue (only tasks with a
\* timeout of their own) and in the overseer's pass (every overdue task).
\* The variants (suffix _Bug...) are wrong on purpose: each shows that a
\* property stated below can fail.
ExpiredProbes_BugAllTasks(d) == deque[d] \cap overdue
ExpiredTasks_BugProbesOnly(d) == deque[d] \cap overdue \cap Probes

ExpiredProbes(d) == deque[d] \cap overdue \cap Probes
ExpiredTasks(d)  == deque[d] \cap overdue

\* pop_front: nobody it was queued behind is left in the deque.
IsFront_BugPopBack(t, q) == t \in q /\ \A u \in q : t \notin ahead[u]
IsFront(t, q) == t \in q /\ ahead[t] \cap q = {}

\* remove_node_key_if_empty, remove_model_key_if_empty: under the index's
\* write lock, the key goes if the deque it has NOW is empty.
RemoveKeyIfEmpty_BugNoRecheck(k) == index' = [index EXCEPT ![k] = None]
RemoveKeyIfEmpty(k) ==
  IF index[k] # None /\ deque[index[k]] = {}
    THEN index' = [index EXCEPT ![k] = None]
    ELSE UNCHANGED index

\* A task that is in the deque its key has in the index.
Visible(t) == index[KeyOf[t]] # None /\ t \in deque[index[KeyOf[t]]]

Init ==
  /\ index = [k \in Keys |-> None]
  /\ deque = [d \in Deques |-> {}]
  /\ ahead = [t \in Tasks |-> {}]
  /\ generation = 0
  /\ overdue = {}
  /\ enq = [t \in Tasks |-> "new"]
  /\ arc = [x \in Tasks \cup Pollers |-> None]
  /\ poller = [p \in Pollers |-> "idle"]
  /\ seen = [p \in Pollers |-> 0]
  /\ attempt = [p \in Pollers |-> 1]
  /\ pos = [p \in Pollers |-> 1]
  /\ popped = [p \in Pollers |-> None]
  /\ overseer = "sleep"
  /\ todo = {}
  /\ victim = {}
  /\ hands = {}
  /\ taken = [p \in Pollers |-> {}]
  /\ answered = {}
  /\ dropped = {}

-----------------------------------------------------------------------------
(* Enqueue *)

\* model_deque_for, node_deque_for: the read lock.
FetchDeque(t) ==
  /\ enq[t] = "new"
  /\ enq' = [enq EXCEPT ![t] = IF index[KeyOf[t]] = None THEN "create"
                                                         ELSE "push"]
  /\ arc' = [arc EXCEPT ![t] = index[KeyOf[t]]]
  /\ UNCHANGED <<index, deque, ahead, generation, overdue, pollVars, overVars,
                 outVars>>

\* Variant: insert() where the code has entry().or_insert_with().
CreateDeque_BugOverwrites(t) ==
  /\ enq[t] = "create"
  /\ enq' = [enq EXCEPT ![t] = "push"]
  /\ index' = [index EXCEPT ![KeyOf[t]] = t]
  /\ arc' = [arc EXCEPT ![t] = t]
  /\ UNCHANGED <<deque, ahead, generation, overdue, pollVars, overVars,
                 outVars>>

\* The write lock: entry(key).or_insert_with, as another enqueue of the same
\* key may have been first.
CreateDeque(t) ==
  /\ enq[t] = "create"
  /\ enq' = [enq EXCEPT ![t] = "push"]
  /\ IF index[KeyOf[t]] = None
       THEN /\ index' = [index EXCEPT ![KeyOf[t]] = t]
            /\ arc' = [arc EXCEPT ![t] = t]
       ELSE /\ arc' = [arc EXCEPT ![t] = index[KeyOf[t]]]
            /\ UNCHANGED index
  /\ UNCHANGED <<deque, ahead, generation, overdue, pollVars, overVars,
                 outVars>>

\* push_back, under the lock of the deque that was fetched.
PushBack(t) ==
  /\ enq[t] = "push"
  /\ enq' = [enq EXCEPT ![t] = "bump"]
  /\ ahead' = [ahead EXCEPT ![t] = deque[arc[t]]]
  /\ deque' = [deque EXCEPT ![arc[t]] = @ \cup {t}]
  /\ arc' = [arc EXCEPT ![t] = None]
  /\ UNCHANGED <<index, generation, overdue, pollVars, overVars, outVars>>

\* notify_work_available, first half: the generation, under its lock.
BumpGeneration(t) ==
  /\ enq[t] = "bump"
  /\ enq' = [enq EXCEPT ![t] = "notify"]
  /\ generation' = generation + 1
  /\ UNCHANGED <<index, deque, ahead, overdue, arc, pollVars, overVars, outVars>>

\* notify_work_available, second half: notify_all, and enqueue returns.
NotifyAll(t) ==
  /\ enq[t] = "notify"
  /\ enq' = [enq EXCEPT ![t] = "done"]
  /\ poller' = [p \in Pollers |-> IF poller[p] = "parked" THEN "wait"
                                                          ELSE poller[p]]
  /\ UNCHANGED <<index, deque, ahead, generation, overdue, arc, seen, attempt,
                 pos, popped, overVars, outVars>>

-----------------------------------------------------------------------------
(* Dequeue *)

\* Variant: the model queues are scanned before the worker's own.
IdleMark_BugModelsFirst(p) ==
  /\ poller[p] = "idle"
  /\ poller' = [poller EXCEPT ![p] = "fetch"]
  /\ seen' = [seen EXCEPT ![p] = generation]
  /\ pos' = [pos EXCEPT ![p] = IF Len(Scan[p]) > 1 THEN 2 ELSE 1]
  /\ UNCHANGED <<index, deque, generation, overdue, arc, attempt, popped,
                 enqVars, overVars, outVars>>

\* idle_mark, and the first attempt starts at the worker's node queue.
IdleMark(p) ==
  /\ poller[p] = "idle"
  /\ poller' = [poller EXCEPT ![p] = "fetch"]
  /\ seen' = [seen EXCEPT ![p] = generation]
  /\ UNCHANGED <<index, deque, generation, overdue, arc, attempt, pos, popped,
                 enqVars, overVars, outVars>>

\* next_for_worker returns, with a task or with None (the caller's PONG), and
\* its locals go.
Return(p) ==
  /\ poller' = [poller EXCEPT ![p] = "idle"]
  /\ seen' = [seen EXCEPT ![p] = 0]
  /\ attempt' = [attempt EXCEPT ![p] = 1]
  /\ pos' = [pos EXCEPT ![p] = 1]

\* The poller goes on at "state" in the same attempt, at the same key.
GoTo(p, state) ==
  /\ poller' = [poller EXCEPT ![p] = state]
  /\ UNCHANGED <<seen, attempt, pos>>

\* Variant: the scan runs one past its last key.
NextKey_BugPastTheEnd(p) ==
  /\ pos' = [pos EXCEPT ![p] = @ + 1]
  /\ poller' = [poller EXCEPT ![p] =
                  IF pos[p] <= Len(Scan[p]) THEN "fetch" ELSE "wait"]
  /\ UNCHANGED <<seen, attempt>>

\* The key had nothing for this poller: the next one, or the end of the
\* attempt (wait after the first, None after the second).
NextKey(p) ==
  \/ /\ pos[p] < Len(Scan[p])
     /\ poller' = [poller EXCEPT ![p] = "fetch"]
     /\ pos' = [pos EXCEPT ![p] = @ + 1]
     /\ UNCHANGED <<seen, attempt>>
  \/ /\ pos[p] = Len(Scan[p]) /\ attempt[p] = 1
     /\ GoTo(p, "wait")
  \/ /\ pos[p] = Len(Scan[p]) /\ attempt[p] = 2
     /\ Return(p)

\* dequeue_node, dequeue_model_key: the read lock.
FetchKey(p) ==
  /\ poller[p] = "fetch"
  /\ arc' = [arc EXCEPT ![p] = index[CurrentKey(p)]]
  /\ IF index[CurrentKey(p)] = None THEN NextKey(p) ELSE GoTo(p, "lock")
  /\ UNCHANGED <<index, deque, generation, overdue, popped, enqVars, overVars,
                 outVars>>

\* Under the deque's lock: expire_queue_tasks(custom_timeout_only), then
\* pop_front.  An emptied deque makes the poller look at the key again; a
\* model deque that had nothing to pop returns early and leaves its key.
LockAndPop(p) ==
  LET d    == arc[p]
      kept == deque[d] \ ExpiredProbes(d)
  IN
  /\ poller[p] = "lock"
  /\ dropped' = dropped \cup ExpiredProbes(d)
  /\ \/ /\ kept = {}
        /\ deque' = [deque EXCEPT ![d] = {}]
        /\ IF CurrentKey(p) \in NodeKeys THEN GoTo(p, "remove") ELSE NextKey(p)
        /\ UNCHANGED <<popped, taken>>
     \/ \E t \in kept :
          /\ IsFront(t, kept)
          /\ deque' = [deque EXCEPT ![d] = kept \ {t}]
          /\ taken' = [taken EXCEPT ![p] = @ \cup {t}]
          /\ IF kept = {t}
               THEN GoTo(p, "remove") /\ popped' = [popped EXCEPT ![p] = t]
               ELSE Return(p) /\ UNCHANGED popped
  /\ arc' = [arc EXCEPT ![p] = None]
  /\ UNCHANGED <<index, generation, overdue, answered, enqVars, overVars>>

\* The deque was emptied: drop its key if that still holds, then return the
\* task or go on scanning.
RemoveKey(p) ==
  /\ poller[p] = "remove"
  /\ RemoveKeyIfEmpty(CurrentKey(p))
  /\ IF popped[p] = None THEN NextKey(p) ELSE Return(p)
  /\ popped' = [popped EXCEPT ![p] = None]
  /\ UNCHANGED <<deque, generation, overdue, arc, enqVars, overVars, outVars>>

\* The second attempt of next_for_worker; the mark has served its purpose.
Rescan(p) ==
  /\ seen' = [seen EXCEPT ![p] = 0]
  /\ poller' = [poller EXCEPT ![p] = "fetch"]
  /\ attempt' = [attempt EXCEPT ![p] = 2]
  /\ pos' = [pos EXCEPT ![p] = 1]

\* Variant: a blind sleep, which does not look at the generation.
WaitForWork_BugBlind(p) ==
  /\ poller[p] = "wait"
  /\ poller' = [poller EXCEPT ![p] = "parked"]
  /\ UNCHANGED <<index, deque, generation, overdue, arc, seen, attempt, pos,
                 popped, enqVars, overVars, outVars>>

\* wait_timeout_while, under the generation's lock: park while the generation
\* is the marked one.  A woken poller checks again from here.
WaitForWork(p) ==
  /\ poller[p] = "wait"
  /\ IF generation = seen[p] THEN GoTo(p, "parked") ELSE Rescan(p)
  /\ UNCHANGED <<index, deque, generation, overdue, arc, popped, enqVars,
                 overVars, outVars>>

\* idle_wait elapses: 5 to 10 ms, see worker/server.rs.
WaitTimesOut(p) ==
  /\ poller[p] = "parked"
  /\ Rescan(p)
  /\ UNCHANGED <<index, deque, generation, overdue, arc, popped, enqVars,
                 overVars, outVars>>

-----------------------------------------------------------------------------
(* The overseer: expire_older_than over the model queues, then over the     *)
(* node queues, then a 504 to every client it expired.                      *)

OverseerSnapshot ==
  /\ \/ /\ overseer = "sleep"
        /\ overseer' = "models"
        /\ todo' = Entries(ModelKeys)
     \/ /\ overseer = "models" /\ todo = {} /\ victim = {}
        /\ overseer' = "nodes"
        /\ todo' = Entries(NodeKeys)
  /\ UNCHANGED <<index, deque, generation, overdue, arc, victim, hands, enqVars,
                 pollVars, outVars>>

\* Variant: what expired is collected and not taken out of the deque.
OverseerExpire_BugKeepsTasks ==
  /\ overseer \in {"models", "nodes"}
  /\ victim = {}
  /\ \E e \in todo : /\ todo' = todo \ {e}
                     /\ hands' = hands \cup ExpiredTasks(e[2])
  /\ UNCHANGED <<index, deque, generation, overdue, arc, victim, overseer,
                 enqVars, pollVars, outVars>>

\* One deque of the snapshot, under its lock.  A HashMap iterates in any order.
OverseerExpire ==
  /\ overseer \in {"models", "nodes"}
  /\ victim = {}
  /\ \E e \in todo :
       LET k == e[1]
           d == e[2]
       IN /\ todo' = todo \ {e}
          /\ hands' = hands \cup ExpiredTasks(d)
          /\ deque' = [deque EXCEPT ![d] = @ \ ExpiredTasks(d)]
          /\ victim' = IF deque[d] \subseteq overdue THEN {k} ELSE {}
  /\ UNCHANGED <<index, generation, overdue, arc, overseer, enqVars, pollVars,
                 outVars>>

\* The deque was left empty: remove_*_key_if_empty.
OverseerRemove ==
  /\ \E k \in victim : RemoveKeyIfEmpty(k)
  /\ victim' = {}
  /\ UNCHANGED <<deque, generation, overdue, arc, overseer, todo, hands,
                 enqVars, pollVars, outVars>>

\* expire_queued_requests: answer what expired, then sleep 500 ms.
OverseerAnswer ==
  /\ overseer = "nodes" /\ todo = {} /\ victim = {}
  /\ overseer' = "sleep"
  /\ answered' = answered \cup hands
  /\ hands' = {}
  /\ UNCHANGED <<index, deque, generation, overdue, arc, todo, victim, taken,
                 dropped, enqVars, pollVars>>

-----------------------------------------------------------------------------
\* Time: a queued request passes its timeout (ClientTask::is_expired, which is
\* only asked of a task in a deque).
BecomesOverdue(t) ==
  /\ t \notin overdue
  /\ \E d \in Deques : t \in deque[d]
  /\ overdue' = overdue \cup {t}
  /\ UNCHANGED <<index, deque, generation, arc, enqVars, pollVars, overVars,
                 outVars>>

Enqueue(t) == \/ FetchDeque(t) \/ CreateDeque(t) \/ PushBack(t)
              \/ BumpGeneration(t) \/ NotifyAll(t)

NextForWorker(p) == \/ IdleMark(p) \/ FetchKey(p) \/ LockAndPop(p)
                    \/ RemoveKey(p) \/ WaitForWork(p) \/ WaitTimesOut(p)

Overseer == \/ OverseerSnapshot \/ OverseerExpire \/ OverseerRemove
            \/ OverseerAnswer

Next == \/ \E t \in Tasks : Enqueue(t) \/ BecomesOverdue(t)
        \/ \E p \in Pollers : NextForWorker(p)
        \/ Overseer

Spec == Init /\ [][Next]_vars

\* The overseer loops for ever, and time passes.  No poller has to poll, no client to
\* send, and no thread that enqueues to go on.
Fairness == WF_vars(\E t \in Tasks : BecomesOverdue(t)) /\ WF_vars(Overseer)

FairSpec == Spec /\ Fairness

-----------------------------------------------------------------------------
(* Properties *)

\* The types of the variables.
TypeOK ==
  /\ index \in [Keys -> Deques \cup {None}]
  /\ deque \in [Deques -> SUBSET Tasks]
  /\ ahead \in [Tasks -> SUBSET Tasks]
  /\ generation \in Nat
  /\ overdue \subseteq Tasks
  /\ enq \in [Tasks -> {"new", "create", "push", "bump", "notify", "done"}]
  /\ arc \in [Tasks \cup Pollers -> Deques \cup {None}]
  /\ poller \in [Pollers -> {"idle", "fetch", "lock", "remove", "wait", "parked"}]
  /\ seen \in [Pollers -> Nat]
  /\ attempt \in [Pollers -> {1, 2}]
  /\ pos \in [Pollers -> Nat]
  /\ \A p \in Pollers : pos[p] \in 1..Len(Scan[p])
  /\ popped \in [Pollers -> Tasks \cup {None}]
  /\ overseer \in {"sleep", "models", "nodes"}
  /\ todo \subseteq Keys \X Deques
  /\ victim \subseteq Keys
  /\ hands \subseteq Tasks
  /\ taken \in [Pollers -> SUBSET Tasks]
  /\ answered \subseteq Tasks
  /\ dropped \subseteq Tasks

\* The task has been pushed to a deque; its enqueue has announced it.
Pushed(t)    == enq[t] \in {"bump", "notify", "done"}
Announced(t) == enq[t] \in {"notify", "done"}

\* Where a task is: waiting in a deque, with the poller that took it, or with
\* the overseer, answered or dropped.
Waiting(t)  == \E d \in Deques : t \in deque[d]
TakenBy(t)  == {p \in Pollers : t \in taken[p]}
Finished(t) == t \in hands \cup answered \cup dropped

OnePlace(t) ==
  /\ Waiting(t) \/ TakenBy(t) # {} \/ Finished(t) <=> Pushed(t)
  /\ Waiting(t) => TakenBy(t) = {} /\ ~ Finished(t)
  /\ TakenBy(t) # {} => ~ Finished(t)
  /\ \A d, e \in Deques : t \in deque[d] \cap deque[e] => d = e
  /\ \A p, q \in TakenBy(t) : p = q
  /\ t \notin hands \cap answered
  /\ t \notin answered \cap dropped
  /\ t \notin dropped \cap hands

\* A task that was pushed is in exactly one place: whatever removals, fetched
\* Arcs and expiries interleave with it, no task is dispatched twice, both
\* dispatched and answered with a 504, or gone without a trace.
ExactlyOnePlace == \A t \in Tasks : OnePlace(t)

\* No lost wakeup: while a poller is parked, no request whose enqueue has
\* returned is visible under a key this poller serves.
NoSleepOnWork ==
  \A p \in Pollers, t \in Tasks :
    poller[p] = "parked" /\ enq[t] = "done" /\ Visible(t)
      => \A i \in 1..Len(Scan[p]) : Scan[p][i] # KeyOf[t]

\* A visible request stops being visible only by leaving its deque: no removal
\* of a key takes a deque out of the index with work in it.
NoVisibleTaskUnlinked ==
  [][\A t \in Tasks : Visible(t) /\ ~ Visible(t)' =>
       t \notin deque'[index[KeyOf[t]]]]_vars

\* Nothing expires before its timeout, and a request that expires silently, in
\* a dequeue, is a probe: a client always gets its 504.
ExpiryIsDueAndTold ==
  /\ hands \cup answered \cup dropped \subseteq overdue
  /\ dropped \subseteq Probes

\* A request is dispatched after all those it was queued behind have left.
FirstComeFirstServed ==
  [][\A p \in Pollers : \A t \in taken'[p] \ taken[p] :
       \A u \in ahead[t], d \in Deques : u \notin deque'[d]]_vars

\* A poller takes model work in its first attempt only if nothing announced
\* before its mark waits in its own node queue.
OwnWorkFirst ==
  [][\A p \in Pollers : \A t \in taken'[p] \ taken[p] :
       KeyOf[t] \notin NodeKeys /\ attempt[p] = 1 /\ seen[p] = generation
         => \A u \in Tasks : Announced(u) /\ Visible(u) => KeyOf[u] # Scan[p][1]]_vars

\* Every visible request is dispatched, answered or dropped in the end, even
\* when no worker ever polls for it.
VisibleLeaves == \A t \in Tasks : Visible(t) ~> ~ Waiting(t)

\* What the comment of notify_work_available says of its call: the task is
\* visible in its queue, or another poller already took it.
AnnouncedVisible == \A t \in Tasks : Pushed(t) => Visible(t) \/ ~ Waiting(t)

-----------------------------------------------------------------------------
(* The queue implements its contract *)

Serves(p, t) == \E i \in 1..Len(Scan[p]) : Scan[p][i] = KeyOf[t]

ContractState(t) ==
  CASE ~ Pushed(t)        -> "new"
    [] TakenBy(t) # {}    -> "served"
    [] t \in hands        -> "expired"
    [] t \in answered     -> "answered"
    [] t \in dropped      -> "dropped"
    [] Visible(t)         -> "pending"
    [] OTHER              -> "stranded"

Contract == INSTANCE QueueContract WITH
              state  <- [t \in Tasks |-> ContractState(t)],
              server <- [t \in Tasks |-> TakenBy(t)]

\* Every step of the queue is a step of the contract: what is dispatched is
\* for this worker, and what was accepted as pending is never stranded.
Refinement == Contract!Spec
=============================================================================
