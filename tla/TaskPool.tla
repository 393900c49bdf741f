------------------------------ MODULE TaskPool ------------------------------
(***************************************************************************)
(* The thread pool of the proxy and management listeners                   *)
(* (shared/taskpool.rs, GrowablePool).  The listener's accept loop submits *)
(* one job per connection; worker threads take jobs from a queue, park on  *)
(* a condition variable when there is none, and retire when they stay idle.*)
(*                                                                         *)
(* The pool's mutex makes each action one critical section: spawn with its *)
(* hand-off, a worker's look at the queue before it parks, its look after  *)
(* it was woken or timed out.  A parked worker that was notified or timed  *)
(* out is still counted as idle until it has the mutex again: that gap is  *)
(* where the pool's counters and its threads disagree.                     *)
(***************************************************************************)
EXTENDS Naturals, Sequences, FiniteSets

CONSTANTS
  Jobs,     \* the jobs the listener may submit, each once
  Workers,  \* names for worker threads
  Core,     \* GrowablePool::core
  None      \* no job

\* The pool grows only when more jobs wait than workers live, so that as many
\* names as jobs are never exhausted.
ASSUME PoolAssumption ==
  /\ IsFiniteSet(Jobs) /\ IsFiniteSet(Workers)
  /\ Cardinality(Jobs) <= Cardinality(Workers)
  /\ Core \in 1..Cardinality(Workers)
  /\ None \notin Jobs

VARIABLES
  queue,    \* PoolState::queue
  workers,  \* PoolState::workers
  idle,     \* PoolState::idle
  thread,   \* worker -> where it stands
  job,      \* worker -> the job it runs
  fate      \* job -> "new", "submitted" or "done"

vars == <<queue, workers, idle, thread, job, fate>>

\* A worker thread: not born (or gone), about to look at the queue, in the
\* condition variable, notified, timed out, running a job.
Stations == {"none", "look", "parked", "woken", "timedout", "running"}

At(s)  == {w \in Workers : thread[w] \in s}
Alive  == Workers \ At({"none"})
Asleep == At({"parked", "woken", "timedout"})

-----------------------------------------------------------------------------
\* with_idle_timeout: Core workers are spawned before the listener has the pool.
Init ==
  /\ queue = <<>>
  /\ workers = Core
  /\ idle = 0
  /\ \E born \in SUBSET Workers :
       /\ Cardinality(born) = Core
       /\ thread = [w \in Workers |-> IF w \in born THEN "look" ELSE "none"]
  /\ job = [w \in Workers |-> None]
  /\ fate = [j \in Jobs |-> "new"]

\* Condvar::notify_one: one worker in the condition variable, if there is one.
NotifyOne ==
  \/ \E w \in At({"parked"}) : thread' = [thread EXCEPT ![w] = "woken"]
  \/ At({"parked"}) = {} /\ UNCHANGED thread

\* spawn_worker_locked.
SpawnWorkerLocked ==
  /\ workers' = workers + 1
  /\ \E w \in At({"none"}) : thread' = [thread EXCEPT ![w] = "look"]

\* Variants (suffix _Bug...) are wrong on purpose: each shows that a property
\* stated below can fail.  This one wakes nobody when it does not grow.
TryHandoff_BugNoNotify(pending) ==
  IF idle > 0 \/ workers - idle >= Len(pending)
    THEN UNCHANGED <<workers, thread>>
    ELSE SpawnWorkerLocked

\* try_handoff, with the job already in the queue.
TryHandoff(pending) ==
  IF idle > 0 \/ workers - idle >= Len(pending)
    THEN NotifyOne /\ UNCHANGED workers
    ELSE SpawnWorkerLocked

\* spawn: the listener's thread, which alone submits.
Spawn(j) ==
  /\ fate[j] = "new"
  /\ fate' = [fate EXCEPT ![j] = "submitted"]
  /\ queue' = Append(queue, j)
  /\ TryHandoff(queue')
  /\ UNCHANGED <<idle, job>>

\* Variant: the job is read and left in the queue.
Take_BugPeeks(w) ==
  /\ queue # <<>>
  /\ thread' = [thread EXCEPT ![w] = "running"]
  /\ job' = [job EXCEPT ![w] = Head(queue)]
  /\ UNCHANGED queue

Take(w) ==
  /\ queue # <<>>
  /\ thread' = [thread EXCEPT ![w] = "running"]
  /\ job' = [job EXCEPT ![w] = Head(queue)]
  /\ queue' = Tail(queue)

\* worker_loop: waiting work is taken, otherwise the worker parks.
Look(w) ==
  /\ thread[w] = "look"
  /\ \/ Take(w) /\ UNCHANGED idle
     \/ /\ queue = <<>>
        /\ idle' = idle + 1
        /\ thread' = [thread EXCEPT ![w] = "parked"]
        /\ UNCHANGED <<queue, job>>
  /\ UNCHANGED <<workers, fate>>

\* The grace period passes, or a wake of the condition variable's own.
TimeOut(w) ==
  /\ thread[w] = "parked"
  /\ thread' = [thread EXCEPT ![w] = "timedout"]
  /\ UNCHANGED <<queue, workers, idle, job, fate>>

SpuriousWake(w) ==
  /\ thread[w] = "parked"
  /\ thread' = [thread EXCEPT ![w] = "woken"]
  /\ UNCHANGED <<queue, workers, idle, job, fate>>

MayRetire(w) == thread[w] = "timedout" /\ workers > 1

\* Variant: a worker retires and stays counted.
Resume_BugStaysCounted(w) ==
  /\ thread[w] \in {"woken", "timedout"}
  /\ \/ Take(w) /\ idle' = idle - 1
     \/ /\ queue = <<>> /\ MayRetire(w)
        /\ idle' = idle - 1
        /\ thread' = [thread EXCEPT ![w] = "none"]
        /\ UNCHANGED <<queue, job>>
     \/ /\ queue = <<>> /\ ~ MayRetire(w)
        /\ thread' = [thread EXCEPT ![w] = "parked"]
        /\ UNCHANGED <<queue, idle, job>>
  /\ UNCHANGED <<workers, fate>>

\* wait_timeout returns, with the mutex: a job first, then retirement for a
\* worker that timed out and is not the last one, else another wait.
Resume(w) ==
  /\ thread[w] \in {"woken", "timedout"}
  /\ \/ Take(w) /\ idle' = idle - 1 /\ UNCHANGED workers
     \/ /\ queue = <<>> /\ MayRetire(w)
        /\ idle' = idle - 1
        /\ workers' = workers - 1
        /\ thread' = [thread EXCEPT ![w] = "none"]
        /\ UNCHANGED <<queue, job>>
     \/ /\ queue = <<>> /\ ~ MayRetire(w)
        /\ thread' = [thread EXCEPT ![w] = "parked"]
        /\ UNCHANGED <<queue, workers, idle, job>>
  /\ UNCHANGED fate

\* Variant: the thread ends with its job.
Finish_BugNoLoop(w) ==
  /\ thread[w] = "running"
  /\ fate' = [fate EXCEPT ![job[w]] = "done"]
  /\ thread' = [thread EXCEPT ![w] = "none"]
  /\ job' = [job EXCEPT ![w] = None]
  /\ UNCHANGED <<queue, workers, idle>>

\* job() returns, and the worker goes round its loop.
Finish(w) ==
  /\ thread[w] = "running"
  /\ fate' = [fate EXCEPT ![job[w]] = "done"]
  /\ thread' = [thread EXCEPT ![w] = "look"]
  /\ job' = [job EXCEPT ![w] = None]
  /\ UNCHANGED <<queue, workers, idle>>

WorkerLoop(w) == Look(w) \/ Resume(w) \/ Finish(w)

Next == \/ \E j \in Jobs : Spawn(j)
        \/ \E w \in Workers : WorkerLoop(w) \/ TimeOut(w) \/ SpuriousWake(w)

Spec == Init /\ [][Next]_vars

\* Threads run and jobs end (their sockets have timeouts); a worker that is
\* parked over and over times out at last.  Nothing makes the listener submit.
Fairness == \A w \in Workers : WF_vars(WorkerLoop(w)) /\ SF_vars(TimeOut(w))

FairSpec == Spec /\ Fairness

-----------------------------------------------------------------------------
(* Properties *)

\* Types; and the pool's counters are true of its threads, in every window between a
\* notification or a timeout and the woken thread's return: spawn decides on growth by
\* them.
TypeOK ==
  /\ queue \in Seq(Jobs)
  /\ thread \in [Workers -> Stations]
  /\ job \in [Workers -> Jobs \cup {None}]
  /\ fate \in [Jobs -> {"new", "submitted", "done"}]
  /\ workers = Cardinality(Alive)
  /\ idle = Cardinality(Asleep)

\* A submitted job waits in the queue, once, or runs on one worker: none is
\* lost or run twice as workers wake, take and retire.
JobInOnePlace ==
  /\ \A i, k \in 1..Len(queue) : queue[i] = queue[k] => i = k
  /\ \A w, v \in Workers : job[w] # None /\ job[w] = job[v] => w = v
  /\ \A j \in Jobs : LET waits == \E i \in 1..Len(queue) : queue[i] = j
                         runs  == \E w \in Workers : job[w] = j
                     IN /\ fate[j] = "submitted" <=> waits \/ runs
                        /\ ~ (waits /\ runs)

\* The re-check of a retiring worker and the notification of a spawn cover
\* each other: while a job waits, some worker is on its way to the queue, so a
\* job never depends on a parked worker's timeout; and however timeouts coincide, the
\* pool keeps a thread.
NoStrandedJob ==
  /\ queue # <<>> => At({"look", "woken", "timedout", "running"}) # {}
  /\ Alive # {}

\* Every submitted job is run in the end, although workers time out and retire
\* meanwhile and the listener may submit no more: a job for which spawn does not grow
\* the pool (taskpool.rs:87) waits for others to end, never for ever.
JobsRun == \A j \in Jobs : fate[j] = "submitted" ~> fate[j] = "done"

\* The core workers are evergreen (taskpool.rs:3): only those the pool has grown by
\* retire.  It does not hold (README, the violated runs).
CoreStays == workers >= Core
=============================================================================
