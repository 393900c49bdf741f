----------------------------- MODULE TaskPoolProofs -----------------------------
(* Proofs about the thread pool, for any number of jobs, names of threads and *)
(* core threads.                                                              *)
EXTENDS TaskPool, FiniteSetTheorems, SequenceTheorems, TLAPS

(***************************************************************************)
(* TypeOK is inductive: it says that the pool's counters are the numbers   *)
(* of its threads.  JobInOnePlace needs to know who has a job, and         *)
(* NoStrandedJob needs the counters, because a thread decides to retire,   *)
(* and a spawn to wake nobody, by them.                                    *)
(***************************************************************************)
RunnersHaveJobs == \A w \in Workers : job[w] # None <=> thread[w] = "running"

-----------------------------------------------------------------------------
(* The counters *)

Sleeping == {"parked", "woken", "timedout"}

\* What moving one thread does to the numbers of living and of sleeping ones.
LEMMA MoveThread ==
  ASSUME thread \in [Workers -> Stations], NEW w \in Workers, NEW s \in Stations,
         thread' = [thread EXCEPT ![w] = s]
  PROVE  /\ thread' \in [Workers -> Stations]
         /\ Cardinality(Alive) \in Nat /\ Cardinality(Asleep) \in Nat
         /\ s = "none" /\ thread[w] # "none"
              => Cardinality(Alive') = Cardinality(Alive) - 1
         /\ s # "none" /\ thread[w] = "none"
              => Cardinality(Alive') = Cardinality(Alive) + 1
         /\ (s = "none" <=> thread[w] = "none")
              => Cardinality(Alive') = Cardinality(Alive)
         /\ s \in Sleeping /\ thread[w] \notin Sleeping
              => Cardinality(Asleep') = Cardinality(Asleep) + 1
         /\ s \notin Sleeping /\ thread[w] \in Sleeping
              => Cardinality(Asleep') = Cardinality(Asleep) - 1
         /\ (s \in Sleeping <=> thread[w] \in Sleeping)
              => Cardinality(Asleep') = Cardinality(Asleep)
<1>1. thread' \in [Workers -> Stations]
  OBVIOUS
<1>2. Alive = {v \in Workers : thread[v] # "none"} /\ Alive' = {v \in Workers : thread'[v] # "none"}
  BY DEF Alive, At
<1>3. /\ Asleep = {v \in Workers : thread[v] \in Sleeping}
      /\ Asleep' = {v \in Workers : thread'[v] \in Sleeping}
  BY DEF Asleep, At, Sleeping
<1>4. IsFiniteSet(Alive) /\ IsFiniteSet(Asleep)
  BY <1>2, <1>3, FS_Subset, PoolAssumption
<1>5. Cardinality(Alive) \in Nat /\ Cardinality(Asleep) \in Nat
  BY <1>4, FS_CardinalityType
<1>6. /\ Alive' = IF s = "none" THEN Alive \ {w} ELSE Alive \cup {w}
      /\ Asleep' = IF s \in Sleeping THEN Asleep \cup {w} ELSE Asleep \ {w}
  BY <1>2, <1>3
<1>7. ASSUME NEW S, IsFiniteSet(S)
      PROVE  /\ Cardinality(S \ {w}) = IF w \in S THEN Cardinality(S) - 1 ELSE Cardinality(S)
             /\ Cardinality(S \cup {w}) = IF w \in S THEN Cardinality(S) ELSE Cardinality(S) + 1
  <2>1. Cardinality(S \ {w}) = IF w \in S THEN Cardinality(S) - 1 ELSE Cardinality(S)
    BY <1>7, FS_RemoveElement
  <2>2. Cardinality(S \cup {w}) = IF w \in S THEN Cardinality(S) ELSE Cardinality(S) + 1
    BY <1>7, FS_AddElement
  <2>3. QED
    BY <2>1, <2>2
<1>8. (w \in Alive <=> thread[w] # "none") /\ (w \in Asleep <=> thread[w] \in Sleeping)
  BY <1>2, <1>3
<1>9. \A S \in {Alive, Asleep} :
        /\ Cardinality(S \ {w}) = IF w \in S THEN Cardinality(S) - 1 ELSE Cardinality(S)
        /\ Cardinality(S \cup {w}) = IF w \in S THEN Cardinality(S) ELSE Cardinality(S) + 1
  BY <1>4, <1>7
<1>10. QED
  BY <1>1, <1>5, <1>6, <1>8, <1>9

LEMMA InitTypes == Init => TypeOK
<1> SUFFICES ASSUME Init PROVE TypeOK
  OBVIOUS
<1>1. PICK born \in SUBSET Workers :
        /\ Cardinality(born) = Core
        /\ thread = [w \in Workers |-> IF w \in born THEN "look" ELSE "none"]
  BY DEF Init
<1>2. Alive = born /\ Asleep = {}
  BY <1>1 DEF Alive, Asleep, At
<1>3. QED
  BY <1>1, <1>2, FS_EmptySet DEF Init, TypeOK, Stations

\* A worker takes the first job.
LEMMA TakeTypes ==
  ASSUME TypeOK, NEW w \in Workers, Take(w)
  PROVE  /\ queue' \in Seq(Jobs) /\ Len(queue') = Len(queue) - 1
         /\ \A i \in 1..Len(queue') : queue'[i] = queue[i + 1]
         /\ Len(queue) \in Nat \ {0} /\ Head(queue) \in Jobs /\ Head(queue) = queue[1]
         /\ job' = [job EXCEPT ![w] = Head(queue)]
         /\ thread' = [thread EXCEPT ![w] = "running"]
  BY HeadTailProperties, EmptySeq DEF TypeOK, Take

LEMMA NextTypes == TypeOK /\ [Next]_vars => TypeOK'
<1> SUFFICES ASSUME TypeOK, [Next]_vars PROVE TypeOK'
  OBVIOUS
<1>1. /\ thread \in [Workers -> Stations] /\ queue \in Seq(Jobs)
      /\ job \in [Workers -> Jobs \cup {None}] /\ fate \in [Jobs -> {"new", "submitted", "done"}]
      /\ workers = Cardinality(Alive) /\ idle = Cardinality(Asleep)
  BY DEF TypeOK
<1>2. ASSUME NEW j \in Jobs, Spawn(j) PROVE TypeOK'
  <2>1. /\ queue' \in Seq(Jobs) /\ fate' \in [Jobs -> {"new", "submitted", "done"}]
        /\ job' = job /\ idle' = idle
    BY <1>1, <1>2, AppendProperties DEF Spawn
  <2>2. \/ UNCHANGED <<workers, thread>>
        \/ /\ workers' = workers
           /\ \E w \in At({"parked"}) : thread' = [thread EXCEPT ![w] = "woken"]
        \/ /\ workers' = workers + 1
           /\ \E w \in At({"none"}) : thread' = [thread EXCEPT ![w] = "look"]
    BY <1>2 DEF Spawn, TryHandoff, NotifyOne, SpawnWorkerLocked
  <2>3. CASE UNCHANGED <<workers, thread>>
    BY <1>1, <2>1, <2>3 DEF TypeOK, Alive, Asleep, At
  <2>4. CASE /\ workers' = workers
             /\ \E w \in At({"parked"}) : thread' = [thread EXCEPT ![w] = "woken"]
    BY <1>1, <2>1, <2>4, MoveThread DEF TypeOK, At, Stations, Sleeping
  <2>5. CASE /\ workers' = workers + 1
             /\ \E w \in At({"none"}) : thread' = [thread EXCEPT ![w] = "look"]
    BY <1>1, <2>1, <2>5, MoveThread DEF TypeOK, At, Stations, Sleeping
  <2>6. QED
    BY <2>2, <2>3, <2>4, <2>5
<1>3. ASSUME NEW w \in Workers, Look(w) PROVE TypeOK'
  <2>1. CASE Take(w) /\ UNCHANGED idle
    BY <1>1, <1>3, <2>1, TakeTypes, MoveThread DEF Look, TypeOK, Stations, Sleeping
  <2>2. CASE /\ idle' = idle + 1 /\ UNCHANGED <<queue, job>>
             /\ thread' = [thread EXCEPT ![w] = "parked"]
    BY <1>1, <1>3, <2>2, MoveThread DEF Look, TypeOK, Stations, Sleeping
  <2>3. QED
    BY <1>3, <2>1, <2>2 DEF Look
<1>4. ASSUME NEW w \in Workers, TimeOut(w) \/ SpuriousWake(w) PROVE TypeOK'
  BY <1>1, <1>4, MoveThread DEF TimeOut, SpuriousWake, TypeOK, Stations, Sleeping
<1>5. ASSUME NEW w \in Workers, Resume(w) PROVE TypeOK'
  <2>1. CASE Take(w) /\ idle' = idle - 1 /\ UNCHANGED workers
    BY <1>1, <1>5, <2>1, TakeTypes, MoveThread DEF Resume, TypeOK, Stations, Sleeping
  <2>2. CASE /\ idle' = idle - 1 /\ workers' = workers - 1 /\ UNCHANGED <<queue, job>>
             /\ thread' = [thread EXCEPT ![w] = "none"]
    BY <1>1, <1>5, <2>2, MoveThread DEF Resume, TypeOK, Stations, Sleeping
  <2>3. CASE /\ thread' = [thread EXCEPT ![w] = "parked"]
             /\ UNCHANGED <<queue, workers, idle, job>>
    BY <1>1, <1>5, <2>3, MoveThread DEF Resume, TypeOK, Stations, Sleeping
  <2>4. QED
    BY <1>5, <2>1, <2>2, <2>3 DEF Resume
<1>6. ASSUME NEW w \in Workers, Finish(w) PROVE TypeOK'
  <2>1. fate' \in [Jobs -> {"new", "submitted", "done"}] /\ job' \in [Workers -> Jobs \cup {None}]
    BY <1>1, <1>6 DEF Finish
  <2>2. QED
    BY <1>1, <1>6, <2>1, MoveThread DEF Finish, TypeOK, Stations, Sleeping
<1>7. CASE UNCHANGED vars
  BY <1>1, <1>7 DEF vars, TypeOK, Alive, Asleep, At
<1>8. QED
  BY <1>2, <1>3, <1>4, <1>5, <1>6, <1>7 DEF Next, WorkerLoop

\* In every window between a notification or a timeout and the woken thread's
\* return, workers and idle are the numbers of the pool's living and sleeping
\* threads (TypeOK).
THEOREM PoolCounters == Spec => []TypeOK
  BY InitTypes, NextTypes, PTL DEF Spec

-----------------------------------------------------------------------------
(* No job is stranded *)

LEMMA InitStranded == Init => NoStrandedJob
<1> SUFFICES ASSUME Init PROVE NoStrandedJob
  OBVIOUS
<1>1. workers = Cardinality(Alive) /\ workers = Core /\ Core \in Nat \ {0}
  BY InitTypes, PoolAssumption, FS_CardinalityType DEF TypeOK, Init
<1>2. Alive # {}
  BY <1>1, FS_EmptySet
<1>3. QED
  BY <1>2 DEF Init, NoStrandedJob

LEMMA NextStranded == TypeOK /\ TypeOK' /\ NoStrandedJob /\ [Next]_vars => NoStrandedJob'
<1> SUFFICES ASSUME TypeOK, TypeOK', NoStrandedJob, [Next]_vars PROVE NoStrandedJob'
  OBVIOUS
<1> DEFINE Coming == {"look", "woken", "timedout", "running"}
<1>1. /\ thread \in [Workers -> Stations] /\ thread' \in [Workers -> Stations]
      /\ queue \in Seq(Jobs) /\ queue' \in Seq(Jobs)
      /\ workers = Cardinality(Alive) /\ workers' = Cardinality(Alive')
      /\ idle = Cardinality(Asleep)
  BY DEF TypeOK
<1>2. /\ Alive = {v \in Workers : thread[v] # "none"}
      /\ Alive' = {v \in Workers : thread'[v] # "none"}
      /\ Asleep = {v \in Workers : thread[v] \in Sleeping}
  BY DEF Alive, Asleep, At, Sleeping
<1>3. /\ Alive # {} /\ (queue # <<>> => \E v \in Workers : thread[v] \in Coming)
      /\ Cardinality(Alive) \in Nat /\ Cardinality(Asleep) \in Nat
      /\ Cardinality(Asleep) = 0 <=> Asleep = {}
  BY <1>2, FS_Subset, FS_EmptySet, FS_CardinalityType, PoolAssumption DEF NoStrandedJob, At
<1>4. ASSUME Alive' # {}, queue' = <<>> PROVE NoStrandedJob'
  BY <1>4 DEF NoStrandedJob
<1>5. ASSUME NEW w \in Workers, thread'[w] \in Coming PROVE NoStrandedJob'
  BY <1>2, <1>5 DEF NoStrandedJob, At
<1>6. ASSUME NEW j \in Jobs, Spawn(j) PROVE NoStrandedJob'
  <2>1. CASE SpawnWorkerLocked
    BY <1>1, <1>5, <2>1 DEF SpawnWorkerLocked, At
  <2>2. CASE \E w \in At({"parked"}) : thread' = [thread EXCEPT ![w] = "woken"]
    BY <1>1, <1>5, <2>2 DEF At
  <2>3. CASE At({"parked"}) = {} /\ thread' = thread /\ (idle > 0 \/ workers - idle >= Len(queue'))
    <3>1. Alive = {} \/ \E v \in Workers : thread[v] \in Coming
      <4>1. CASE idle > 0
        BY <1>1, <1>2, <1>3, <2>3, <4>1 DEF At, Sleeping
      <4>2. CASE idle = 0
        BY <1>1, <1>2, <1>3, <4>2 DEF Stations, Sleeping
      <4>3. QED
        BY <1>1, <1>3, <4>1, <4>2
    <3>2. QED
      BY <1>3, <1>5, <2>3, <3>1
  <2>4. QED
    BY <1>6, <2>1, <2>2, <2>3 DEF Spawn, TryHandoff, NotifyOne
<1>7. ASSUME NEW w \in Workers, Look(w) PROVE NoStrandedJob'
  <2>1. CASE Take(w)
    BY <1>1, <1>5, <2>1 DEF Take
  <2>2. CASE queue' = <<>> /\ thread' = [thread EXCEPT ![w] = "parked"]
    BY <1>1, <1>2, <1>4, <2>2
  <2>3. QED
    BY <1>7, <2>1, <2>2 DEF Look
<1>8. ASSUME NEW w \in Workers, TimeOut(w) \/ SpuriousWake(w) PROVE NoStrandedJob'
  BY <1>1, <1>5, <1>8 DEF TimeOut, SpuriousWake
<1>9. ASSUME NEW w \in Workers, Resume(w) PROVE NoStrandedJob'
  <2>1. CASE Take(w)
    BY <1>1, <1>5, <2>1 DEF Take
  <2>2. CASE queue' = <<>> /\ thread' = [thread EXCEPT ![w] = "parked"]
    BY <1>1, <1>2, <1>4, <2>2
  <2>3. CASE queue' = <<>> /\ workers > 1 /\ workers' = workers - 1
    <3>1. Cardinality(Alive') # 0
      BY <1>1, <1>3, <2>3
    <3>2. Alive' # {}
      BY <3>1, FS_EmptySet
    <3>3. QED
      BY <1>4, <2>3, <3>2
  <2>4. QED
    BY <1>9, <2>1, <2>2, <2>3 DEF Resume, MayRetire
<1>10. ASSUME NEW w \in Workers, Finish(w) PROVE NoStrandedJob'
  BY <1>1, <1>5, <1>10 DEF Finish
<1>11. CASE UNCHANGED vars
  BY <1>11 DEF vars, NoStrandedJob, Alive, At
<1>12. QED
  BY <1>6, <1>7, <1>8, <1>9, <1>10, <1>11 DEF Next, WorkerLoop

\* While a job waits, some thread is on its way to the queue, and the pool keeps a
\* thread however timeouts coincide (NoStrandedJob).
THEOREM NoJobStranded == Spec => []NoStrandedJob
<1>1. TypeOK /\ NoStrandedJob /\ [Next]_vars => (TypeOK /\ NoStrandedJob)'
  BY NextTypes, NextStranded
<1>2. QED
  BY <1>1, InitTypes, InitStranded, PTL DEF Spec

-----------------------------------------------------------------------------
(* Every job is in one place *)

Waits(j) == \E i \in 1..Len(queue) : queue[i] = j
Runs(j)  == \E w \in Workers : job[w] = j

\* JobInOnePlace by its parts.
Distinct  == \A i, k \in 1..Len(queue) : queue[i] = queue[k] => i = k
OneRunner == \A w, v \in Workers : job[w] # None /\ job[w] = job[v] => w = v
Placed    == \A j \in Jobs : /\ fate[j] = "submitted" <=> Waits(j) \/ Runs(j)
                             /\ ~ (Waits(j) /\ Runs(j))

LEMMA Parts == /\ JobInOnePlace => Distinct /\ OneRunner /\ Placed
               /\ (Distinct /\ OneRunner /\ Placed)' => JobInOnePlace'
  BY DEF JobInOnePlace, Distinct, OneRunner, Placed, Waits, Runs

LEMMA TakeKeeps ==
  ASSUME TypeOK, TypeOK', RunnersHaveJobs, JobInOnePlace,
         NEW w \in Workers, thread[w] # "running", Take(w), fate' = fate
  PROVE  RunnersHaveJobs' /\ JobInOnePlace'
<1>1. /\ job \in [Workers -> Jobs \cup {None}] /\ thread \in [Workers -> Stations]
      /\ queue \in Seq(Jobs)
  BY DEF TypeOK
<1> PICK h : h = Head(queue)
  OBVIOUS
<1>2. /\ Len(queue) \in Nat \ {0} /\ Len(queue') = Len(queue) - 1
      /\ \A i \in 1..Len(queue') : queue'[i] = queue[i + 1]
      /\ h \in Jobs /\ h = queue[1] /\ h # None
      /\ job' = [job EXCEPT ![w] = h] /\ thread' = [thread EXCEPT ![w] = "running"]
  BY TakeTypes, PoolAssumption
<1>3. Distinct /\ OneRunner /\ Placed
  BY Parts
<1>4. Waits(h) /\ ~ Runs(h) /\ fate[h] = "submitted" /\ job[w] = None
  BY <1>1, <1>2, <1>3 DEF Placed, Waits, RunnersHaveJobs
<1>5. Distinct' /\ ~ Waits(h)'
  <2>1. \A i \in 1..Len(queue') : i + 1 \in 1..Len(queue) /\ i + 1 # 1 /\ 1 \in 1..Len(queue)
    BY <1>2
  <2>2. Distinct'
    <3> SUFFICES ASSUME NEW i \in 1..Len(queue'), NEW k \in 1..Len(queue'),
                        queue'[i] = queue'[k]
                 PROVE  i = k
      BY DEF Distinct
    <3>1. i + 1 = k + 1
      BY <1>2, <1>3, <2>1 DEF Distinct
    <3>2. QED
      BY <1>2, <3>1
  <2>3. ~ Waits(h)'
    BY <1>2, <1>3, <2>1 DEF Distinct, Waits
  <2>4. QED
    BY <2>2, <2>3
<1>6. \A j \in Jobs \ {h} : Waits(j)' <=> Waits(j)
  <2> SUFFICES ASSUME NEW j \in Jobs \ {h} PROVE Waits(j)' <=> Waits(j)
    OBVIOUS
  <2>1. Waits(j)' => Waits(j)
    BY <1>2 DEF Waits
  <2>2. ASSUME NEW i \in 1..Len(queue), queue[i] = j PROVE Waits(j)'
    <3>1. i # 1 /\ i - 1 \in 1..Len(queue') /\ queue'[i - 1] = j
      BY <1>2, <2>2
    <3>2. QED
      BY <3>1 DEF Waits
  <2>3. QED
    BY <2>1, <2>2 DEF Waits
<1>7. OneRunner' /\ Runs(h)' /\ \A j \in Jobs \ {h} : Runs(j)' <=> Runs(j)
  BY <1>1, <1>2, <1>3, <1>4, PoolAssumption DEF OneRunner, Runs
<1>8. Placed'
  BY <1>3, <1>4, <1>5, <1>6, <1>7 DEF Placed
<1>9. RunnersHaveJobs'
  BY <1>1, <1>2 DEF RunnersHaveJobs
<1>10. QED
  BY <1>5, <1>7, <1>8, <1>9, Parts

\* A thread that is not running goes to a place where it does not run either.
LEMMA IdleKeeps ==
  ASSUME TypeOK, RunnersHaveJobs, JobInOnePlace, NEW w \in Workers, NEW s \in Stations,
         thread[w] # "running", s # "running", thread' = [thread EXCEPT ![w] = s],
         UNCHANGED <<queue, job, fate>>
  PROVE  RunnersHaveJobs' /\ JobInOnePlace'
<1>1. JobInOnePlace'
  BY DEF JobInOnePlace
<1>2. QED
  BY <1>1 DEF RunnersHaveJobs, TypeOK

LEMMA NextPlaces ==
  TypeOK /\ TypeOK' /\ RunnersHaveJobs /\ JobInOnePlace /\ [Next]_vars
    => RunnersHaveJobs' /\ JobInOnePlace'
<1> SUFFICES ASSUME TypeOK, TypeOK', RunnersHaveJobs, JobInOnePlace, [Next]_vars
             PROVE  RunnersHaveJobs' /\ JobInOnePlace'
  OBVIOUS
<1>1. /\ job \in [Workers -> Jobs \cup {None}] /\ thread \in [Workers -> Stations]
      /\ queue \in Seq(Jobs) /\ fate \in [Jobs -> {"new", "submitted", "done"}]
  BY DEF TypeOK
<1>2. Distinct /\ OneRunner /\ Placed
  BY Parts
<1>3. ASSUME NEW j \in Jobs, Spawn(j) PROVE RunnersHaveJobs' /\ JobInOnePlace'
  <2>1. /\ fate[j] = "new" /\ fate' = [fate EXCEPT ![j] = "submitted"] /\ job' = job
        /\ Len(queue) \in Nat /\ Len(queue') = Len(queue) + 1 /\ queue'[Len(queue) + 1] = j
        /\ \A i \in 1..Len(queue) : queue'[i] = queue[i]
    BY <1>1, <1>3, AppendProperties, LenProperties DEF Spawn
  <2>2. ~ Waits(j) /\ ~ Runs(j)
    BY <1>2, <2>1 DEF Placed
  <2>3. Distinct' /\ OneRunner'
    BY <1>2, <2>1, <2>2 DEF Distinct, OneRunner, Waits
  <2>4. \A k \in Jobs : (Waits(k)' <=> Waits(k) \/ k = j) /\ (Runs(k)' <=> Runs(k))
    BY <2>1 DEF Waits, Runs
  <2>5. Placed'
    BY <1>1, <1>2, <2>1, <2>2, <2>4 DEF Placed
  <2>6. RunnersHaveJobs'
    BY <1>1, <1>3
    DEF Spawn, TryHandoff, NotifyOne, SpawnWorkerLocked, At, RunnersHaveJobs
  <2>7. QED
    BY <2>3, <2>5, <2>6, Parts
<1>4. ASSUME NEW w \in Workers, Look(w) PROVE RunnersHaveJobs' /\ JobInOnePlace'
  BY <1>4, TakeKeeps, IdleKeeps DEF Look, Stations
<1>5. ASSUME NEW w \in Workers, TimeOut(w) \/ SpuriousWake(w)
      PROVE  RunnersHaveJobs' /\ JobInOnePlace'
  BY <1>5, IdleKeeps DEF TimeOut, SpuriousWake, Stations
<1>6. ASSUME NEW w \in Workers, Resume(w) PROVE RunnersHaveJobs' /\ JobInOnePlace'
  BY <1>6, TakeKeeps, IdleKeeps DEF Resume, MayRetire, Stations
<1>7. ASSUME NEW w \in Workers, Finish(w) PROVE RunnersHaveJobs' /\ JobInOnePlace'
  <2>1. /\ thread[w] = "running" /\ queue' = queue
        /\ fate' = [fate EXCEPT ![job[w]] = "done"] /\ job' = [job EXCEPT ![w] = None]
        /\ thread' = [thread EXCEPT ![w] = "look"]
    BY <1>7 DEF Finish
  <2>2. PICK j \in Jobs : job[w] = j /\ Runs(j) /\ ~ Waits(j)
    BY <1>1, <1>2, <2>1 DEF RunnersHaveJobs, Runs, Placed
  <2>3. Distinct' /\ OneRunner' /\ \A k \in Jobs : Waits(k)' <=> Waits(k)
    BY <1>1, <1>2, <2>1 DEF Distinct, OneRunner, Waits
  <2>4. ~ Runs(j)' /\ \A k \in Jobs \ {j} : Runs(k)' <=> Runs(k)
    BY <1>1, <1>2, <2>1, <2>2, PoolAssumption DEF OneRunner, Runs
  <2>5. Placed'
    BY <1>1, <1>2, <2>1, <2>2, <2>3, <2>4 DEF Placed
  <2>6. RunnersHaveJobs'
    BY <1>1, <2>1 DEF RunnersHaveJobs
  <2>7. QED
    BY <2>3, <2>5, <2>6, Parts
<1>8. CASE UNCHANGED vars
  BY <1>8 DEF vars, RunnersHaveJobs, JobInOnePlace
<1>9. QED
  BY <1>3, <1>4, <1>5, <1>6, <1>7, <1>8 DEF Next, WorkerLoop

LEMMA PlaceInvariant == Spec => [](TypeOK /\ RunnersHaveJobs /\ JobInOnePlace)
<1>1. Init => RunnersHaveJobs /\ JobInOnePlace
  BY PoolAssumption DEF Init, RunnersHaveJobs, JobInOnePlace
<1>2. TypeOK /\ RunnersHaveJobs /\ JobInOnePlace /\ [Next]_vars
        => (TypeOK /\ RunnersHaveJobs /\ JobInOnePlace)'
  BY NextTypes, NextPlaces
<1>3. QED
  BY <1>1, <1>2, InitTypes, PTL DEF Spec

\* A submitted job waits in the queue, once, or runs on one thread, until it is
\* done (JobInOnePlace).
THEOREM JobsInOnePlace == Spec => []JobInOnePlace
  BY PlaceInvariant, PTL

-----------------------------------------------------------------------------
(* The names suffice *)

Grows(j) == fate[j] = "new" /\ ~ (idle > 0 \/ workers - idle >= Len(queue) + 1)

\* Whenever a spawn decides to grow the pool there is a name for the new thread: the
\* pool grows only to as many threads as jobs wait, so that as many names as jobs
\* (PoolAssumption) restrict no behaviour of the code.
THEOREM NamesSuffice == Spec => [](\A j \in Jobs : Grows(j) => At({"none"}) # {})
<1>1. ASSUME TypeOK, JobInOnePlace, NEW j \in Jobs, Grows(j), At({"none"}) = {}
      PROVE  FALSE
  <2>1. /\ queue \in Seq(Jobs) /\ fate[j] = "new" /\ workers = Cardinality(Workers)
        /\ workers \in Nat /\ idle \in Nat /\ ~ (idle > 0 \/ workers - idle >= Len(queue) + 1)
    <3>1. Alive = Workers /\ Asleep \in SUBSET Workers
      BY <1>1 DEF Alive, Asleep, At
    <3>2. QED
      BY <1>1, <3>1, PoolAssumption, FS_CardinalityType, FS_Subset DEF TypeOK, Grows
  <2>2. /\ Len(queue) \in Nat /\ queue \in [1..Len(queue) -> Jobs \ {j}]
        /\ \A i, k \in 1..Len(queue) : queue[i] = queue[k] => i = k
    BY <1>1, <2>1, LenProperties DEF JobInOnePlace
  <2>3. /\ IsFiniteSet(Jobs \ {j}) /\ Cardinality(Jobs \ {j}) = Cardinality(Jobs) - 1
        /\ Cardinality(Jobs) \in Nat /\ Cardinality(Jobs) <= Cardinality(Workers)
    BY PoolAssumption, FS_RemoveElement, FS_CardinalityType
  <2>4. IsFiniteSet(1..Len(queue)) /\ Cardinality(1..Len(queue)) = Len(queue)
    <3>1. PICK n \in Nat : n = Len(queue)
      BY <2>2
    <3>2. IsFiniteSet(1..n) /\ Cardinality(1..n) = IF 1 > n THEN 0 ELSE n - 1 + 1
      BY FS_Interval
    <3>3. QED
      BY <3>1, <3>2
  <2>5. ~ Cardinality(Jobs \ {j}) < Cardinality(1..Len(queue))
    BY <2>2, <2>3, <2>4, FS_PigeonHole
  <2>6. QED
    BY <2>1, <2>2, <2>3, <2>4, <2>5
<1>2. TypeOK /\ JobInOnePlace => \A j \in Jobs : Grows(j) => At({"none"}) # {}
  BY <1>1
<1>3. QED
  BY <1>2, PlaceInvariant, PTL
=============================================================================
