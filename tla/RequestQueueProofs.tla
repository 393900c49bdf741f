------------------------- MODULE RequestQueueProofs -------------------------
(* Proofs about the request queue, for any number of requests, pollers and  *)
(* keys, and any scan orders.                                               *)
EXTENDS RequestQueue, TLAPS

(***************************************************************************)
(* The inductive invariant.  Its parts say what the threads may rely on    *)
(* between two critical sections.                                          *)
(***************************************************************************)

\* A deque exists once the enqueue that allocates it has passed or_insert_with.
Allocated(d) == enq[d] \notin {"new", "create"}

\* Who holds an Arc holds a deque of the key it is working on.
ArcsOk ==
  /\ \A t \in Tasks :
       enq[t] = "push" => /\ arc[t] \in Deques
                          /\ Allocated(arc[t])
                          /\ KeyOf[arc[t]] = KeyOf[t]
  /\ \A p \in Pollers :
       poller[p] = "lock" => /\ arc[p] \in Deques
                             /\ Allocated(arc[p])
                             /\ KeyOf[arc[p]] = CurrentKey(p)
  /\ \A e \in todo : Allocated(e[2]) /\ KeyOf[e[2]] = e[1]

\* The index and the deques agree on keys, and a deque that does not exist
\* yet holds nothing.
IndexOk ==
  /\ \A k \in Keys : index[k] # None => /\ Allocated(index[k])
                                        /\ KeyOf[index[k]] = k
  /\ \A d \in Deques : \A t \in deque[d] : Allocated(d) /\ KeyOf[t] = KeyOf[d]

\* Nothing a poller should have taken waits under key k.
NothingUnder(k) == \A t \in Tasks : Announced(t) /\ Visible(t) => KeyOf[t] # k

\* Poller p is in its first attempt and nothing was announced since its mark.
Current(p) == attempt[p] = 1 /\ seen[p] = generation /\ popped[p] = None

\* The keys of the attempt that are behind the poller.
Scanned(p) ==
  IF poller[p] \in {"fetch", "lock"} THEN 1 .. (pos[p] - 1)
  ELSE IF poller[p] \in {"remove", "wait", "parked"} THEN 1 .. pos[p]
  ELSE {}

\* A poller in its first attempt, with no announcement since its mark, has
\* left nothing behind; one about to lock a deque that has lost its key since
\* has nothing to find under the key.  Only such a poller parks.
PollerOk(p) ==
  /\ seen[p] <= generation
  /\ poller[p] = "idle" => pos[p] = 1 /\ attempt[p] = 1
  /\ poller[p] # "remove" => popped[p] = None
  /\ poller[p] \in {"wait", "parked"} => attempt[p] = 1 /\ pos[p] = Len(Scan[p])
  /\ Current(p) => \A i \in Scanned(p) : NothingUnder(Scan[p][i])
  /\ Current(p) /\ poller[p] = "lock" =>
       index[CurrentKey(p)] = arc[p] \/ NothingUnder(CurrentKey(p))
  /\ poller[p] = "parked" =>
       \A t \in Tasks : enq[t] = "done" /\ Visible(t) =>
         \A i \in 1..Len(Scan[p]) : Scan[p][i] # KeyOf[t]

Wakeup == \A p \in Pollers : PollerOk(p)

-----------------------------------------------------------------------------
(* Types, Arcs and the index *)

Shape == TypeOK /\ ArcsOk /\ IndexOk

LEMMA InitShape == Init => Shape
  BY QueueAssumption DEF Init, Shape, TypeOK, ArcsOk, IndexOk, Deques

\* Updating a function inside its range keeps its type.
LEMMA UpdateType ==
  ASSUME NEW S, NEW T, NEW f \in [S -> T], NEW x \in S, NEW y \in T
  PROVE  [f EXCEPT ![x] = y] \in [S -> T]
  OBVIOUS

LEMMA ScanLength ==
  \A p \in Pollers : Len(Scan[p]) \in Nat /\ 1 \in 1..Len(Scan[p])
  BY QueueAssumption

\* Removing an empty key changes the index only there.
LEMMA RemoveType ==
  ASSUME TypeOK, NEW k \in Keys, RemoveKeyIfEmpty(k)
  PROVE  index' \in [Keys -> Deques \cup {None}]
  BY DEF TypeOK, RemoveKeyIfEmpty

\* Moving the scan on keeps the poller's position within it.
PollTypes ==
  /\ poller \in [Pollers -> {"idle", "fetch", "lock", "remove", "wait", "parked"}]
  /\ seen \in [Pollers -> Nat]
  /\ attempt \in [Pollers -> {1, 2}]
  /\ pos \in [Pollers -> Nat]
  /\ \A p \in Pollers : pos[p] \in 1..Len(Scan[p])

LEMMA ReturnType ==
  ASSUME PollTypes, NEW p \in Pollers, Return(p)
  PROVE  PollTypes'
  BY ScanLength DEF PollTypes, Return

LEMMA GoToType ==
  ASSUME PollTypes, NEW p \in Pollers,
         NEW s \in {"lock", "remove", "wait", "parked"}, GoTo(p, s)
  PROVE  PollTypes'
  BY DEF PollTypes, GoTo

LEMMA RescanType ==
  ASSUME PollTypes, NEW p \in Pollers, Rescan(p)
  PROVE  PollTypes'
  BY ScanLength DEF PollTypes, Rescan

LEMMA NextKeyType ==
  ASSUME PollTypes, NEW p \in Pollers, NextKey(p)
  PROVE  PollTypes'
<1>1. CASE /\ pos[p] < Len(Scan[p])
           /\ poller' = [poller EXCEPT ![p] = "fetch"]
           /\ pos' = [pos EXCEPT ![p] = @ + 1]
           /\ UNCHANGED <<seen, attempt>>
  BY <1>1, ScanLength DEF PollTypes
<1>2. CASE GoTo(p, "wait")
  BY <1>2, GoToType
<1>3. CASE Return(p)
  BY <1>3, ReturnType
<1>4. QED
  BY <1>1, <1>2, <1>3 DEF NextKey

\* A dequeue step moves tasks out of one deque: the expired probes, and the
\* front of what is left if there is one.
Kept(d) == deque[d] \ ExpiredProbes(d)

PopsNothing(p) ==
  /\ Kept(arc[p]) = {}
  /\ deque' = [deque EXCEPT ![arc[p]] = {}]
  /\ UNCHANGED <<taken, popped>>

PopsFront(p, t) ==
  /\ IsFront(t, Kept(arc[p]))
  /\ deque' = [deque EXCEPT ![arc[p]] = Kept(arc[p]) \ {t}]
  /\ taken' = [taken EXCEPT ![p] = @ \cup {t}]
  /\ IF Kept(arc[p]) = {t} THEN popped' = [popped EXCEPT ![p] = t]
                           ELSE UNCHANGED popped

LEMMA PopCases ==
  ASSUME NEW p \in Pollers, LockAndPop(p)
  PROVE  PopsNothing(p) \/ \E t \in Kept(arc[p]) : PopsFront(p, t)
<1>1. CASE Kept(arc[p]) = {} /\ deque' = [deque EXCEPT ![arc[p]] = {}]
           /\ UNCHANGED <<popped, taken>>
  BY <1>1 DEF PopsNothing
<1>2. ASSUME NEW t \in Kept(arc[p]),
             IsFront(t, Kept(arc[p])),
             deque' = [deque EXCEPT ![arc[p]] = Kept(arc[p]) \ {t}],
             taken' = [taken EXCEPT ![p] = @ \cup {t}],
             IF Kept(arc[p]) = {t}
               THEN GoTo(p, "remove") /\ popped' = [popped EXCEPT ![p] = t]
               ELSE Return(p) /\ UNCHANGED popped
      PROVE  \E u \in Kept(arc[p]) : PopsFront(p, u)
  BY <1>2 DEF PopsFront
<1>3. QED
  BY <1>1, <1>2 DEF LockAndPop, Kept

LEMMA TypeStep == Shape /\ [Next]_vars => TypeOK'
<1> SUFFICES ASSUME Shape, [Next]_vars
             PROVE  TypeOK'
  OBVIOUS
<1> USE QueueAssumption DEF Shape, Deques, enqVars, pollVars, overVars, outVars
<1>1. ASSUME NEW t \in Tasks, FetchDeque(t)
      PROVE  TypeOK'
  BY <1>1 DEF TypeOK, FetchDeque
<1>2. ASSUME NEW t \in Tasks, CreateDeque(t)
      PROVE  TypeOK'
  <2>1. KeyOf[t] \in Keys /\ index[KeyOf[t]] \in Tasks \cup {None}
    BY DEF TypeOK
  <2>a. \/ index' = [index EXCEPT ![KeyOf[t]] = t] 
        \/ index' = index
    BY <1>2 DEF CreateDeque
  <2>b. \/ arc' = [arc EXCEPT ![t] = t] 
        \/ arc' = [arc EXCEPT ![t] = index[KeyOf[t]]]
    BY <1>2 DEF CreateDeque
  <2>2. index' \in [Keys -> Tasks \cup {None}]
    <3>1. index \in [Keys -> Tasks \cup {None}] /\ t \in Tasks \cup {None}
      BY DEF TypeOK
    <3>2. [index EXCEPT ![KeyOf[t]] = t] \in [Keys -> Tasks \cup {None}]
      BY <3>1, <2>1, UpdateType
    <3>3. QED
      BY <3>1, <3>2, <2>a
  <2>3. arc' \in [Tasks \cup Pollers -> Tasks \cup {None}]
    <3>1. /\ arc \in [Tasks \cup Pollers -> Tasks \cup {None}]
          /\ t \in Tasks \cup {None}
          /\ t \in Tasks \cup Pollers
      BY DEF TypeOK
    <3>2. [arc EXCEPT ![t] = t] \in [Tasks \cup Pollers -> Tasks \cup {None}]
      BY <3>1, UpdateType
    <3>3. [arc EXCEPT ![t] = index[KeyOf[t]]]
             \in [Tasks \cup Pollers -> Tasks \cup {None}]
      BY <3>1, <2>1, UpdateType
    <3>4. QED
      BY <3>2, <3>3, <2>b
  <2>4. enq' \in [Tasks -> {"new", "create", "push", "bump", "notify", "done"}]
    BY <1>2 DEF TypeOK, CreateDeque
  <2>5. QED
    BY <1>2, <2>2, <2>3, <2>4 DEF TypeOK, CreateDeque
<1>3. ASSUME NEW t \in Tasks, PushBack(t)
      PROVE  TypeOK'
  BY <1>3 DEF TypeOK, ArcsOk, PushBack
<1>4. ASSUME NEW t \in Tasks, BumpGeneration(t)
      PROVE  TypeOK'
  BY <1>4 DEF TypeOK, BumpGeneration
<1>5. ASSUME NEW t \in Tasks, NotifyAll(t)
      PROVE  TypeOK'
  BY <1>5 DEF TypeOK, NotifyAll
<1>6. ASSUME NEW t \in Tasks, BecomesOverdue(t)
      PROVE  TypeOK'
  BY <1>6 DEF TypeOK, BecomesOverdue
<1>7. ASSUME NEW p \in Pollers, IdleMark(p)
      PROVE  TypeOK'
  BY <1>7 DEF TypeOK, IdleMark
<1>8. ASSUME NEW p \in Pollers, FetchKey(p)
      PROVE  TypeOK'
  <2>1. PollTypes
    BY DEF PollTypes, TypeOK
  <2>2. PollTypes'
    BY <1>8, <2>1, NextKeyType, GoToType DEF FetchKey
  <2>3. CurrentKey(p) \in Keys
    BY DEF CurrentKey, TypeOK
  <2>4. arc' \in [Tasks \cup Pollers -> Tasks \cup {None}]
    BY <1>8, <2>3 DEF TypeOK, FetchKey
  <2>5. QED
    BY <1>8, <2>2, <2>4 DEF TypeOK, PollTypes, FetchKey
<1>9. ASSUME NEW p \in Pollers, LockAndPop(p)
      PROVE  TypeOK'
  <2>1. PollTypes
    BY DEF PollTypes, TypeOK
  <2>2. PollTypes'
    BY <1>9, <2>1, NextKeyType, GoToType, ReturnType DEF LockAndPop
  <2>3. arc[p] \in Tasks /\ deque[arc[p]] \in SUBSET Tasks
    BY <1>9 DEF TypeOK, ArcsOk, LockAndPop
  <2>4. Kept(arc[p]) \subseteq Tasks /\ None \in Tasks \cup {None}
    BY <2>3 DEF Kept
  <2>5. /\ deque' \in [Tasks -> SUBSET Tasks]
        /\ taken' \in [Pollers -> SUBSET Tasks]
        /\ popped' \in [Pollers -> Tasks \cup {None}]
    <3>1. CASE PopsNothing(p)
      BY <3>1, <2>3 DEF PopsNothing, TypeOK
    <3>2. ASSUME NEW t \in Kept(arc[p]), PopsFront(p, t)
          PROVE  /\ deque' \in [Tasks -> SUBSET Tasks]
                 /\ taken' \in [Pollers -> SUBSET Tasks]
                 /\ popped' \in [Pollers -> Tasks \cup {None}]
      <4>1. /\ deque \in [Tasks -> SUBSET Tasks]
            /\ taken \in [Pollers -> SUBSET Tasks]
            /\ popped \in [Pollers -> Tasks \cup {None}]
            /\ Kept(arc[p]) \ {t} \in SUBSET Tasks
            /\ taken[p] \cup {t} \in SUBSET Tasks
            /\ t \in Tasks \cup {None}
        BY <3>2, <2>4 DEF TypeOK
      <4>2. deque' \in [Tasks -> SUBSET Tasks]
        BY <4>1, <3>2, <2>3 DEF PopsFront
      <4>3. taken' \in [Pollers -> SUBSET Tasks]
        BY <4>1, <3>2 DEF PopsFront
      <4>4. popped' \in [Pollers -> Tasks \cup {None}]
        BY <4>1, <3>2 DEF PopsFront
      <4>5. QED
        BY <4>2, <4>3, <4>4
    <3>3. QED
      BY <1>9, <3>1, <3>2, PopCases
  <2>7. arc' \in [Tasks \cup Pollers -> Tasks \cup {None}]
    BY <1>9 DEF TypeOK, LockAndPop
  <2>8. dropped' \subseteq Tasks
    BY <1>9, <2>3 DEF TypeOK, LockAndPop, ExpiredProbes
  <2>9. QED
    BY <1>9, <2>2, <2>5, <2>7, <2>8 DEF TypeOK, PollTypes, LockAndPop
<1>10. ASSUME NEW p \in Pollers, RemoveKey(p)
       PROVE  TypeOK'
  <2>1. PollTypes
    BY DEF PollTypes, TypeOK
  <2>2. PollTypes'
    BY <1>10, <2>1, NextKeyType, ReturnType DEF RemoveKey
  <2>3. CurrentKey(p) \in Keys
    BY DEF CurrentKey, TypeOK
  <2>4. index' \in [Keys -> Tasks \cup {None}]
    BY <1>10, <2>3, RemoveType DEF RemoveKey
  <2>5. QED
    BY <1>10, <2>2, <2>4 DEF TypeOK, PollTypes, RemoveKey
<1>11. ASSUME NEW p \in Pollers, WaitForWork(p)
       PROVE  TypeOK'
  <2>1. PollTypes
    BY DEF PollTypes, TypeOK
  <2>2. CASE generation = seen[p]
    <3>1. PollTypes'
      BY <1>11, <2>1, <2>2, GoToType DEF WaitForWork
    <3>2. QED
      BY <1>11, <3>1 DEF TypeOK, PollTypes, WaitForWork
  <2>3. CASE generation # seen[p]
    <3>1. PollTypes'
      BY <1>11, <2>1, <2>3, RescanType DEF WaitForWork
    <3>2. QED
      BY <1>11, <3>1 DEF TypeOK, PollTypes, WaitForWork
  <2>4. QED
    BY <2>2, <2>3
<1>12. ASSUME NEW p \in Pollers, WaitTimesOut(p)
       PROVE  TypeOK'
  BY <1>12 DEF TypeOK, WaitTimesOut, Rescan
<1>13. CASE OverseerSnapshot
  BY <1>13 DEF TypeOK, OverseerSnapshot, Entries, ModelKeys
<1>14. CASE OverseerExpire
  BY <1>14 DEF TypeOK, OverseerExpire, ExpiredTasks
<1>15. CASE OverseerRemove
  <2>1. index' \in [Keys -> Tasks \cup {None}]
    BY <1>15, RemoveType DEF TypeOK, OverseerRemove
  <2>2. QED
    BY <1>15, <2>1 DEF TypeOK, OverseerRemove
<1>16. CASE OverseerAnswer
  BY <1>16 DEF TypeOK, OverseerAnswer
<1>17. CASE UNCHANGED vars
  BY <1>17 DEF TypeOK, vars
<1>18. QED
  BY <1>1, <1>2, <1>3, <1>4, <1>5, <1>6, <1>7, <1>8, <1>9, <1>10, <1>11,
     <1>12, <1>13, <1>14, <1>15, <1>16, <1>17
     DEF Next, Enqueue, NextForWorker, Overseer

\* Deques leave a deque and never come to one but by PushBack.
LEMMA DequeOnlyShrinks ==
  ASSUME Shape, NEW p \in Pollers, LockAndPop(p)
  PROVE  \A d \in Deques : deque'[d] \subseteq deque[d]
<1>1. arc[p] \in Tasks
  BY DEF Shape, ArcsOk, LockAndPop, Deques
<1>2. CASE PopsNothing(p)
  BY <1>1, <1>2 DEF PopsNothing, Shape, TypeOK, Deques
<1>3. ASSUME NEW t \in Kept(arc[p]), PopsFront(p, t)
      PROVE  \A d \in Deques : deque'[d] \subseteq deque[d]
  BY <1>1, <1>3 DEF PopsFront, Kept, Shape, TypeOK, Deques
<1>4. QED
  BY <1>2, <1>3, PopCases

LEMMA IndexStep == Shape /\ [Next]_vars => IndexOk'
<1> SUFFICES ASSUME Shape, [Next]_vars
             PROVE  IndexOk'
  OBVIOUS
<1> USE QueueAssumption DEF Shape, Deques, enqVars, pollVars, overVars, outVars
<1>1. ASSUME NEW t \in Tasks, FetchDeque(t)
      PROVE  IndexOk'
  BY <1>1 DEF TypeOK, IndexOk, Allocated, FetchDeque
<1>2. ASSUME NEW t \in Tasks, CreateDeque(t)
      PROVE  IndexOk'
  <2>1. /\ deque' = deque
        /\ enq' = [enq EXCEPT ![t] = "push"]
        /\ enq \in [Tasks -> {"new", "create", "push", "bump", "notify", "done"}]
    BY <1>2 DEF TypeOK, CreateDeque
  <2>2. \A d \in Tasks : Allocated(d) => Allocated(d)'
    BY <2>1 DEF Allocated
  <2>3. Allocated(t)'
    BY <2>1 DEF Allocated
  <2>4. \A k \in Keys : index'[k] = index[k] \/ (k = KeyOf[t] /\ index'[k] = t)
    BY <1>2 DEF TypeOK, CreateDeque
  <2>5. QED
    <3>1. \A k \in Keys : index'[k] # None =>
             /\ enq'[index'[k]] \notin {"new", "create"}
             /\ KeyOf[index'[k]] = k
      <4>1. SUFFICES ASSUME NEW k \in Keys, index'[k] # None
                     PROVE  /\ enq'[index'[k]] \notin {"new", "create"}
                            /\ KeyOf[index'[k]] = k
        OBVIOUS
      <4>2. CASE index'[k] = index[k]
        BY <4>1, <4>2, <2>2 DEF IndexOk, TypeOK, Allocated
      <4>3. CASE k = KeyOf[t] /\ index'[k] = t
        BY <4>3, <2>3 DEF Allocated
      <4>4. QED
        BY <4>2, <4>3, <2>4
    <3>2. \A d \in Tasks : \A u \in deque'[d] : Allocated(d)' /\ KeyOf[u] = KeyOf[d]
      BY <2>1, <2>2 DEF IndexOk
    <3>3. QED
      BY <3>1, <3>2 DEF IndexOk, Allocated
<1>3. ASSUME NEW t \in Tasks, PushBack(t)
      PROVE  IndexOk'
  BY <1>3 DEF TypeOK, ArcsOk, IndexOk, Allocated, PushBack
<1>4. ASSUME NEW t \in Tasks, BumpGeneration(t)
      PROVE  IndexOk'
  BY <1>4 DEF TypeOK, IndexOk, Allocated, BumpGeneration
<1>5. ASSUME NEW t \in Tasks, NotifyAll(t)
      PROVE  IndexOk'
  BY <1>5 DEF TypeOK, IndexOk, Allocated, NotifyAll
<1>6. ASSUME NEW t \in Tasks, BecomesOverdue(t)
      PROVE  IndexOk'
  BY <1>6 DEF IndexOk, Allocated, BecomesOverdue
<1>7. ASSUME NEW p \in Pollers, IdleMark(p) \/ FetchKey(p) \/ WaitForWork(p)
                                 \/ WaitTimesOut(p)
      PROVE  IndexOk'
  BY <1>7 DEF IndexOk, Allocated, IdleMark, FetchKey, WaitForWork, WaitTimesOut
<1>8. ASSUME NEW p \in Pollers, LockAndPop(p)
      PROVE  IndexOk'
  BY <1>8, DequeOnlyShrinks DEF IndexOk, Allocated, LockAndPop
<1>9. ASSUME NEW p \in Pollers, RemoveKey(p)
      PROVE  IndexOk'
  BY <1>9 DEF TypeOK, IndexOk, Allocated, RemoveKey, RemoveKeyIfEmpty
<1>10. CASE OverseerSnapshot \/ OverseerAnswer
  BY <1>10 DEF IndexOk, Allocated, OverseerSnapshot, OverseerAnswer
<1>11. CASE OverseerExpire
  BY <1>11 DEF TypeOK, IndexOk, Allocated, OverseerExpire
<1>12. CASE OverseerRemove
  <2>1. \A k \in Keys : index'[k] = index[k] \/ index'[k] = None
    BY <1>12 DEF TypeOK, OverseerRemove, RemoveKeyIfEmpty
  <2>2. UNCHANGED <<deque, enq>>
    BY <1>12 DEF OverseerRemove
  <2>3. QED
    BY <2>1, <2>2 DEF IndexOk, Allocated
<1>13. CASE UNCHANGED vars
  BY <1>13 DEF IndexOk, Allocated, vars
<1>14. QED
  BY <1>1, <1>2, <1>3, <1>4, <1>5, <1>6, <1>7, <1>8, <1>9, <1>10, <1>11,
     <1>12, <1>13 DEF Next, Enqueue, NextForWorker, Overseer

LEMMA ArcStep == Shape /\ [Next]_vars => ArcsOk'
<1> SUFFICES ASSUME Shape, [Next]_vars
             PROVE  ArcsOk'
  OBVIOUS
<1> USE QueueAssumption DEF Shape, Deques, enqVars, pollVars, overVars, outVars
<1>1. ASSUME NEW t \in Tasks, FetchDeque(t)
      PROVE  ArcsOk'
  BY <1>1 DEF TypeOK, ArcsOk, IndexOk, Allocated, FetchDeque, CurrentKey
<1>2. ASSUME NEW t \in Tasks, CreateDeque(t)
      PROVE  ArcsOk'
  BY <1>2 DEF TypeOK, ArcsOk, IndexOk, Allocated, CreateDeque, CurrentKey
<1>3. ASSUME NEW t \in Tasks, PushBack(t)
      PROVE  ArcsOk'
  BY <1>3 DEF TypeOK, ArcsOk, Allocated, PushBack, CurrentKey
<1>4. ASSUME NEW t \in Tasks, BumpGeneration(t)
      PROVE  ArcsOk'
  BY <1>4 DEF TypeOK, ArcsOk, Allocated, BumpGeneration, CurrentKey
<1>5. ASSUME NEW t \in Tasks, NotifyAll(t)
      PROVE  ArcsOk'
  BY <1>5 DEF TypeOK, ArcsOk, Allocated, NotifyAll, CurrentKey
<1>6. ASSUME NEW t \in Tasks, BecomesOverdue(t)
      PROVE  ArcsOk'
  BY <1>6 DEF ArcsOk, Allocated, BecomesOverdue, CurrentKey
<1>7. ASSUME NEW p \in Pollers, IdleMark(p) \/ WaitForWork(p) \/ WaitTimesOut(p)
      PROVE  ArcsOk'
  <2>1. CASE IdleMark(p)
    BY <2>1 DEF TypeOK, ArcsOk, Allocated, IdleMark, Rescan, GoTo, CurrentKey
  <2>2. CASE WaitForWork(p)
    BY <2>2 DEF TypeOK, ArcsOk, Allocated, WaitForWork, Rescan, GoTo, CurrentKey
  <2>3. CASE WaitTimesOut(p)
    BY <2>3 DEF TypeOK, ArcsOk, Allocated, WaitTimesOut, Rescan, GoTo, CurrentKey
  <2>4. QED
    BY <1>7, <2>1, <2>2, <2>3
<1>8. ASSUME NEW p \in Pollers, FetchKey(p)
      PROVE  ArcsOk'
  BY <1>8 DEF TypeOK, ArcsOk, IndexOk, Allocated, FetchKey, CurrentKey, NextKey,
              GoTo, Return
<1>9. ASSUME NEW p \in Pollers, LockAndPop(p)
      PROVE  ArcsOk'
  BY <1>9 DEF TypeOK, ArcsOk, Allocated, LockAndPop, CurrentKey, NextKey, GoTo,
              Return
<1>10. ASSUME NEW p \in Pollers, RemoveKey(p)
       PROVE  ArcsOk'
  BY <1>10 DEF TypeOK, ArcsOk, Allocated, RemoveKey, CurrentKey, NextKey, GoTo,
               Return
<1>11. CASE OverseerSnapshot
  BY <1>11 DEF TypeOK, ArcsOk, IndexOk, Allocated, OverseerSnapshot, Entries,
               ModelKeys, CurrentKey
<1>12. CASE OverseerExpire \/ OverseerRemove \/ OverseerAnswer
  BY <1>12 DEF TypeOK, ArcsOk, Allocated, OverseerExpire, OverseerRemove,
               OverseerAnswer, CurrentKey
<1>13. CASE UNCHANGED vars
  BY <1>13 DEF ArcsOk, Allocated, vars, CurrentKey
<1>14. QED
  BY <1>1, <1>2, <1>3, <1>4, <1>5, <1>6, <1>7, <1>8, <1>9, <1>10, <1>11,
     <1>12, <1>13 DEF Next, Enqueue, NextForWorker, Overseer

LEMMA ShapeInvariant == Spec => []Shape
<1>1. Shape /\ [Next]_vars => Shape'
  BY TypeStep, IndexStep, ArcStep DEF Shape
<1>2. QED
  BY InitShape, <1>1, PTL DEF Spec

\* Every variable keeps its type, and every Arc a thread holds is a deque of
\* the key the thread works on.
THEOREM TypeCorrect == Spec => []TypeOK
<1>1. Shape => TypeOK
  BY DEF Shape
<1>2. QED
  BY ShapeInvariant, <1>1, PTL

-----------------------------------------------------------------------------
(* Exactly one place *)

LEMMA InitPlaces == Init => ExactlyOnePlace /\ ExpiryIsDueAndTold
  BY DEF Init, ExactlyOnePlace, OnePlace, Waiting, TakenBy, Finished, Pushed,
         ExpiryIsDueAndTold, Deques

\* Steps that move no task and push none.
LEMMA PlacesFrame ==
  ASSUME ExactlyOnePlace, UNCHANGED <<deque, hands, taken, answered, dropped>>,
         \A t \in Tasks : Pushed(t)' <=> Pushed(t)
  PROVE  ExactlyOnePlace'
  BY DEF ExactlyOnePlace, OnePlace, Waiting, TakenBy, Finished

LEMMA PlacesPush ==
  ASSUME Shape, ExactlyOnePlace, NEW t \in Tasks, PushBack(t)
  PROVE  ExactlyOnePlace'
<1>1. /\ arc[t] \in Tasks
      /\ deque \in [Tasks -> SUBSET Tasks]
      /\ deque' = [deque EXCEPT ![arc[t]] = @ \cup {t}]
      /\ enq \in [Tasks -> {"new", "create", "push", "bump", "notify", "done"}]
      /\ enq[t] = "push" /\ enq' = [enq EXCEPT ![t] = "bump"]
      /\ UNCHANGED <<hands, taken, answered, dropped>>
  BY DEF PushBack, Shape, TypeOK, ArcsOk, Deques, overVars, outVars
<1>2. SUFFICES ASSUME NEW u \in Tasks
               PROVE  OnePlace(u)'
  BY DEF ExactlyOnePlace
<1>3. OnePlace(u)
  BY DEF ExactlyOnePlace
<1>4. CASE u = t
  <2>1. ~ Waiting(t) /\ TakenBy(t) = {} /\ ~ Finished(t)
    BY <1>1, <1>3, <1>4 DEF OnePlace, Pushed
  <2>2. \A d \in Tasks : t \in deque'[d] <=> d = arc[t]
    BY <1>1, <2>1 DEF Waiting, Deques
  <2>3. TakenBy(t)' = {} /\ ~ Finished(t)'
    BY <1>1, <2>1 DEF TakenBy, Finished
  <2>4. Pushed(t)'
    BY <1>1 DEF Pushed
  <2>5. QED
    BY <1>1, <1>4, <2>2, <2>3, <2>4 DEF OnePlace, Waiting, Finished, Deques
<1>5. CASE u # t
  <2>1. \A d \in Tasks : u \in deque'[d] <=> u \in deque[d]
    BY <1>1, <1>5
  <2>2. Pushed(u)' <=> Pushed(u)
    BY <1>1, <1>5 DEF Pushed
  <2>3. TakenBy(u)' = TakenBy(u) /\ (Finished(u)' <=> Finished(u))
    BY <1>1 DEF TakenBy, Finished
  <2>4. QED
    BY <1>1, <1>3, <2>1, <2>2, <2>3 DEF OnePlace, Waiting, Deques
<1>6. QED
  BY <1>4, <1>5

LEMMA PlacesPop ==
  ASSUME Shape, ExactlyOnePlace, NEW p \in Pollers, LockAndPop(p)
  PROVE  ExactlyOnePlace'
<1>1. /\ arc[p] \in Tasks
      /\ deque \in [Tasks -> SUBSET Tasks]
      /\ taken \in [Pollers -> SUBSET Tasks]
      /\ dropped' = dropped \cup ExpiredProbes(arc[p])
      /\ UNCHANGED <<enq, hands, answered>>
  BY DEF LockAndPop, Shape, TypeOK, ArcsOk, Deques, enqVars, overVars
<1>2. SUFFICES ASSUME NEW u \in Tasks
               PROVE  OnePlace(u)'
  BY DEF ExactlyOnePlace
<1>3. OnePlace(u) /\ (Pushed(u)' <=> Pushed(u))
  BY <1>1 DEF ExactlyOnePlace, Pushed
<1>4. ExpiredProbes(arc[p]) \subseteq deque[arc[p]]
  BY DEF ExpiredProbes
<1>5. ASSUME NEW got \in SUBSET Kept(arc[p]),
             deque' = [deque EXCEPT ![arc[p]] = Kept(arc[p]) \ got],
             taken' = [taken EXCEPT ![p] = @ \cup got]
      PROVE  OnePlace(u)'
  <2>1. CASE u \in ExpiredProbes(arc[p])
    <3>1. \A d \in Tasks : u \in deque[d] <=> d = arc[p]
      BY <1>1, <1>3, <1>4, <2>1 DEF OnePlace, Deques
    <3>2. TakenBy(u) = {} /\ ~ Finished(u)
      BY <1>1, <1>3, <3>1 DEF OnePlace, Waiting, Deques
    <3>3. u \notin got
      BY <2>1, <1>5 DEF Kept
    <3>4. TakenBy(u)' = {}
      BY <1>1, <1>5, <3>2, <3>3 DEF TakenBy
    <3>5. \A d \in Tasks : u \notin deque'[d]
      BY <1>1, <1>5, <2>1, <3>1 DEF Kept
    <3>6. u \in dropped' /\ u \notin hands' /\ u \notin answered'
      BY <1>1, <2>1, <3>2 DEF Finished
    <3>7. Pushed(u)
      BY <1>1, <1>3, <3>1 DEF OnePlace, Waiting, Deques
    <3>8. QED
      BY <1>3, <3>4, <3>5, <3>6, <3>7 DEF OnePlace, Waiting, Finished, Deques
  <2>2. CASE u \in got
    <3>1. u \in deque[arc[p]] /\ u \notin ExpiredProbes(arc[p])
      BY <1>5, <2>2 DEF Kept
    <3>2. \A d \in Tasks : u \in deque[d] <=> d = arc[p]
      BY <1>1, <1>3, <3>1 DEF OnePlace, Deques
    <3>3. TakenBy(u) = {} /\ ~ Finished(u) /\ Pushed(u)
      BY <1>1, <1>3, <3>2 DEF OnePlace, Waiting, Deques
    <3>4. TakenBy(u)' = {p}
      BY <1>1, <1>5, <2>2, <3>3 DEF TakenBy
    <3>5. \A d \in Tasks : u \notin deque'[d]
      BY <1>1, <1>5, <2>2, <3>2 DEF Kept
    <3>6. ~ Finished(u)'
      BY <1>1, <3>1, <3>3 DEF Finished
    <3>7. QED
      BY <1>3, <3>3, <3>4, <3>5, <3>6 DEF OnePlace, Waiting, Finished, Deques
  <2>3. CASE u \notin ExpiredProbes(arc[p]) /\ u \notin got
    <3>1. \A d \in Tasks : u \in deque'[d] <=> u \in deque[d]
      BY <1>1, <1>5, <2>3 DEF Kept
    <3>2. TakenBy(u)' = TakenBy(u)
      BY <1>1, <1>5, <2>3 DEF TakenBy
    <3>3. u \in dropped' <=> u \in dropped
      BY <1>1, <2>3
    <3>4. QED
      BY <1>1, <1>3, <3>1, <3>2, <3>3 DEF OnePlace, Waiting, Finished, Deques
  <2>4. QED
    BY <2>1, <2>2, <2>3
<1>6. CASE PopsNothing(p)
  <2>1. {} \in SUBSET Kept(arc[p])
    OBVIOUS
  <2>2. deque' = [deque EXCEPT ![arc[p]] = Kept(arc[p]) \ {}]
    BY <1>6 DEF PopsNothing
  <2>3. taken' = [taken EXCEPT ![p] = @ \cup {}]
    BY <1>1, <1>6 DEF PopsNothing
  <2>4. QED
    BY <1>5, <2>1, <2>2, <2>3
<1>7. ASSUME NEW t \in Kept(arc[p]), PopsFront(p, t)
      PROVE  OnePlace(u)'
  BY <1>5, <1>7 DEF PopsFront
<1>8. QED
  BY <1>6, <1>7, PopCases

LEMMA PlacesExpire ==
  ASSUME Shape, ExactlyOnePlace, OverseerExpire
  PROVE  ExactlyOnePlace'
<1>1. PICK e \in todo : /\ hands' = hands \cup ExpiredTasks(e[2])
                        /\ deque' = [deque EXCEPT ![e[2]] = @ \ ExpiredTasks(e[2])]
  BY DEF OverseerExpire
<1>2. /\ e[2] \in Tasks
      /\ deque \in [Tasks -> SUBSET Tasks]
      /\ ExpiredTasks(e[2]) \subseteq deque[e[2]]
      /\ UNCHANGED <<enq, taken, answered, dropped>>
  BY DEF OverseerExpire, Shape, TypeOK, Deques, ExpiredTasks, enqVars, outVars
<1>3. SUFFICES ASSUME NEW u \in Tasks
               PROVE  OnePlace(u)'
  BY DEF ExactlyOnePlace
<1>4. OnePlace(u) /\ (Pushed(u)' <=> Pushed(u)) /\ TakenBy(u)' = TakenBy(u)
  BY <1>2 DEF ExactlyOnePlace, Pushed, TakenBy
<1>5. CASE u \in ExpiredTasks(e[2])
  <2>1. \A d \in Tasks : u \in deque[d] <=> d = e[2]
    BY <1>2, <1>4, <1>5 DEF OnePlace, Deques
  <2>2. TakenBy(u) = {} /\ ~ Finished(u) /\ Pushed(u)
    BY <1>2, <1>4, <2>1 DEF OnePlace, Waiting, Deques
  <2>3. \A d \in Tasks : u \notin deque'[d]
    BY <1>1, <1>2, <1>5, <2>1
  <2>4. u \in hands' /\ u \notin answered' /\ u \notin dropped'
    BY <1>1, <1>2, <1>5, <2>2 DEF Finished
  <2>5. QED
    BY <1>4, <2>2, <2>3, <2>4 DEF OnePlace, Waiting, Finished, Deques
<1>6. CASE u \notin ExpiredTasks(e[2])
  <2>1. \A d \in Tasks : u \in deque'[d] <=> u \in deque[d]
    BY <1>1, <1>2, <1>6
  <2>2. u \in hands' <=> u \in hands
    BY <1>1, <1>6
  <2>3. QED
    BY <1>2, <1>4, <2>1, <2>2 DEF OnePlace, Waiting, Finished, Deques
<1>7. QED
  BY <1>5, <1>6

LEMMA PlacesStep == Shape /\ ExactlyOnePlace /\ [Next]_vars => ExactlyOnePlace'
<1> SUFFICES ASSUME Shape, ExactlyOnePlace, [Next]_vars
             PROVE  ExactlyOnePlace'
  OBVIOUS
<1> USE DEF enqVars, pollVars, overVars, outVars
<1>1. ASSUME NEW t \in Tasks, \/ FetchDeque(t) \/ CreateDeque(t)
                              \/ BumpGeneration(t) \/ NotifyAll(t)
                              \/ BecomesOverdue(t)
      PROVE  ExactlyOnePlace'
  <2>1. \A u \in Tasks : Pushed(u)' <=> Pushed(u)
    BY <1>1 DEF FetchDeque, CreateDeque, BumpGeneration, NotifyAll,
                BecomesOverdue, Pushed, Shape, TypeOK
  <2>2. UNCHANGED <<deque, hands, taken, answered, dropped>>
    BY <1>1 DEF FetchDeque, CreateDeque, BumpGeneration, NotifyAll,
                BecomesOverdue
  <2>3. QED
    BY <2>1, <2>2, PlacesFrame
<1>2. ASSUME NEW t \in Tasks, PushBack(t)
      PROVE  ExactlyOnePlace'
  BY <1>2, PlacesPush
<1>3. ASSUME NEW p \in Pollers, \/ IdleMark(p) \/ FetchKey(p) \/ RemoveKey(p)
                                \/ WaitForWork(p) \/ WaitTimesOut(p)
      PROVE  ExactlyOnePlace'
  <2>1. UNCHANGED <<enq, deque, hands, taken, answered, dropped>>
    BY <1>3 DEF IdleMark, FetchKey, RemoveKey, WaitForWork, WaitTimesOut
  <2>2. QED
    BY <2>1, PlacesFrame DEF Pushed
<1>4. ASSUME NEW p \in Pollers, LockAndPop(p)
      PROVE  ExactlyOnePlace'
  BY <1>4, PlacesPop
<1>5. CASE OverseerSnapshot \/ OverseerRemove
  <2>1. UNCHANGED <<enq, deque, hands, taken, answered, dropped>>
    BY <1>5 DEF OverseerSnapshot, OverseerRemove
  <2>2. QED
    BY <2>1, PlacesFrame DEF Pushed
<1>6. CASE OverseerExpire
  BY <1>6, PlacesExpire
<1>7. CASE OverseerAnswer
  BY <1>7 DEF OverseerAnswer, ExactlyOnePlace, OnePlace, Waiting, TakenBy,
              Finished, Pushed
<1>8. CASE UNCHANGED vars
  BY <1>8, PlacesFrame DEF vars, Pushed
<1>9. QED
  BY <1>1, <1>2, <1>3, <1>4, <1>5, <1>6, <1>7, <1>8
     DEF Next, Enqueue, NextForWorker, Overseer

\* Every pushed request is in one place and in one place only: it is neither
\* lost by the code that moves it nor served twice.
THEOREM ServedAtMostOnce == Spec => []ExactlyOnePlace
<1>1. Init => ExactlyOnePlace
  BY InitPlaces
<1>2. QED
  BY <1>1, PlacesStep, ShapeInvariant, PTL DEF Spec

LEMMA ExpiryStep ==
  Shape /\ ExpiryIsDueAndTold /\ [Next]_vars => ExpiryIsDueAndTold'
<1> SUFFICES ASSUME Shape, ExpiryIsDueAndTold, [Next]_vars
             PROVE  ExpiryIsDueAndTold'
  OBVIOUS
<1> USE DEF enqVars, pollVars, overVars, outVars
<1>1. ASSUME NEW t \in Tasks, Enqueue(t) \/ BecomesOverdue(t)
      PROVE  ExpiryIsDueAndTold'
  BY <1>1 DEF ExpiryIsDueAndTold, Enqueue, FetchDeque, CreateDeque, PushBack,
              BumpGeneration, NotifyAll, BecomesOverdue
<1>2. ASSUME NEW p \in Pollers, NextForWorker(p)
      PROVE  ExpiryIsDueAndTold'
  BY <1>2 DEF ExpiryIsDueAndTold, NextForWorker, IdleMark, FetchKey, LockAndPop,
              RemoveKey, WaitForWork, WaitTimesOut, ExpiredProbes
<1>3. CASE Overseer
  BY <1>3 DEF ExpiryIsDueAndTold, Overseer, OverseerSnapshot, OverseerExpire,
              OverseerRemove, OverseerAnswer, ExpiredTasks
<1>4. CASE UNCHANGED vars
  BY <1>4 DEF ExpiryIsDueAndTold, vars
<1>5. QED
  BY <1>1, <1>2, <1>3, <1>4 DEF Next

\* Only what is overdue expires, and only a probe expires without an answer.
THEOREM ExpiryIsDue == Spec => []ExpiryIsDueAndTold
<1>1. Init => ExpiryIsDueAndTold
  BY InitPlaces
<1>2. QED
  BY <1>1, ExpiryStep, ShapeInvariant, PTL DEF Spec

-----------------------------------------------------------------------------
(* No lost wakeup *)

\* A task is announced and visible after a step only if it was so before.
NothingAppears ==
  \A t \in Tasks : Announced(t)' /\ Visible(t)' => Announced(t) /\ Visible(t)

\* What other threads do to a poller: the index and the deques may change
\* under it, as long as nothing appears and a deque that loses the key the
\* poller is about to lock was empty.
LEMMA PollerFrame ==
  ASSUME NEW p \in Pollers, PollerOk(p), NothingAppears,
         UNCHANGED generation,
         poller'[p] = poller[p], seen'[p] = seen[p], attempt'[p] = attempt[p],
         pos'[p] = pos[p], popped'[p] = popped[p], arc'[p] = arc[p],
         \A t \in Tasks : enq'[t] = "done" <=> enq[t] = "done",
         poller[p] = "lock" /\ index[CurrentKey(p)] = arc[p]
           => index'[CurrentKey(p)] = arc[p] \/ index'[CurrentKey(p)] = None
  PROVE  PollerOk(p)'
<1>1. \A k : NothingUnder(k) => NothingUnder(k)'
  BY DEF NothingUnder, NothingAppears
<1>2. /\ Current(p)' <=> Current(p)
      /\ Scanned(p)' = Scanned(p)
      /\ CurrentKey(p)' = CurrentKey(p)
  BY DEF Current, Scanned, CurrentKey
<1>3. ASSUME Current(p)
      PROVE  \A i \in Scanned(p) : NothingUnder(Scan[p][i])'
  BY <1>1, <1>3 DEF PollerOk
<1>4. ASSUME Current(p), poller[p] = "lock", index'[CurrentKey(p)] # arc[p]
      PROVE  NothingUnder(CurrentKey(p))'
  <2>1. CASE index[CurrentKey(p)] = arc[p]
    <3>1. index'[CurrentKey(p)] = None
      BY <1>4, <2>1
    <3>2. QED
      BY <1>2, <3>1 DEF NothingUnder, Visible
  <2>2. CASE index[CurrentKey(p)] # arc[p]
    <3>1. NothingUnder(CurrentKey(p))
      BY <1>4, <2>2 DEF PollerOk
    <3>2. QED
      BY <1>2, <3>1 DEF NothingUnder, NothingAppears
  <2>3. QED
    BY <2>1, <2>2
<1>5. ASSUME poller[p] = "parked", NEW t \in Tasks, enq'[t] = "done", Visible(t)'
      PROVE  \A i \in 1..Len(Scan[p]) : Scan[p][i] # KeyOf[t]
  BY <1>5 DEF PollerOk, NothingAppears, Announced
<1>6. QED
  BY <1>2, <1>3, <1>4, <1>5 DEF PollerOk

\* Nothing appears when keys only go and deques only shrink.
LEMMA ShrinkingHides ==
  ASSUME TypeOK, UNCHANGED enq,
         \A d \in Tasks : deque'[d] \subseteq deque[d],
         \A k \in Keys : index'[k] = index[k] \/ index'[k] = None
  PROVE  NothingAppears
  BY QueueAssumption DEF NothingAppears, Announced, Visible, TypeOK, Deques

LEMMA RemoveOnlyHides ==
  ASSUME TypeOK, NEW k \in Keys, RemoveKeyIfEmpty(k)
  PROVE  \A l \in Keys : index'[l] = index[l] \/ index'[l] = None
  BY DEF RemoveKeyIfEmpty, TypeOK

\* The enqueuing threads.
LEMMA WakeupEnqueue ==
  ASSUME Shape, Wakeup, NEW t \in Tasks, Enqueue(t) \/ BecomesOverdue(t)
  PROVE  Wakeup'
<1> SUFFICES ASSUME NEW p \in Pollers
             PROVE  PollerOk(p)'
  BY DEF Wakeup
<1> USE QueueAssumption DEF enqVars, pollVars, overVars, outVars
<1>1. PollerOk(p) /\ t # p
  BY DEF Wakeup
<1>2. CASE FetchDeque(t) \/ BecomesOverdue(t)
  <2>1. NothingAppears
    BY <1>2 DEF NothingAppears, Announced, Visible, FetchDeque, BecomesOverdue,
                Shape, TypeOK
  <2>2. /\ UNCHANGED <<generation, poller, seen, attempt, pos, popped, index>>
        /\ arc'[p] = arc[p]
        /\ \A u \in Tasks : enq'[u] = "done" <=> enq[u] = "done"
    BY <1>1, <1>2 DEF FetchDeque, BecomesOverdue, Shape, TypeOK
  <2>3. QED
    BY <1>1, <2>1, <2>2, PollerFrame
<1>3. CASE CreateDeque(t)
  <2>1. deque[t] = {}
    BY <1>3 DEF CreateDeque, Shape, IndexOk, Allocated, TypeOK, Deques
  <2>2. \A k \in Keys : \/ index'[k] = index[k]
                        \/ index[k] = None /\ index'[k] = t
    BY <1>3 DEF CreateDeque, Shape, TypeOK
  <2>3. \A u \in Tasks : Announced(u)' => Announced(u)
    BY <1>3 DEF CreateDeque, Announced, Shape, TypeOK
  <2>4. \A u \in Tasks : Visible(u)' => Visible(u)
    BY <1>3, <2>1, <2>2 DEF CreateDeque, Visible
  <2>5. NothingAppears
    BY <2>3, <2>4 DEF NothingAppears
  <2>6. /\ UNCHANGED <<generation, poller, seen, attempt, pos, popped>>
        /\ \A u \in Tasks : enq'[u] = "done" <=> enq[u] = "done"
    BY <1>3 DEF CreateDeque, Shape, TypeOK
  <2>7. arc'[p] = arc[p]
    BY <1>1, <1>3 DEF CreateDeque, Shape, TypeOK
  <2>8. poller[p] = "lock" => arc[p] # None /\ CurrentKey(p) \in Keys
    BY DEF Shape, ArcsOk, TypeOK, Deques, CurrentKey
  <2>9. QED
    BY <1>1, <2>2, <2>5, <2>6, <2>7, <2>8, PollerFrame
<1>4. CASE PushBack(t)
  <2>1. /\ enq[t] = "push" /\ enq' = [enq EXCEPT ![t] = "bump"]
        /\ arc' = [arc EXCEPT ![t] = None]
        /\ deque' = [deque EXCEPT ![arc[t]] = @ \cup {t}]
        /\ UNCHANGED <<index, generation, poller, seen, attempt, pos, popped>>
    BY <1>4 DEF PushBack
  <2>2. ~ Announced(t)' /\ \A u \in Tasks \ {t} : Announced(u)' <=> Announced(u)
    BY <2>1 DEF Announced, Shape, TypeOK
  <2>3. \A u \in Tasks \ {t} : Visible(u)' <=> Visible(u)
    BY <2>1 DEF Visible, Shape, TypeOK, Deques
  <2>4. NothingAppears
    BY <2>2, <2>3 DEF NothingAppears
  <2>5. /\ arc'[p] = arc[p]
        /\ \A u \in Tasks : enq'[u] = "done" <=> enq[u] = "done"
    BY <1>1, <2>1 DEF Shape, TypeOK
  <2>6. QED
    BY <1>1, <2>1, <2>4, <2>5, PollerFrame
<1>5. CASE BumpGeneration(t)
  <2>1. /\ generation' = generation + 1
        /\ UNCHANGED <<index, deque, poller, seen, attempt, pos, popped>>
        /\ \A u \in Tasks : enq'[u] = "done" <=> enq[u] = "done"
    BY <1>5 DEF BumpGeneration, Shape, TypeOK
  <2>2. seen'[p] < generation'
    BY <1>1, <2>1 DEF PollerOk, Shape, TypeOK
  <2>3. ~ Current(p)' /\ seen'[p] <= generation'
    BY <2>2, <2>1 DEF Current, Shape, TypeOK
  <2>4. QED
    BY <1>1, <2>1, <2>3 DEF PollerOk, Visible
<1>6. CASE NotifyAll(t)
  <2>1. /\ UNCHANGED <<index, deque, generation, arc, seen, attempt, pos, popped>>
        /\ poller'[p] = IF poller[p] = "parked" THEN "wait" ELSE poller[p]
        /\ \A u \in Tasks : Announced(u)' <=> Announced(u)
    BY <1>6 DEF NotifyAll, Announced, Shape, TypeOK
  <2>2. /\ Scanned(p)' = Scanned(p)
        /\ Current(p)' <=> Current(p)
        /\ CurrentKey(p)' = CurrentKey(p)
    BY <2>1 DEF Scanned, Current, CurrentKey
  <2>3. \A k : NothingUnder(k)' <=> NothingUnder(k)
    BY <2>1 DEF NothingUnder, Visible
  <2>4. Current(p)' => \A i \in Scanned(p)' : NothingUnder(Scan[p][i])'
    BY <1>1, <2>2, <2>3 DEF PollerOk
  <2>5. Current(p)' /\ poller'[p] = "lock" =>
           index'[CurrentKey(p)'] = arc'[p] \/ NothingUnder(CurrentKey(p))'
    BY <1>1, <2>1, <2>2 DEF PollerOk, NothingUnder, Visible
  <2>6. QED
    BY <1>1, <2>1, <2>4, <2>5 DEF PollerOk
<1>7. QED
  BY <1>2, <1>3, <1>4, <1>5, <1>6 DEF Enqueue

\* The overseer.
LEMMA WakeupOverseer ==
  ASSUME Shape, Wakeup, Overseer
  PROVE  Wakeup'
<1> SUFFICES ASSUME NEW p \in Pollers
             PROVE  PollerOk(p)'
  BY DEF Wakeup
<1>1. PollerOk(p)
  BY DEF Wakeup
<1>2. /\ UNCHANGED <<generation, enq, arc, poller, seen, attempt, pos, popped>>
      /\ \A d \in Tasks : deque'[d] \subseteq deque[d]
  <2>1. CASE OverseerExpire
    <3>1. deque \in [Tasks -> SUBSET Tasks] /\ todo \subseteq Keys \X Tasks
      BY DEF Shape, TypeOK, Deques
    <3>2. PICK e \in todo : deque' = [deque EXCEPT ![e[2]] = @ \ ExpiredTasks(e[2])]
      BY <2>1 DEF OverseerExpire
    <3>3. \A d \in Tasks : deque'[d] \subseteq deque[d]
      BY <3>1, <3>2
    <3>4. QED
      BY <2>1, <3>3 DEF OverseerExpire, enqVars, pollVars
  <2>2. CASE OverseerSnapshot \/ OverseerRemove \/ OverseerAnswer
    BY <2>2 DEF OverseerSnapshot, OverseerRemove, OverseerAnswer, enqVars, pollVars
  <2>3. QED
    BY <2>1, <2>2 DEF Overseer
<1>3. \A k \in Keys : index'[k] = index[k] \/ index'[k] = None
  <2>1. CASE OverseerRemove
    BY <2>1, RemoveOnlyHides DEF OverseerRemove, Shape, TypeOK
  <2>2. CASE OverseerSnapshot \/ OverseerExpire \/ OverseerAnswer
    BY <2>2 DEF OverseerSnapshot, OverseerExpire, OverseerAnswer
  <2>3. QED
    BY <2>1, <2>2 DEF Overseer
<1>4. NothingAppears
  BY <1>2, <1>3, ShrinkingHides DEF Shape
<1>5. CurrentKey(p) \in Keys
  BY QueueAssumption DEF CurrentKey, Shape, TypeOK
<1>6. QED
  BY <1>1, <1>2, <1>3, <1>4, <1>5, PollerFrame

\* The poller's own scan moving on: what it has looked at grows by a key with
\* nothing under it.
LEMMA NextKeyOk ==
  ASSUME Shape, NEW p \in Pollers, PollerOk(p), NextKey(p), NothingAppears,
         UNCHANGED <<generation, popped>>, popped[p] = None,
         poller[p] \in {"fetch", "lock", "remove"},
         NEW k, k = CurrentKey(p), Current(p) => NothingUnder(k)'
  PROVE  PollerOk(p)'
<1>1. /\ poller \in [Pollers -> {"idle", "fetch", "lock", "remove", "wait", "parked"}]
      /\ pos \in [Pollers -> Nat] /\ pos[p] \in 1..Len(Scan[p])
      /\ seen \in [Pollers -> Nat] /\ attempt \in [Pollers -> {1, 2}]
      /\ generation \in Nat
  BY DEF Shape, TypeOK
<1>2. ASSUME Current(p), NEW i \in 1..pos[p]
      PROVE  NothingUnder(Scan[p][i])'
  <2>1. CASE i = pos[p]
    BY <1>2, <2>1 DEF NothingUnder, CurrentKey
  <2>2. CASE i # pos[p]
    <3>1. i \in Scanned(p)
      BY <1>1, <1>2, <2>2 DEF Scanned
    <3>2. NothingUnder(Scan[p][i])
      BY <1>2, <3>1 DEF PollerOk
    <3>3. QED
      BY <3>2 DEF NothingUnder, NothingAppears
  <2>3. QED
    BY <2>1, <2>2
<1>3. CASE /\ pos[p] < Len(Scan[p])
           /\ poller' = [poller EXCEPT ![p] = "fetch"]
           /\ pos' = [pos EXCEPT ![p] = @ + 1]
           /\ UNCHANGED <<seen, attempt>>
  <2>1. /\ poller'[p] = "fetch" /\ pos'[p] = pos[p] + 1
        /\ Current(p)' <=> Current(p)
    BY <1>1, <1>3 DEF Current
  <2>2. Scanned(p)' = 1..pos[p]
    BY <1>1, <2>1 DEF Scanned
  <2>3. QED
    BY <1>1, <1>2, <1>3, <2>1, <2>2 DEF PollerOk
<1>4. CASE pos[p] = Len(Scan[p]) /\ attempt[p] = 1 /\ GoTo(p, "wait")
  <2>1. /\ poller'[p] = "wait" /\ pos' = pos /\ attempt' = attempt /\ seen' = seen
        /\ Current(p)' <=> Current(p)
    BY <1>1, <1>4 DEF GoTo, Current
  <2>2. Scanned(p)' = 1..pos[p]
    BY <1>1, <2>1 DEF Scanned
  <2>3. QED
    BY <1>1, <1>2, <1>4, <2>1, <2>2 DEF PollerOk
<1>5. CASE Return(p)
  <2>1. /\ poller'[p] = "idle" /\ pos'[p] = 1 /\ attempt'[p] = 1 /\ seen'[p] = 0
    BY <1>1, <1>5 DEF Return
  <2>2. Scanned(p)' = {}
    BY <2>1 DEF Scanned
  <2>3. QED
    BY <1>1, <2>1, <2>2 DEF PollerOk
<1>6. QED
  BY <1>3, <1>4, <1>5 DEF NextKey

\* A poller that returns, or moves with a task in hand or into its second
\* attempt, has nothing to keep track of.
LEMMA ReturnOk ==
  ASSUME Shape, NEW p \in Pollers, Return(p), UNCHANGED generation,
         popped'[p] = None
  PROVE  PollerOk(p)'
<1>1. /\ poller'[p] = "idle" /\ pos'[p] = 1 /\ attempt'[p] = 1 /\ seen'[p] = 0
      /\ generation \in Nat
  BY DEF Return, Shape, TypeOK
<1>2. Scanned(p)' = {}
  BY <1>1 DEF Scanned
<1>3. QED
  BY <1>1, <1>2 DEF PollerOk

LEMMA RescanOk ==
  ASSUME Shape, NEW p \in Pollers, PollerOk(p), Rescan(p),
         poller[p] \in {"wait", "parked"}, UNCHANGED <<generation, popped>>
  PROVE  PollerOk(p)'
<1>1. /\ poller'[p] = "fetch" /\ attempt'[p] = 2 /\ seen'[p] = 0
      /\ generation' \in Nat /\ popped[p] = None
  BY DEF Rescan, Shape, TypeOK, PollerOk
<1>2. QED
  BY <1>1 DEF PollerOk, Current

\* The poller that takes the step.
LEMMA WakeupOwnStep ==
  ASSUME Shape, Wakeup, NEW p \in Pollers, NextForWorker(p), NothingAppears
  PROVE  PollerOk(p)'
<1> USE DEF enqVars, pollVars, overVars, outVars
<1>1. /\ PollerOk(p)
      /\ poller \in [Pollers -> {"idle", "fetch", "lock", "remove", "wait", "parked"}]
      /\ pos \in [Pollers -> Nat] /\ pos[p] \in 1..Len(Scan[p])
      /\ seen \in [Pollers -> Nat] /\ attempt \in [Pollers -> {1, 2}]
      /\ popped \in [Pollers -> Tasks \cup {None}]
      /\ generation \in Nat /\ generation' = generation
  BY DEF Wakeup, Shape, TypeOK, NextForWorker, IdleMark, FetchKey, LockAndPop,
         RemoveKey, WaitForWork, WaitTimesOut
<1>2. CurrentKey(p) \in Keys
  BY QueueAssumption, <1>1 DEF CurrentKey
<1>3. CASE IdleMark(p)
  <2>1. /\ poller'[p] = "fetch" /\ pos'[p] = 1 /\ seen'[p] = generation
        /\ popped'[p] = None
    BY <1>1, <1>3 DEF IdleMark, PollerOk
  <2>2. Scanned(p)' = {}
    BY <2>1 DEF Scanned
  <2>3. QED
    BY <1>1, <2>1, <2>2 DEF PollerOk
<1>4. CASE FetchKey(p)
  <2>1. popped' = popped /\ popped[p] = None /\ index' = index /\ poller[p] = "fetch"
    BY <1>1, <1>4 DEF FetchKey, PollerOk
  <2>2. CASE index[CurrentKey(p)] = None
    <3>1. PICK k : k = CurrentKey(p)
      OBVIOUS
    <3>2. NothingUnder(k)'
      BY <2>1, <2>2, <3>1 DEF NothingUnder, Visible
    <3>3. QED
      BY <1>1, <1>4, <2>1, <2>2, <3>1, <3>2, NextKeyOk DEF FetchKey
  <2>3. CASE index[CurrentKey(p)] # None
    <3>1. /\ poller'[p] = "lock" /\ UNCHANGED <<pos, attempt, seen>>
          /\ arc'[p] = index[CurrentKey(p)]
      BY <1>1, <1>4, <2>3 DEF FetchKey, GoTo, Shape, TypeOK
    <3>2. Scanned(p)' = Scanned(p) /\ (Current(p)' <=> Current(p))
          /\ CurrentKey(p)' = CurrentKey(p)
      BY <1>1, <2>1, <3>1 DEF Scanned, Current, CurrentKey
    <3>3. \A k : NothingUnder(k) => NothingUnder(k)'
      BY DEF NothingUnder, NothingAppears
    <3>4. Current(p)' => \A i \in Scanned(p)' : NothingUnder(Scan[p][i])'
      BY <1>1, <3>2, <3>3 DEF PollerOk
    <3>5. index'[CurrentKey(p)'] = arc'[p]
      BY <2>1, <3>1, <3>2
    <3>6. QED
      BY <1>1, <2>1, <3>1, <3>4, <3>5 DEF PollerOk
  <2>4. QED
    BY <2>2, <2>3
<1>5. CASE LockAndPop(p)
  <2>1. /\ index' = index /\ poller[p] = "lock" /\ popped[p] = None
        /\ arc[p] \in Tasks
        /\ Current(p) => index[CurrentKey(p)] = arc[p] \/ NothingUnder(CurrentKey(p))
    BY <1>1, <1>5 DEF LockAndPop, PollerOk, Shape, ArcsOk, Deques
  <2>2. CASE PopsNothing(p)
    <3>1. deque'[arc[p]] = {} /\ popped' = popped
      BY <2>1, <2>2 DEF PopsNothing, Shape, TypeOK, Deques
    <3>2. PICK k : k = CurrentKey(p)
      OBVIOUS
    <3>3. Current(p) => NothingUnder(k)'
      <4>1. CASE index[k] = arc[p]
        BY <2>1, <3>1, <4>1 DEF NothingUnder, Visible
      <4>2. ASSUME NothingUnder(k)
            PROVE  NothingUnder(k)'
        BY <4>2 DEF NothingUnder, NothingAppears
      <4>3. QED
        BY <2>1, <3>2, <4>1, <4>2
    <3>4. CASE NextKey(p)
      BY <1>1, <2>1, <3>1, <3>2, <3>3, <3>4, NextKeyOk
    <3>5. CASE GoTo(p, "remove")
      <4>1. poller'[p] = "remove" /\ UNCHANGED <<pos, attempt, seen>>
        BY <1>1, <3>5 DEF GoTo
      <4>2. Scanned(p)' = 1..pos[p] /\ (Current(p)' <=> Current(p))
        BY <1>1, <3>1, <4>1 DEF Scanned, Current
      <4>3. ASSUME Current(p), NEW i \in 1..pos[p]
            PROVE  NothingUnder(Scan[p][i])'
        <5>1. CASE i = pos[p]
          BY <3>2, <3>3, <4>3, <5>1 DEF NothingUnder, CurrentKey
        <5>2. CASE i # pos[p]
          <6>1. i \in Scanned(p)
            BY <1>1, <2>1, <4>3, <5>2 DEF Scanned
          <6>2. NothingUnder(Scan[p][i])
            BY <1>1, <4>3, <6>1 DEF PollerOk
          <6>3. QED
            BY <6>2 DEF NothingUnder, NothingAppears
        <5>3. QED
          BY <5>1, <5>2
      <4>4. QED
        BY <1>1, <4>1, <4>2, <4>3 DEF PollerOk
    <3>6. NextKey(p) \/ GoTo(p, "remove")
      <4>1. \A t : ~ IsFront(t, {})
        BY DEF IsFront
      <4>2. QED
        BY <1>5, <2>2, <4>1 DEF LockAndPop, PopsNothing, Kept
    <3>7. QED
      BY <3>4, <3>5, <3>6
  <2>3. ASSUME NEW t \in Kept(arc[p]), PopsFront(p, t)
        PROVE  PollerOk(p)'
    <3>1. t \in Tasks /\ t # None
      BY <2>1, QueueAssumption DEF Kept, Shape, TypeOK, Deques
    <3>2. CASE Kept(arc[p]) = {t}
      <4>1. popped'[p] = t
        BY <1>1, <2>3, <3>2 DEF PopsFront
      <4>2. GoTo(p, "remove")
        BY <1>5, <2>3, <3>1, <3>2 DEF LockAndPop, Kept, IsFront
      <4>3. poller'[p] = "remove" /\ UNCHANGED <<pos, attempt, seen>>
        BY <1>1, <4>2 DEF GoTo
      <4>4. ~ Current(p)'
        BY <3>1, <4>1 DEF Current
      <4>5. QED
        BY <1>1, <4>3, <4>4 DEF PollerOk
    <3>3. CASE Kept(arc[p]) # {t}
      <4>1. popped' = popped
        BY <2>3, <3>3 DEF PopsFront
      <4>2. Return(p)
        <5>1. \E u \in Kept(arc[p]) :
                /\ taken' = [taken EXCEPT ![p] = @ \cup {u}]
                /\ IF Kept(arc[p]) = {u}
                     THEN GoTo(p, "remove") /\ popped' = [popped EXCEPT ![p] = u]
                     ELSE Return(p) /\ UNCHANGED popped
          BY <1>5, <2>3 DEF LockAndPop, Kept
        <5>2. PICK u \in Kept(arc[p]) :
                IF Kept(arc[p]) = {u}
                  THEN popped' = [popped EXCEPT ![p] = u]
                  ELSE Return(p)
          BY <5>1
        <5>3. Kept(arc[p]) # {u}
          <6>1. u \in Tasks /\ u # None
            BY <2>1, QueueAssumption DEF Kept, Shape, TypeOK, Deques
          <6>2. QED
            BY <1>1, <2>1, <4>1, <5>2, <6>1
        <5>4. QED
          BY <5>2, <5>3
      <4>3. QED
        BY <1>1, <2>1, <4>1, <4>2, ReturnOk
    <3>4. QED
      BY <3>2, <3>3
  <2>4. QED
    BY <1>5, <2>2, <2>3, PopCases
<1>6. CASE RemoveKey(p)
  <2>1. poller[p] = "remove" /\ popped' = [popped EXCEPT ![p] = None]
    BY <1>6 DEF RemoveKey
  <2>2. CASE popped[p] = None
    <3>1. NextKey(p) /\ popped' = popped
      BY <1>1, <1>6, <2>1, <2>2 DEF RemoveKey
    <3>2. PICK k : k = CurrentKey(p)
      OBVIOUS
    <3>3. ASSUME Current(p)
          PROVE  NothingUnder(k)'
      <4>1. pos[p] \in Scanned(p)
        BY <1>1, <2>1 DEF Scanned
      <4>2. NothingUnder(Scan[p][pos[p]])
        BY <1>1, <3>3, <4>1 DEF PollerOk
      <4>3. QED
        BY <3>2, <4>2 DEF NothingUnder, NothingAppears, CurrentKey
    <3>4. QED
      BY <1>1, <2>1, <2>2, <3>1, <3>2, <3>3, NextKeyOk
  <2>3. CASE popped[p] # None
    BY <1>1, <1>6, <2>1, <2>3, ReturnOk DEF RemoveKey
  <2>4. QED
    BY <2>2, <2>3
<1>7. CASE WaitForWork(p)
  <2>1. /\ poller[p] = "wait" /\ attempt[p] = 1 /\ pos[p] = Len(Scan[p])
        /\ popped[p] = None
        /\ UNCHANGED <<index, deque, generation, popped, enq>>
    BY <1>1, <1>7 DEF WaitForWork, PollerOk
  <2>2. CASE generation = seen[p]
    <3>1. poller'[p] = "parked" /\ UNCHANGED <<seen, attempt, pos>>
      BY <1>1, <1>7, <2>2 DEF WaitForWork, GoTo
    <3>2. Current(p) /\ Scanned(p) = 1..Len(Scan[p])
      BY <2>1, <2>2 DEF Current, Scanned
    <3>3. \A i \in 1..Len(Scan[p]) : NothingUnder(Scan[p][i])
      BY <1>1, <3>2 DEF PollerOk
    <3>4. \A i \in 1..Len(Scan[p]) : NothingUnder(Scan[p][i])'
      BY <3>3 DEF NothingUnder, NothingAppears
    <3>5. Scanned(p)' = 1..Len(Scan[p])
      BY <2>1, <3>1 DEF Scanned
    <3>6. \A t \in Tasks : enq'[t] = "done" /\ Visible(t)' =>
             \A i \in 1..Len(Scan[p]) : Scan[p][i] # KeyOf[t]
      BY <3>4 DEF NothingUnder, Announced
    <3>7. QED
      BY <1>1, <2>1, <3>1, <3>4, <3>5, <3>6 DEF PollerOk
  <2>3. CASE generation # seen[p]
    BY <1>1, <1>7, <2>1, <2>3, RescanOk DEF WaitForWork
  <2>4. QED
    BY <2>2, <2>3
<1>8. CASE WaitTimesOut(p)
  BY <1>1, <1>8, RescanOk DEF WaitTimesOut
<1>9. QED
  BY <1>3, <1>4, <1>5, <1>6, <1>7, <1>8 DEF NextForWorker

\* What a poller does to the index and to the deques only hides tasks.
LEMMA PollerHides ==
  ASSUME Shape, NEW p \in Pollers, NextForWorker(p)
  PROVE  /\ NothingAppears
         /\ \A k \in Keys : index'[k] = index[k] \/ index'[k] = None
         /\ UNCHANGED <<enq, generation>>
<1> USE DEF enqVars, pollVars, overVars, outVars
<1>1. UNCHANGED <<enq, generation>>
  BY DEF NextForWorker, IdleMark, FetchKey, LockAndPop, RemoveKey, WaitForWork,
         WaitTimesOut
<1>2. \A d \in Tasks : deque'[d] \subseteq deque[d]
  <2>1. CASE LockAndPop(p)
    BY <2>1, DequeOnlyShrinks DEF Deques
  <2>2. CASE ~ LockAndPop(p)
    BY <2>2 DEF NextForWorker, IdleMark, FetchKey, RemoveKey, WaitForWork,
                WaitTimesOut
  <2>3. QED
    BY <2>1, <2>2
<1>3. \A k \in Keys : index'[k] = index[k] \/ index'[k] = None
  <2>1. CASE RemoveKey(p)
    <3>1. CurrentKey(p) \in Keys
      BY QueueAssumption DEF CurrentKey, Shape, TypeOK
    <3>2. QED
      BY <2>1, <3>1, RemoveOnlyHides DEF RemoveKey, Shape
  <2>2. CASE ~ RemoveKey(p)
    BY <2>2 DEF NextForWorker, IdleMark, FetchKey, LockAndPop, WaitForWork,
                WaitTimesOut
  <2>3. QED
    BY <2>1, <2>2
<1>4. QED
  BY <1>1, <1>2, <1>3, ShrinkingHides DEF Shape

\* A poller changes only its own locals.
LEMMA OwnLocals ==
  ASSUME Shape, NEW p \in Pollers, NEW q \in Pollers, q # p, NextForWorker(p)
  PROVE  /\ poller'[q] = poller[q] /\ seen'[q] = seen[q]
         /\ attempt'[q] = attempt[q] /\ pos'[q] = pos[q]
         /\ popped'[q] = popped[q] /\ arc'[q] = arc[q]
<1> USE DEF enqVars, pollVars, overVars, outVars
<1>1. /\ poller \in [Pollers -> {"idle", "fetch", "lock", "remove", "wait", "parked"}]
      /\ seen \in [Pollers -> Nat] /\ attempt \in [Pollers -> {1, 2}]
      /\ pos \in [Pollers -> Nat] /\ popped \in [Pollers -> Tasks \cup {None}]
      /\ arc \in [Tasks \cup Pollers -> Deques \cup {None}]
  BY DEF Shape, TypeOK
<1>2. NextKey(p) => /\ poller'[q] = poller[q] /\ seen'[q] = seen[q]
                    /\ attempt'[q] = attempt[q] /\ pos'[q] = pos[q]
  BY <1>1 DEF NextKey, GoTo, Return
<1>3. Return(p) => /\ poller'[q] = poller[q] /\ seen'[q] = seen[q]
                   /\ attempt'[q] = attempt[q] /\ pos'[q] = pos[q]
  BY <1>1 DEF Return
<1>4. CASE IdleMark(p) \/ WaitForWork(p) \/ WaitTimesOut(p)
  BY <1>1, <1>4 DEF IdleMark, WaitForWork, WaitTimesOut, Rescan, GoTo
<1>5. CASE FetchKey(p)
  BY <1>1, <1>2, <1>5 DEF FetchKey, GoTo
<1>6. CASE RemoveKey(p)
  BY <1>1, <1>2, <1>3, <1>6 DEF RemoveKey
<1>7. CASE LockAndPop(p)
  <2>1. arc'[q] = arc[q]
    BY <1>1, <1>7 DEF LockAndPop
  <2>2. popped'[q] = popped[q]
    <3>1. CASE PopsNothing(p)
      BY <3>1 DEF PopsNothing
    <3>2. ASSUME NEW t \in Kept(arc[p]), PopsFront(p, t)
          PROVE  popped'[q] = popped[q]
      BY <1>1, <3>2 DEF PopsFront
    <3>3. QED
      BY <1>7, <3>1, <3>2, PopCases
  <2>3. /\ poller'[q] = poller[q] /\ seen'[q] = seen[q]
        /\ attempt'[q] = attempt[q] /\ pos'[q] = pos[q]
    <3>1. GoTo(p, "remove") \/ NextKey(p) \/ Return(p)
      BY <1>7 DEF LockAndPop
    <3>2. QED
      BY <1>1, <1>2, <1>3, <3>1 DEF GoTo
  <2>4. QED
    BY <2>1, <2>2, <2>3
<1>8. QED
  BY <1>4, <1>5, <1>6, <1>7 DEF NextForWorker

LEMMA WakeupPoller ==
  ASSUME Shape, Wakeup, NEW p \in Pollers, NextForWorker(p)
  PROVE  Wakeup'
<1> SUFFICES ASSUME NEW q \in Pollers
             PROVE  PollerOk(q)'
  BY DEF Wakeup
<1>1. /\ NothingAppears
      /\ \A k \in Keys : index'[k] = index[k] \/ index'[k] = None
      /\ UNCHANGED <<enq, generation>>
  BY PollerHides
<1>2. CASE q = p
  BY <1>1, <1>2, WakeupOwnStep
<1>3. CASE q # p
  <2>1. PollerOk(q) /\ CurrentKey(q) \in Keys
    BY QueueAssumption DEF Wakeup, CurrentKey, Shape, TypeOK
  <2>2. QED
    BY <1>1, <1>3, <2>1, OwnLocals, PollerFrame
<1>4. QED
  BY <1>2, <1>3

LEMMA WakeupStep == Shape /\ Wakeup /\ [Next]_vars => Wakeup'
<1> SUFFICES ASSUME Shape, Wakeup, [Next]_vars
             PROVE  Wakeup'
  OBVIOUS
<1>1. ASSUME NEW t \in Tasks, Enqueue(t) \/ BecomesOverdue(t)
      PROVE  Wakeup'
  BY <1>1, WakeupEnqueue
<1>2. ASSUME NEW p \in Pollers, NextForWorker(p)
      PROVE  Wakeup'
  BY <1>2, WakeupPoller
<1>3. CASE Overseer
  BY <1>3, WakeupOverseer
<1>4. CASE UNCHANGED vars
  BY <1>4 DEF vars, enqVars, pollVars, overVars, outVars, Wakeup, PollerOk,
              Current, Scanned, CurrentKey, NothingUnder, Announced, Visible
<1>5. QED
  BY <1>1, <1>2, <1>3, <1>4 DEF Next

LEMMA InitWakeup == Init => Wakeup
  BY ScanLength DEF Init, Wakeup, PollerOk, Current, Scanned

\* No poller ever sleeps while a request it could serve, whose enqueue has
\* returned, is visible: idle_mark before the scan and the generation check
\* after it leave no window for a lost wakeup.
THEOREM NoLostWakeup == Spec => []NoSleepOnWork
<1>1. Wakeup => NoSleepOnWork
  BY DEF Wakeup, PollerOk, NoSleepOnWork
<1>2. QED
  BY <1>1, InitWakeup, WakeupStep, ShapeInvariant, PTL DEF Spec

-----------------------------------------------------------------------------
(* Removing a key never hides work *)

\* A key keeps its deque, or loses an empty one.
LEMMA OnlyEmptyUnlinked ==
  ASSUME Shape, [Next]_vars, NEW k \in Keys, index[k] # None
  PROVE  index'[k] = index[k] \/ deque'[index[k]] = {}
<1> USE DEF enqVars, pollVars, overVars, outVars
<1>1. ASSUME NEW l \in Keys, RemoveKeyIfEmpty(l), UNCHANGED deque
      PROVE  index'[k] = index[k] \/ deque'[index[k]] = {}
  BY <1>1 DEF RemoveKeyIfEmpty, Shape, TypeOK
<1>2. ASSUME NEW t \in Tasks, Enqueue(t) \/ BecomesOverdue(t)
      PROVE  index'[k] = index[k]
  BY <1>2 DEF Enqueue, FetchDeque, CreateDeque, PushBack, BumpGeneration,
              NotifyAll, BecomesOverdue, Shape, TypeOK
<1>3. ASSUME NEW p \in Pollers, RemoveKey(p)
      PROVE  index'[k] = index[k] \/ deque'[index[k]] = {}
  <2>1. CurrentKey(p) \in Keys
    BY QueueAssumption DEF CurrentKey, Shape, TypeOK
  <2>2. QED
    BY <1>1, <1>3, <2>1 DEF RemoveKey
<1>4. ASSUME NEW p \in Pollers, NextForWorker(p), ~ RemoveKey(p)
      PROVE  index'[k] = index[k]
  BY <1>4 DEF NextForWorker, IdleMark, FetchKey, LockAndPop, WaitForWork,
              WaitTimesOut
<1>5. CASE OverseerRemove
  BY <1>1, <1>5 DEF OverseerRemove, Shape, TypeOK
<1>6. CASE OverseerSnapshot \/ OverseerExpire \/ OverseerAnswer \/ UNCHANGED vars
  BY <1>6 DEF OverseerSnapshot, OverseerExpire, OverseerAnswer, vars
<1>7. QED
  BY <1>2, <1>3, <1>4, <1>5, <1>6 DEF Next, Overseer

\* The recheck under the index's write lock is enough: a visible request
\* stops being visible only by leaving its deque, never because the deque
\* was taken out of the index with the request in it.
THEOREM RemovalHidesNothing == Spec => NoVisibleTaskUnlinked
<1>1. Shape /\ [Next]_vars =>
        [\A t \in Tasks : Visible(t) /\ ~ Visible(t)' =>
           t \notin deque'[index[KeyOf[t]]]]_vars
  <2> SUFFICES ASSUME Shape, [Next]_vars, NEW t \in Tasks,
                      Visible(t), ~ Visible(t)'
               PROVE  t \notin deque'[index[KeyOf[t]]]
    OBVIOUS
  <2>1. KeyOf[t] \in Keys /\ index[KeyOf[t]] # None
    BY QueueAssumption DEF Visible
  <2>2. \/ index'[KeyOf[t]] = index[KeyOf[t]]
        \/ deque'[index[KeyOf[t]]] = {}
    BY <2>1, OnlyEmptyUnlinked
  <2>3. QED
    BY <2>1, <2>2 DEF Visible
<1>2. QED
  BY <1>1, ShapeInvariant, PTL DEF Spec, NoVisibleTaskUnlinked

-----------------------------------------------------------------------------
(* The order of dispatch *)

\* A poller is given a task by its own dequeue, from the front of its deque.
LEMMA TakenByPop ==
  ASSUME Shape, [Next]_vars, NEW p \in Pollers, NEW t \in taken'[p] \ taken[p]
  PROVE  LockAndPop(p) /\ t \in Kept(arc[p]) /\ PopsFront(p, t)
<1> USE DEF enqVars, pollVars, overVars, outVars
<1>1. taken' # taken
  OBVIOUS
<1>2. ASSUME NEW u \in Tasks, Enqueue(u) \/ BecomesOverdue(u) PROVE FALSE
  BY <1>1, <1>2 DEF Enqueue, FetchDeque, CreateDeque, PushBack, BumpGeneration,
                    NotifyAll, BecomesOverdue
<1>3. CASE Overseer \/ UNCHANGED vars
  BY <1>1, <1>3 DEF Overseer, OverseerSnapshot, OverseerExpire, OverseerRemove,
                    OverseerAnswer, vars
<1>4. ASSUME NEW q \in Pollers, NextForWorker(q)
      PROVE  q = p /\ LockAndPop(p) /\ \E u \in Kept(arc[p]) : PopsFront(p, u)
  <2>1. LockAndPop(q)
    BY <1>1, <1>4 DEF NextForWorker, IdleMark, FetchKey, RemoveKey, WaitForWork,
                      WaitTimesOut
  <2>2. PICK u \in Kept(arc[q]) : PopsFront(q, u)
    BY <1>1, <2>1, PopCases DEF PopsNothing
  <2>3. q = p
    BY <2>2 DEF PopsFront, Shape, TypeOK
  <2>4. QED
    BY <2>1, <2>2, <2>3
<1>5. LockAndPop(p) /\ \E u \in Kept(arc[p]) : PopsFront(p, u)
  BY <1>2, <1>3, <1>4 DEF Next
<1>6. PICK u \in Kept(arc[p]) : PopsFront(p, u)
  BY <1>5
<1>7. u = t
  BY <1>6 DEF PopsFront, Shape, TypeOK
<1>8. QED
  BY <1>5, <1>6, <1>7

\* What a task was queued behind was pushed before it, and waits, if it does, in
\* the same deque.
AheadOk ==
  \A t \in Tasks : \A u \in ahead[t] :
    /\ Pushed(u)
    /\ \A d, e \in Deques : t \in deque[d] /\ u \in deque[e] => e = d

LEMMA AheadStep ==
  Shape /\ ExactlyOnePlace /\ AheadOk /\ [Next]_vars => AheadOk'
<1> SUFFICES ASSUME Shape, ExactlyOnePlace, AheadOk, [Next]_vars
             PROVE  AheadOk'
  OBVIOUS
<1> USE DEF enqVars, pollVars, overVars, outVars
<1>0. /\ deque \in [Tasks -> SUBSET Tasks] /\ ahead \in [Tasks -> SUBSET Tasks]
      /\ enq \in [Tasks -> {"new", "create", "push", "bump", "notify", "done"}]
  BY DEF Shape, TypeOK, Deques
<1>1. ASSUME ahead' = ahead, \A u \in Tasks : Pushed(u) => Pushed(u)',
             \A d \in Tasks : deque'[d] \subseteq deque[d]
      PROVE  AheadOk'
  BY <1>0, <1>1 DEF AheadOk, Deques
<1>2. ASSUME NEW t \in Tasks, PushBack(t)
      PROVE  AheadOk'
  <2>1. /\ arc[t] \in Tasks
        /\ deque' = [deque EXCEPT ![arc[t]] = @ \cup {t}]
        /\ enq[t] = "push" /\ enq' = [enq EXCEPT ![t] = "bump"]
        /\ ahead' = [ahead EXCEPT ![t] = deque[arc[t]]]
    BY <1>2 DEF PushBack, Shape, ArcsOk, Deques
  <2>2. ~ Pushed(t) /\ \A d \in Tasks : t \notin deque[d]
    BY <2>1 DEF Pushed, ExactlyOnePlace, OnePlace, Waiting, Deques
  <2>3. \A u \in Tasks : Pushed(u) => Pushed(u)' /\ u # t
    BY <1>0, <2>1, <2>2 DEF Pushed
  <2>4. ASSUME NEW s \in Tasks, NEW u \in ahead'[s]
        PROVE  /\ Pushed(u)'
               /\ \A d, e \in Tasks : s \in deque'[d] /\ u \in deque'[e] => e = d
    <3>1. CASE s = t
      <4>1. u \in deque[arc[t]] /\ u \in Tasks
        BY <1>0, <2>1, <2>4, <3>1
      <4>2. Pushed(u) /\ \A e \in Tasks : u \in deque[e] => e = arc[t]
        BY <2>1, <4>1 DEF ExactlyOnePlace, OnePlace, Waiting, Deques
      <4>3. \A e \in Tasks : u \in deque'[e] => e = arc[t]
        BY <1>0, <2>1, <2>3, <4>1, <4>2
      <4>4. \A d \in Tasks : t \in deque'[d] => d = arc[t]
        BY <1>0, <2>1, <2>2
      <4>5. QED
        BY <2>3, <3>1, <4>1, <4>2, <4>3, <4>4
    <3>2. CASE s # t
      <4>1. u \in ahead[s] /\ u \in Tasks
        BY <1>0, <2>1, <2>4, <3>2
      <4>2. Pushed(u) /\ \A d, e \in Tasks : s \in deque[d] /\ u \in deque[e] => e = d
        BY <4>1 DEF AheadOk, Deques
      <4>3. \A d \in Tasks : (s \in deque'[d] <=> s \in deque[d]) /\ (u \in deque'[d] <=> u \in deque[d])
        BY <1>0, <2>1, <2>3, <3>2, <4>1, <4>2
      <4>4. QED
        BY <2>3, <4>1, <4>2, <4>3
    <3>3. QED
      BY <3>1, <3>2
  <2>5. QED
    BY <2>4 DEF AheadOk, Deques
<1>3. ASSUME NEW t \in Tasks, \/ FetchDeque(t) \/ CreateDeque(t)
                              \/ BumpGeneration(t) \/ NotifyAll(t) \/ BecomesOverdue(t)
      PROVE  AheadOk'
  <2>1. /\ ahead' = ahead /\ deque' = deque
        /\ \A u \in Tasks : Pushed(u) => Pushed(u)'
    BY <1>0, <1>3 DEF FetchDeque, CreateDeque, BumpGeneration, NotifyAll,
                      BecomesOverdue, Pushed
  <2>2. QED
    BY <1>1, <2>1
<1>4. ASSUME NEW p \in Pollers, NextForWorker(p)
      PROVE  AheadOk'
  <2>1. ahead' = ahead /\ enq' = enq
    BY <1>4 DEF NextForWorker, IdleMark, FetchKey, LockAndPop, RemoveKey,
                WaitForWork, WaitTimesOut
  <2>2. CASE LockAndPop(p)
    BY <1>1, <2>1, <2>2, DequeOnlyShrinks DEF Pushed, Deques
  <2>3. CASE ~ LockAndPop(p)
    <3>1. deque' = deque
      BY <1>4, <2>3 DEF NextForWorker, IdleMark, FetchKey, RemoveKey, WaitForWork,
                        WaitTimesOut
    <3>2. QED
      BY <1>1, <2>1, <3>1 DEF Pushed
  <2>4. QED
    BY <2>2, <2>3
<1>5. CASE Overseer \/ UNCHANGED vars
  <2>1. ahead' = ahead /\ enq' = enq /\ \A d \in Tasks : deque'[d] \subseteq deque[d]
    BY <1>0, <1>5 DEF Overseer, OverseerSnapshot, OverseerExpire, OverseerRemove,
                      OverseerAnswer, vars
  <2>2. QED
    BY <1>1, <2>1 DEF Pushed
<1>6. QED
  BY <1>2, <1>3, <1>4, <1>5 DEF Next, Enqueue

\* A request is dispatched after all those it was queued behind have left their
\* deque, whatever other pollers pop and the overseer expires meanwhile: each deque
\* is first in, first out.
THEOREM FirstComeFirst == Spec => FirstComeFirstServed
<1>1. Shape /\ AheadOk /\ [Next]_vars =>
        \A p \in Pollers : \A t \in taken'[p] \ taken[p] :
          \A u \in ahead[t], d \in Deques : u \notin deque'[d]
  <2> SUFFICES ASSUME Shape, AheadOk, [Next]_vars,
                      NEW p \in Pollers, NEW t \in taken'[p] \ taken[p],
                      NEW u \in ahead[t], NEW d \in Deques
               PROVE  u \notin deque'[d]
    OBVIOUS
  <2>1. LockAndPop(p) /\ t \in Kept(arc[p]) /\ PopsFront(p, t)
    BY TakenByPop
  <2>2. arc[p] \in Tasks /\ t \in deque[arc[p]] /\ t \in Tasks
    BY <2>1 DEF Shape, ArcsOk, LockAndPop, Deques, Kept, TypeOK
  <2>3. u \notin Kept(arc[p])
    BY <2>1 DEF PopsFront, IsFront
  <2>4. deque'[d] \subseteq deque[d] /\ deque'[arc[p]] \subseteq Kept(arc[p])
    BY <2>1, <2>2, DequeOnlyShrinks DEF PopsFront, Shape, TypeOK, Deques
  <2>5. u \in deque[d] => d = arc[p]
    BY <2>2 DEF AheadOk, Deques
  <2>6. QED
    BY <2>3, <2>4, <2>5
<1>2. Init => AheadOk
  BY DEF Init, AheadOk
<1>3. Spec => []ExactlyOnePlace
  BY ServedAtMostOnce
<1>4. QED
  BY <1>1, <1>2, <1>3, AheadStep, ShapeInvariant, PTL DEF Spec, FirstComeFirstServed

\* A worker's own queue comes first: a poller in its first attempt that takes a model's
\* task has found its node queue empty, and nothing was announced there since its mark.
THEOREM OwnWorkComesFirst == Spec => OwnWorkFirst
<1>1. Shape /\ Wakeup /\ [Next]_vars =>
        \A p \in Pollers : \A t \in taken'[p] \ taken[p] :
          KeyOf[t] \notin NodeKeys /\ attempt[p] = 1 /\ seen[p] = generation
            => \A u \in Tasks : Announced(u) /\ Visible(u) => KeyOf[u] # Scan[p][1]
  <2> SUFFICES ASSUME Shape, Wakeup, [Next]_vars,
                      NEW p \in Pollers, NEW t \in taken'[p] \ taken[p],
                      KeyOf[t] \notin NodeKeys, attempt[p] = 1, seen[p] = generation,
                      NEW u \in Tasks, Announced(u) /\ Visible(u)
               PROVE  KeyOf[u] # Scan[p][1]
    OBVIOUS
  <2>1. LockAndPop(p) /\ t \in Kept(arc[p])
    BY TakenByPop
  <2>2. KeyOf[t] = CurrentKey(p) /\ poller[p] = "lock"
    BY <2>1 DEF Shape, ArcsOk, IndexOk, LockAndPop, Kept
  <2>3. pos[p] \in 1..Len(Scan[p]) /\ pos[p] # 1
    BY <2>2, QueueAssumption DEF CurrentKey, Shape, TypeOK
  <2>4. Len(Scan[p]) \in Nat
    BY ScanLength
  <2>5. 1 \in Scanned(p)
    BY <2>2, <2>3, <2>4 DEF Scanned
  <2>6. Current(p)
    BY <2>2 DEF Wakeup, PollerOk, Current
  <2>7. NothingUnder(Scan[p][1])
    BY <2>5, <2>6 DEF Wakeup, PollerOk
  <2>8. QED
    BY <2>7 DEF NothingUnder
<1>2. QED
  BY <1>1, InitWakeup, WakeupStep, ShapeInvariant, PTL DEF Spec, OwnWorkFirst

-----------------------------------------------------------------------------
(* The queue implements its contract *)

\* A task in one place has one contract state, and the place tells which.
LEMMA StateIs ==
  ASSUME NEW t \in Tasks, TypeOK, OnePlace(t)
  PROVE  /\ ~ Pushed(t) => ContractState(t) = "new"
         /\ TakenBy(t) # {} => ContractState(t) = "served"
         /\ t \in hands => ContractState(t) = "expired"
         /\ t \in answered => ContractState(t) = "answered"
         /\ t \in dropped => ContractState(t) = "dropped"
         /\ Waiting(t) /\ Visible(t) => ContractState(t) = "pending"
         /\ Waiting(t) /\ ~ Visible(t) => ContractState(t) = "stranded"
         /\ Visible(t) => Waiting(t)
<1>1. Visible(t) => Waiting(t)
  BY QueueAssumption DEF TypeOK, Visible, Waiting
<1>2. /\ Pushed(t) <=> Waiting(t) \/ TakenBy(t) # {} \/ Finished(t)
      /\ Waiting(t) => TakenBy(t) = {} /\ ~ Finished(t)
      /\ TakenBy(t) # {} => ~ Finished(t)
      /\ t \in hands => t \notin answered /\ t \notin dropped
      /\ t \in answered => t \notin dropped
  BY DEF OnePlace
<1>3. Finished(t) <=> t \in hands \/ t \in answered \/ t \in dropped
  BY DEF Finished
<1>4. QED
  BY <1>1, <1>2, <1>3 DEF ContractState

LEMMA StateIsNext ==
  ASSUME NEW t \in Tasks, TypeOK', OnePlace(t)'
  PROVE  /\ ~ Pushed(t)' => ContractState(t)' = "new"
         /\ TakenBy(t)' # {} => ContractState(t)' = "served"
         /\ t \in hands' => ContractState(t)' = "expired"
         /\ t \in answered' => ContractState(t)' = "answered"
         /\ t \in dropped' => ContractState(t)' = "dropped"
         /\ Waiting(t)' /\ Visible(t)' => ContractState(t)' = "pending"
         /\ Waiting(t)' /\ ~ Visible(t)' => ContractState(t)' = "stranded"
         /\ Visible(t)' => Waiting(t)'
<1>1. Visible(t)' => Waiting(t)'
  BY QueueAssumption DEF TypeOK, Visible, Waiting
<1>2. /\ Pushed(t)' <=> Waiting(t)' \/ TakenBy(t)' # {} \/ Finished(t)'
      /\ Waiting(t)' => TakenBy(t)' = {} /\ ~ Finished(t)'
      /\ TakenBy(t)' # {} => ~ Finished(t)'
      /\ t \in hands' => t \notin answered' /\ t \notin dropped'
      /\ t \in answered' => t \notin dropped'
  BY DEF OnePlace
<1>3. Finished(t)' <=> t \in hands' \/ t \in answered' \/ t \in dropped'
  BY DEF Finished
<1>4. QED
  BY <1>1, <1>2, <1>3 DEF ContractState

LEMMA ContractInit == Init => Contract!Init
<1> SUFFICES ASSUME Init PROVE Contract!Init
  OBVIOUS
<1>1. ASSUME NEW t \in Tasks PROVE ContractState(t) = "new" /\ TakenBy(t) = {}
  <2>1. OnePlace(t) /\ TypeOK
    BY InitPlaces, InitShape DEF ExactlyOnePlace, Shape
  <2>2. ~ Pushed(t)
    BY DEF Init, Pushed
  <2>3. QED
    BY <2>1, <2>2, StateIs DEF Init, TakenBy
<1>2. overdue = {}
  BY DEF Init
<1>3. QED
  BY <1>1, <1>2 DEF Contract!Init

\* A step that moves no task, hides none and shows none.
LEMMA ContractStutters ==
  ASSUME UNCHANGED <<deque, taken, hands, answered, dropped, overdue>>,
         \A t \in Tasks : (Pushed(t)' <=> Pushed(t)) /\ (Visible(t)' <=> Visible(t))
  PROVE  UNCHANGED Contract!vars
<1>1. ASSUME NEW t \in Tasks PROVE ContractState(t)' = ContractState(t)
  BY DEF ContractState, TakenBy
<1>2. ASSUME NEW t \in Tasks PROVE TakenBy(t)' = TakenBy(t)
  BY DEF TakenBy
<1>3. QED
  BY <1>1, <1>2 DEF Contract!vars

LEMMA RemovalStutters ==
  ASSUME Shape, NEW k \in Keys, RemoveKeyIfEmpty(k), UNCHANGED deque, NEW t \in Tasks
  PROVE  Visible(t)' <=> Visible(t)
BY QueueAssumption DEF RemoveKeyIfEmpty, Visible, Shape, TypeOK

LEMMA CreationStutters ==
  ASSUME Shape, NEW u \in Tasks, CreateDeque(u), NEW t \in Tasks
  PROVE  Visible(t)' <=> Visible(t)
<1>1. /\ deque' = deque /\ enq[u] = "create"
      /\ \/ index' = index
         \/ index[KeyOf[u]] = None /\ index' = [index EXCEPT ![KeyOf[u]] = u]
  BY DEF CreateDeque
<1>2. deque[u] = {}
  BY <1>1 DEF Shape, TypeOK, IndexOk, Allocated, Deques
<1>3. QED
  BY <1>1, <1>2, QueueAssumption DEF Visible, Shape, TypeOK

\* A request is accepted when it is pushed.
LEMMA PushAccepts ==
  ASSUME Shape, ExactlyOnePlace, Shape', ExactlyOnePlace', NEW t \in Tasks, PushBack(t)
  PROVE  Contract!Next
<1>1. /\ arc[t] \in Tasks
      /\ deque' = [deque EXCEPT ![arc[t]] = @ \cup {t}]
      /\ enq[t] = "push" /\ enq' = [enq EXCEPT ![t] = "bump"]
      /\ UNCHANGED <<index, overdue, hands, taken, answered, dropped>>
  BY DEF PushBack, Shape, ArcsOk, Deques, overVars, outVars
<1>2. /\ deque \in [Tasks -> SUBSET Tasks]
      /\ enq \in [Tasks -> {"new", "create", "push", "bump", "notify", "done"}]
      /\ index \in [Keys -> Tasks \cup {None}]
  BY DEF Shape, TypeOK, Deques
<1>3. ASSUME NEW u \in Tasks, u # t PROVE ContractState(u)' = ContractState(u)
  <2>1. Pushed(u)' <=> Pushed(u)
    BY <1>1, <1>2, <1>3 DEF Pushed
  <2>2. Visible(u)' <=> Visible(u)
    BY <1>1, <1>2, <1>3, QueueAssumption DEF Visible
  <2>3. QED
    BY <1>1, <2>1, <2>2 DEF ContractState, TakenBy
<1>4. ContractState(t) = "new"
  BY <1>1, StateIs DEF Pushed, Shape, ExactlyOnePlace
<1>5. ContractState(t)' \in {"pending", "stranded"}
  <2>1. Waiting(t)'
    BY <1>1, <1>2 DEF Waiting, Deques
  <2>2. QED
    BY <2>1, StateIsNext DEF Shape, ExactlyOnePlace
<1>6. \A u \in Tasks : TakenBy(u)' = TakenBy(u)
  BY <1>1 DEF TakenBy
<1>7. Contract!Accept(t)
  BY <1>1, <1>3, <1>4, <1>5, <1>6 DEF Contract!Accept
<1>8. QED
  BY <1>7 DEF Contract!Next

LEMMA OverdueIsLive ==
  ASSUME Shape, ExactlyOnePlace, NEW t \in Tasks, BecomesOverdue(t)
  PROVE  Contract!Next
<1>1. /\ Waiting(t) /\ overdue' = overdue \cup {t}
      /\ UNCHANGED <<index, deque, enq, hands, taken, answered, dropped>>
  BY DEF BecomesOverdue, Waiting, enqVars, overVars, outVars
<1>2. ContractState(t) \in {"pending", "stranded"}
  BY <1>1, StateIs DEF Shape, ExactlyOnePlace
<1>3. \A u \in Tasks : ContractState(u)' = ContractState(u) /\ TakenBy(u)' = TakenBy(u)
  BY <1>1 DEF ContractState, Pushed, Visible, TakenBy
<1>4. Contract!BecomeOverdue(t)
  BY <1>1, <1>2, <1>3 DEF Contract!BecomeOverdue, Contract!Live
<1>5. QED
  BY <1>4 DEF Contract!Next

\* One dequeue drops the overdue probes of the deque and serves its front, if what
\* is left has one.
LEMMA PopDequeues ==
  ASSUME Shape, ExactlyOnePlace, Shape', ExactlyOnePlace', NEW p \in Pollers, LockAndPop(p)
  PROVE  Contract!Next
<1> DEFINE d == arc[p]
           gone == ExpiredProbes(d)
<1>1. /\ d \in Tasks /\ poller[p] = "lock"
      /\ KeyOf[d] = CurrentKey(p)
      /\ deque \in [Tasks -> SUBSET Tasks]
      /\ taken \in [Pollers -> SUBSET Tasks]
      /\ dropped' = dropped \cup gone
      /\ UNCHANGED <<index, enq, overdue, hands, answered>>
  BY DEF LockAndPop, Shape, TypeOK, ArcsOk, Deques, enqVars, overVars
<1>2. gone \subseteq deque[d] /\ gone \subseteq Probes \cap overdue
  BY DEF ExpiredProbes
<1>3. PICK got \in SUBSET (deque[d] \ gone) :
        /\ \A t, u \in got : t = u
        /\ deque' = [deque EXCEPT ![d] = (deque[d] \ gone) \ got]
        /\ taken' = [taken EXCEPT ![p] = @ \cup got]
  <2>1. CASE PopsNothing(p)
    <3>1. /\ deque' = [deque EXCEPT ![d] = (deque[d] \ gone) \ {}]
          /\ taken' = [taken EXCEPT ![p] = @ \cup {}]
      BY <1>1, <2>1 DEF PopsNothing, Kept
    <3>2. QED
      BY <3>1
  <2>2. ASSUME NEW t \in Kept(d), PopsFront(p, t)
        PROVE  \E got \in SUBSET (deque[d] \ gone) :
                 /\ \A x, u \in got : x = u
                 /\ deque' = [deque EXCEPT ![d] = (deque[d] \ gone) \ got]
                 /\ taken' = [taken EXCEPT ![p] = @ \cup got]
    <3>1. /\ {t} \in SUBSET (deque[d] \ gone)
          /\ deque' = [deque EXCEPT ![d] = (deque[d] \ gone) \ {t}]
          /\ taken' = [taken EXCEPT ![p] = @ \cup {t}]
      BY <2>2 DEF PopsFront, Kept
    <3>2. \A x, u \in {t} : x = u
      OBVIOUS
    <3>3. QED
      BY <3>1, <3>2
  <2>3. QED
    BY <2>1, <2>2, PopCases
<1> HIDE DEF d, gone
<1>4. deque[d] \subseteq Tasks /\ gone \subseteq Tasks /\ got \subseteq Tasks
  BY <1>1, <1>2, <1>3
<1>5. ASSUME NEW t \in deque[d]
      PROVE  /\ ContractState(t) \in {"pending", "stranded"}
             /\ TakenBy(t) = {} /\ ~ Finished(t)
             /\ Serves(p, t)
  <2>1. Waiting(t) /\ t \in Tasks
    BY <1>1, <1>4, <1>5 DEF Waiting, Deques
  <2>2. OnePlace(t)
    BY <2>1 DEF ExactlyOnePlace
  <2>3. KeyOf[t] = KeyOf[d]
    BY <1>1, <1>5 DEF Shape, IndexOk, Deques
  <2>4. Serves(p, t)
    BY <1>1, <2>3 DEF Serves, CurrentKey, Shape, TypeOK
  <2>5. QED
    BY <2>1, <2>2, <2>4, StateIs DEF OnePlace, Shape
<1>6. ASSUME NEW t \in Tasks
      PROVE  /\ TakenBy(t)' = IF t \in got THEN {p} ELSE TakenBy(t)
             /\ ContractState(t)' = IF t \in gone THEN "dropped"
                                    ELSE IF t \in got THEN "served" ELSE ContractState(t)
  <2>1. OnePlace(t)' /\ TypeOK'
    BY DEF ExactlyOnePlace, Shape
  <2>2. ASSUME t \notin got PROVE TakenBy(t)' = TakenBy(t)
    BY <1>1, <1>3, <2>2 DEF TakenBy
  <2>3. ASSUME t \in got PROVE TakenBy(t)' = {p} /\ ContractState(t)' = "served" /\ t \notin gone
    <3>1. TakenBy(t) = {}
      BY <1>3, <1>5, <2>3
    <3>2. \A q \in Pollers : t \in taken'[q] <=> q = p
      BY <1>1, <1>3, <2>3, <3>1 DEF TakenBy
    <3>3. TakenBy(t)' = {p}
      BY <3>2 DEF TakenBy
    <3>4. TakenBy(t)' # {}
      BY <3>3
    <3>5. QED
      BY <1>3, <2>1, <2>3, <3>3, <3>4, StateIsNext
  <2>4. ASSUME t \in gone PROVE ContractState(t)' = "dropped"
    BY <1>1, <2>1, <2>4, StateIsNext
  <2>5. ASSUME t \notin gone, t \notin got PROVE ContractState(t)' = ContractState(t)
    <3>1. \A e \in Tasks : t \in deque'[e] <=> t \in deque[e]
      BY <1>1, <1>3, <2>5
    <3>2. Visible(t)' <=> Visible(t)
      BY <1>1, <3>1, QueueAssumption DEF Visible, Shape, TypeOK, Deques
    <3>3. Pushed(t)' <=> Pushed(t)
      BY <1>1 DEF Pushed
    <3>4. t \in dropped' <=> t \in dropped
      BY <1>1, <2>5
    <3>5. QED
      BY <1>1, <2>2, <2>5, <3>2, <3>3, <3>4 DEF ContractState
  <2>6. QED
    BY <2>2, <2>3, <2>4, <2>5
<1>7. Contract!Dequeue(p, gone, got)
  <2>1. \A t \in gone : ContractState(t) \in {"pending", "stranded"} /\ t \in Probes \cap overdue
    BY <1>2, <1>5
  <2>2. \A t \in got : ContractState(t) \in {"pending", "stranded"} /\ Serves(p, t)
    BY <1>3, <1>5
  <2>3. gone \cap got = {} /\ \A t, u \in got : t = u
    BY <1>3
  <2>4. UNCHANGED overdue
    BY <1>1
  <2>5. QED
    BY <1>4, <1>6, <2>1, <2>2, <2>3, <2>4 DEF Contract!Dequeue, Contract!Live
<1>8. QED
  BY <1>4, <1>7 DEF Contract!Next

\* The overseer's pass expires what is overdue in one deque.
LEMMA PassExpires ==
  ASSUME Shape, ExactlyOnePlace, Shape', ExactlyOnePlace', OverseerExpire
  PROVE  Contract!Next
<1>1. PICK e \in todo : /\ hands' = hands \cup ExpiredTasks(e[2])
                        /\ deque' = [deque EXCEPT ![e[2]] = @ \ ExpiredTasks(e[2])]
  BY DEF OverseerExpire
<1> DEFINE gone == ExpiredTasks(e[2])
<1>2. /\ e[2] \in Tasks
      /\ deque \in [Tasks -> SUBSET Tasks]
      /\ gone \subseteq deque[e[2]] /\ gone \subseteq overdue
      /\ UNCHANGED <<index, enq, overdue, taken, answered, dropped>>
  BY DEF OverseerExpire, Shape, TypeOK, Deques, ExpiredTasks, enqVars, outVars
<1>3. gone \subseteq Tasks
  BY <1>2
<1> HIDE DEF gone
<1>4. ASSUME NEW t \in gone PROVE ContractState(t) \in {"pending", "stranded"}
  <2>1. Waiting(t) /\ t \in Tasks
    BY <1>2, <1>3 DEF Waiting, Deques
  <2>2. QED
    BY <2>1, StateIs DEF ExactlyOnePlace, Shape
<1>5. ASSUME NEW t \in Tasks
      PROVE  ContractState(t)' = IF t \in gone THEN "expired" ELSE ContractState(t)
  <2>1. ASSUME t \in gone PROVE ContractState(t)' = "expired"
    <3>1. t \in hands'
      BY <1>1, <2>1 DEF gone
    <3>2. QED
      BY <3>1, StateIsNext DEF ExactlyOnePlace, Shape
  <2>2. ASSUME t \notin gone PROVE ContractState(t)' = ContractState(t)
    <3>1. \A d \in Tasks : t \in deque'[d] <=> t \in deque[d]
      BY <1>1, <1>2, <2>2 DEF gone
    <3>2. Visible(t)' <=> Visible(t)
      BY <1>2, <3>1, QueueAssumption DEF Visible, Shape, TypeOK, Deques
    <3>3. /\ t \in hands' <=> t \in hands
          /\ Pushed(t)' <=> Pushed(t)
          /\ TakenBy(t)' = TakenBy(t)
      BY <1>1, <1>2, <2>2 DEF gone, Pushed, TakenBy
    <3>4. QED
      BY <1>2, <3>2, <3>3 DEF ContractState
  <2>3. QED
    BY <2>1, <2>2
<1>6. \A t \in Tasks : TakenBy(t)' = TakenBy(t)
  BY <1>2 DEF TakenBy
<1>7. Contract!Expire(gone)
  BY <1>2, <1>3, <1>4, <1>5, <1>6 DEF Contract!Expire, Contract!Live
<1>8. QED
  BY <1>3, <1>7 DEF Contract!Next

LEMMA PassAnswers ==
  ASSUME Shape, ExactlyOnePlace, Shape', ExactlyOnePlace', OverseerAnswer
  PROVE  Contract!Next
<1>1. /\ answered' = answered \cup hands /\ hands' = {}
      /\ UNCHANGED <<index, deque, enq, overdue, taken, dropped>>
  BY DEF OverseerAnswer, enqVars
<1>2. ASSUME NEW t \in Tasks
      PROVE  ContractState(t)' = IF ContractState(t) = "expired" THEN "answered"
                                                                 ELSE ContractState(t)
  <2>1. OnePlace(t) /\ OnePlace(t)' /\ TypeOK /\ TypeOK'
    BY DEF ExactlyOnePlace, Shape
  <2>2. CASE t \in hands
    BY <1>1, <2>1, <2>2, StateIs, StateIsNext
  <2>3. CASE t \notin hands
    <3>1. /\ t \in answered' <=> t \in answered
          /\ Pushed(t)' <=> Pushed(t)
          /\ Visible(t)' <=> Visible(t)
          /\ TakenBy(t)' = TakenBy(t)
      BY <1>1, <2>3 DEF Pushed, Visible, TakenBy
    <3>2. ContractState(t)' = ContractState(t)
      BY <1>1, <2>3, <3>1 DEF ContractState
    <3>3. Pushed(t) => Waiting(t) \/ TakenBy(t) # {} \/ t \in answered \/ t \in dropped
      BY <2>1, <2>3 DEF OnePlace, Finished
    <3>4. ContractState(t) # "expired"
      BY <2>1, <3>3, StateIs
    <3>5. QED
      BY <3>2, <3>4
  <2>4. QED
    BY <2>2, <2>3
<1>3. \A t \in Tasks : TakenBy(t)' = TakenBy(t)
  BY <1>1 DEF TakenBy
<1>4. Contract!Answer
  BY <1>1, <1>2, <1>3 DEF Contract!Answer
<1>5. QED
  BY <1>4 DEF Contract!Next

LEMMA ContractStep ==
  Shape /\ ExactlyOnePlace /\ Shape' /\ ExactlyOnePlace' /\ [Next]_vars
    => [Contract!Next]_(Contract!vars)
<1> SUFFICES ASSUME Shape, ExactlyOnePlace, Shape', ExactlyOnePlace', [Next]_vars
             PROVE  Contract!Next \/ UNCHANGED Contract!vars
  OBVIOUS
<1> USE DEF enqVars, pollVars, overVars, outVars
<1>1. ASSUME UNCHANGED <<index, deque, enq, taken, hands, answered, dropped, overdue>>
      PROVE  UNCHANGED Contract!vars
  BY <1>1, ContractStutters DEF Pushed, Visible
<1>2. ASSUME NEW t \in Tasks, PushBack(t) PROVE Contract!Next
  BY <1>2, PushAccepts
<1>3. ASSUME NEW t \in Tasks, BecomesOverdue(t) PROVE Contract!Next
  BY <1>3, OverdueIsLive
<1>4. ASSUME NEW t \in Tasks, FetchDeque(t) \/ CreateDeque(t) \/ BumpGeneration(t) \/ NotifyAll(t)
      PROVE  UNCHANGED Contract!vars
  <2>1. /\ UNCHANGED <<deque, taken, hands, answered, dropped, overdue>>
        /\ \A u \in Tasks : Pushed(u)' <=> Pushed(u)
    BY <1>4 DEF FetchDeque, CreateDeque, BumpGeneration, NotifyAll, Pushed, Shape, TypeOK
  <2>2. \A u \in Tasks : Visible(u)' <=> Visible(u)
    <3>1. CASE CreateDeque(t)
      BY <3>1, CreationStutters
    <3>2. CASE ~ CreateDeque(t)
      BY <1>4, <3>2 DEF FetchDeque, BumpGeneration, NotifyAll, Visible
    <3>3. QED
      BY <3>1, <3>2
  <2>3. QED
    BY <2>1, <2>2, ContractStutters
<1>5. ASSUME NEW p \in Pollers, IdleMark(p) \/ FetchKey(p) \/ WaitForWork(p) \/ WaitTimesOut(p)
      PROVE  UNCHANGED Contract!vars
  BY <1>1, <1>5 DEF IdleMark, FetchKey, WaitForWork, WaitTimesOut
<1>6. ASSUME NEW p \in Pollers, LockAndPop(p) PROVE Contract!Next
  BY <1>6, PopDequeues
<1>7. ASSUME NEW k \in Keys, RemoveKeyIfEmpty(k),
             UNCHANGED <<deque, enq, taken, hands, answered, dropped, overdue>>
      PROVE  UNCHANGED Contract!vars
  BY <1>7, RemovalStutters, ContractStutters DEF Pushed
<1>8. ASSUME NEW p \in Pollers, RemoveKey(p) PROVE UNCHANGED Contract!vars
  <2>1. CurrentKey(p) \in Keys
    BY QueueAssumption DEF CurrentKey, Shape, TypeOK
  <2>2. QED
    BY <1>7, <1>8, <2>1 DEF RemoveKey
<1>9. CASE OverseerRemove
  BY <1>7, <1>9 DEF OverseerRemove, Shape, TypeOK
<1>10. CASE OverseerSnapshot \/ UNCHANGED vars
  BY <1>1, <1>10 DEF OverseerSnapshot, vars
<1>11. QED
  BY <1>2, <1>3, <1>4, <1>5, <1>6, <1>8, <1>9, <1>10, PassExpires, PassAnswers
     DEF Next, Enqueue, NextForWorker, Overseer

\* Every step of the locks, deques and wakeups is a step of the contract or leaves
\* it as it is: a request is served by a worker that serves its route, or expires
\* because it is overdue, and one that was accepted as pending is never stranded.
THEOREM QueueKeepsContract == Spec => Refinement
<1>1. Spec => []ExactlyOnePlace
  BY ServedAtMostOnce
<1>2. QED
  BY <1>1, ContractInit, ContractStep, ShapeInvariant, PTL
     DEF Spec, Refinement, Contract!Spec
=============================================================================
