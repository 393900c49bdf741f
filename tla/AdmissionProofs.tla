---------------------------- MODULE AdmissionProofs -----------------------------
(* Proofs about the rate limiter and the slots of its keys, for any number of *)
(* requests, keys, windows and limits.                                        *)
EXTENDS Admission, FiniteSetTheorems, SequenceTheorems, TLAPS

-----------------------------------------------------------------------------
(* The life of a slot *)

SlotTypes ==
  /\ stage \in [Requests -> Stages]
  /\ keyId \in [Requests -> ApiKeys \cup {None}]
  /\ cleanup \in [Requests -> ApiKeys \cup {None}]
  /\ concurrent \in [ApiKeys -> Nat]
  /\ reserved \subseteq Requests
  /\ released \subseteq Requests
  /\ raced \subseteq Requests

\* What is true of a request at each stage: the key its task carries, the key
\* handle_poll is to release, whether it may have reserved a slot, and that its
\* slot was released once handle_poll is done with it.
SlotOf(r) ==
  /\ keyId[r] \in {None, KeyOf[r]}
  /\ keyId[r] # None => stage[r] \in {"planning", "queued", "forwarding", "relaying",
                                      "replied", "expired", "failed", "served"}
  /\ cleanup[r] = IF stage[r] \in {"forwarding", "relaying"} THEN keyId[r] ELSE None
  /\ r \in reserved => stage[r] \notin {"new", "verified", "checking", "admitted"}
  /\ r \in raced => stage[r] \notin {"new", "verified", "checking"}
  /\ r \in released <=> stage[r] \in {"served", "failed"} /\ keyId[r] # None

SlotsOk == \A r \in Requests : SlotOf(r)

\* The conjunct of SlotsAccounted that counts, which is inductive with SlotsOk.
Counted == \A k \in ApiKeys :
             /\ concurrent[k] \in 0..Cardinality(Kept(k))
             /\ concurrent[k] >= Cardinality(Kept(k)) - Cardinality(Unearned(k))

LEMMA KeyTypes == \A r \in Requests : KeyOf[r] \in ApiKeys /\ KeyOf[r] # None
  BY AdmissionAssumption

LEMMA InitSlots == Init => SlotTypes /\ SlotsOk /\ Counted
<1> SUFFICES ASSUME Init PROVE SlotTypes /\ SlotsOk /\ Counted
  OBVIOUS
<1>1. SlotTypes /\ SlotsOk
  BY DEF Init, SlotTypes, SlotsOk, SlotOf, Stages
<1>2. \A k \in ApiKeys : Cardinality(Kept(k)) = 0 /\ Cardinality(Unearned(k)) = 0
  <2>1. \A k \in ApiKeys : Kept(k) = {} /\ Unearned(k) = {}
    BY DEF Init, Kept, Unearned
  <2>2. QED
    BY <2>1, FS_EmptySet
<1>3. Counted
  BY <1>2 DEF Init, Counted
<1>4. QED
  BY <1>1, <1>3

\* How handle_poll moves a request: on to the relay, or to an end with a release.
Ends(r) ==
  /\ stage[r] \in {"forwarding", "relaying"}
  /\ \E s \in {"served", "failed"} : stage' = [stage EXCEPT ![r] = s]
  /\ FinishOrContinue(r)

LEMMA HandlePoll ==
  ASSUME NEW r, Forward(r) \/ Relay(r)
  PROVE  /\ UNCHANGED <<keyId, reserved, raced>>
         /\ \/ Ends(r)
            \/ Goto(r, "forwarding", "relaying") /\ UNCHANGED <<concurrent, cleanup, released>>
  BY DEF Forward, Relay, Goto, Ends

LEMMA Release ==
  ASSUME SlotTypes, SlotsOk, NEW r \in Requests, FinishOrContinue(r),
         stage[r] \in {"forwarding", "relaying"}
  PROVE  /\ cleanup' = [cleanup EXCEPT ![r] = None]
         /\ keyId[r] = None => concurrent' = concurrent /\ released' = released
         /\ keyId[r] # None =>
              /\ concurrent' = [concurrent EXCEPT ![KeyOf[r]] = IF @ > 0 THEN @ - 1 ELSE 0]
              /\ released' = released \cup {r}
         /\ concurrent' \in [ApiKeys -> Nat]
         /\ \A k \in ApiKeys : concurrent'[k] <= concurrent[k]
         /\ r \notin released
<1>1. cleanup[r] = keyId[r] /\ keyId[r] \in {None, KeyOf[r]} /\ r \notin released
  BY DEF SlotsOk, SlotOf
<1>2. concurrent \in [ApiKeys -> Nat]
  BY DEF SlotTypes
<1>3. QED
  BY <1>1, <1>2, KeyTypes DEF FinishOrContinue

LEMMA NextSlotTypes == SlotTypes /\ SlotsOk /\ [Next]_vars => SlotTypes'
<1> SUFFICES ASSUME SlotTypes, SlotsOk, [Next]_vars PROVE SlotTypes'
  OBVIOUS
<1> USE DEF SlotTypes, Stages, limiterVars, history
<1>1. ASSUME NEW r \in Requests, Verify(r) \/ ReadClock(r) \/ PlanRequest(r) \/ ExpireQueued(r)
      PROVE  SlotTypes'
  BY <1>1 DEF Verify, ReadClock, PlanRequest, ExpireQueued, Goto
<1>2. ASSUME NEW r \in Requests, Check(r) PROVE SlotTypes'
  <2>1. UNCHANGED <<concurrent, keyId, cleanup, reserved, released>>
    BY <1>2 DEF Check
  <2>2. raced' \subseteq Requests /\ stage' \in [Requests -> Stages]
    BY <1>2 DEF Check, Goto
  <2>3. QED
    BY <2>1, <2>2
<1>3. ASSUME NEW r \in Requests, StartRequest(r) PROVE SlotTypes'
  BY <1>3, KeyTypes DEF StartRequest, Goto
<1>4. ASSUME NEW r \in Requests, LookupKey(r) \/ TakeTask(r) PROVE SlotTypes'
  BY <1>4, KeyTypes DEF LookupKey, TakeTask, Goto
<1>5. ASSUME NEW r \in Requests, Forward(r) \/ Relay(r) PROVE SlotTypes'
  <2>1. CASE Ends(r)
    <3>1. /\ stage[r] \in {"forwarding", "relaying"} /\ FinishOrContinue(r)
          /\ \E s \in {"served", "failed"} : stage' = [stage EXCEPT ![r] = s]
      BY <2>1 DEF Ends
    <3>2. /\ cleanup' = [cleanup EXCEPT ![r] = None] /\ concurrent' \in [ApiKeys -> Nat]
          /\ released' = IF keyId[r] = None THEN released ELSE released \cup {r}
      BY <3>1, Release
    <3>3. UNCHANGED <<keyId, reserved, raced>>
      BY <1>5, HandlePoll
    <3>4. QED
      BY <3>1, <3>2, <3>3
  <2>2. CASE Goto(r, "forwarding", "relaying") /\ UNCHANGED <<concurrent, cleanup, released>>
    BY <1>5, <2>2, HandlePoll DEF Goto
  <2>3. QED
    BY <1>5, <2>1, <2>2, HandlePoll
<1>6. ASSUME NEW k \in ApiKeys, Snapshot(k) \/ DeleteKey(k) PROVE SlotTypes'
  BY <1>6 DEF Snapshot, DeleteKey
<1>7. CASE Tick \/ UNCHANGED vars
  BY <1>7 DEF Tick, vars
<1>8. QED
  BY <1>1, <1>2, <1>3, <1>4, <1>5, <1>6, <1>7 DEF Next, Handle

LEMMA NextSlotsOk == SlotTypes /\ SlotsOk /\ [Next]_vars => SlotsOk'
<1> SUFFICES ASSUME SlotTypes, SlotsOk, [Next]_vars, NEW q \in Requests PROVE SlotOf(q)'
  BY DEF SlotsOk
<1>0. SlotOf(q)
  BY DEF SlotsOk
<1> USE DEF SlotTypes, Stages, SlotOf, limiterVars, history
<1>1. ASSUME NEW r \in Requests, Verify(r) \/ ReadClock(r) \/ PlanRequest(r) \/ ExpireQueued(r)
      PROVE  SlotOf(q)'
  BY <1>0, <1>1 DEF Verify, ReadClock, PlanRequest, ExpireQueued, Goto
<1>2. ASSUME NEW r \in Requests, Check(r) PROVE SlotOf(q)'
  <2>1. UNCHANGED <<concurrent, keyId, cleanup, reserved, released>>
    BY <1>2 DEF Check
  <2>2. /\ stage[r] = "checking" /\ raced' \in {raced, raced \cup {r}}
        /\ \/ stage' = [stage EXCEPT ![r] = "limited"] /\ raced' = raced
           \/ stage' = [stage EXCEPT ![r] = "admitted"]
    BY <1>2 DEF Check, Goto
  <2>3. QED
    BY <1>0, <2>1, <2>2
<1>3. ASSUME NEW r \in Requests, StartRequest(r) PROVE SlotOf(q)'
  BY <1>0, <1>3 DEF StartRequest, Goto
<1>4. ASSUME NEW r \in Requests, LookupKey(r) \/ TakeTask(r) PROVE SlotOf(q)'
  BY <1>0, <1>4 DEF LookupKey, TakeTask, Goto
<1>5. ASSUME NEW r \in Requests, Forward(r) \/ Relay(r) PROVE SlotOf(q)'
  <2>1. CASE Ends(r)
    <3>1. /\ stage[r] \in {"forwarding", "relaying"} /\ FinishOrContinue(r)
          /\ \E s \in {"served", "failed"} : stage' = [stage EXCEPT ![r] = s]
      BY <2>1 DEF Ends
    <3>2. /\ cleanup' = [cleanup EXCEPT ![r] = None] /\ concurrent' \in [ApiKeys -> Nat]
          /\ released' = IF keyId[r] = None THEN released ELSE released \cup {r}
      BY <3>1, Release
    <3>3. UNCHANGED <<keyId, reserved, raced>>
      BY <1>5, HandlePoll
    <3>4. QED
      BY <1>0, <3>1, <3>2, <3>3
  <2>2. CASE Goto(r, "forwarding", "relaying") /\ UNCHANGED <<concurrent, cleanup, released>>
    BY <1>0, <1>5, <2>2, HandlePoll DEF Goto
  <2>3. QED
    BY <1>5, <2>1, <2>2, HandlePoll
<1>6. ASSUME NEW k \in ApiKeys, Snapshot(k) \/ DeleteKey(k) PROVE SlotOf(q)'
  BY <1>0, <1>6 DEF Snapshot, DeleteKey
<1>7. CASE Tick \/ UNCHANGED vars
  BY <1>0, <1>7 DEF Tick, vars
<1>8. QED
  BY <1>1, <1>2, <1>3, <1>4, <1>5, <1>6, <1>7 DEF Next, Handle

\* What a step does to the sets that SlotsAccounted counts.
LEMMA CountedSets ==
  ASSUME SlotTypes, NEW k \in ApiKeys
  PROVE  /\ IsFiniteSet(Kept(k)) /\ IsFiniteSet(Unearned(k))
         /\ Cardinality(Kept(k)) \in Nat /\ Cardinality(Unearned(k)) \in Nat
<1>1. Kept(k) \in SUBSET Requests /\ Unearned(k) \in SUBSET Requests
  BY DEF Kept, Unearned, SlotTypes
<1>2. QED
  BY <1>1, FS_Subset, FS_CardinalityType, AdmissionAssumption

LEMMA NextCounted == SlotTypes /\ SlotTypes' /\ SlotsOk /\ Counted /\ [Next]_vars => Counted'
<1> SUFFICES ASSUME SlotTypes, SlotTypes', SlotsOk, Counted, [Next]_vars, NEW k \in ApiKeys
             PROVE  /\ concurrent'[k] \in 0..Cardinality(Kept(k)')
                    /\ concurrent'[k] >= Cardinality(Kept(k)') - Cardinality(Unearned(k)')
  BY DEF Counted
<1> DEFINE K == Kept(k)  U == Unearned(k)
<1>1. /\ concurrent \in [ApiKeys -> Nat]
      /\ concurrent[k] <= Cardinality(K) /\ concurrent[k] >= Cardinality(K) - Cardinality(U)
      /\ IsFiniteSet(K) /\ IsFiniteSet(U) /\ Cardinality(K) \in Nat /\ Cardinality(U) \in Nat
  BY CountedSets DEF Counted, SlotTypes
<1>2. CASE UNCHANGED <<concurrent, reserved, released>>
  BY <1>1, <1>2 DEF Kept, Unearned
<1>3. ASSUME NEW r \in Requests, StartRequest(r)
      PROVE  /\ concurrent'[k] \in 0..Cardinality(Kept(k)')
             /\ concurrent'[k] >= Cardinality(Kept(k)') - Cardinality(Unearned(k)')
  <2>1. r \notin reserved /\ r \notin released /\ reserved' = reserved \cup {r} /\ released' = released
    BY <1>3 DEF StartRequest, Goto, SlotsOk, SlotOf
  <2>2. concurrent' = [concurrent EXCEPT ![KeyOf[r]] = @ + 1]
    BY <1>3 DEF StartRequest
  <2>3. U' = U /\ K' = (IF KeyOf[r] = k THEN K \cup {r} ELSE K) /\ r \notin K
    BY <2>1 DEF Kept, Unearned
  <2>4. Cardinality(K \cup {r}) = Cardinality(K) + 1
    BY <1>1, <2>3, FS_AddElement
  <2>5. QED
    BY <1>1, <2>2, <2>3, <2>4
<1>4. ASSUME NEW r \in Requests, Ends(r), keyId[r] # None, UNCHANGED reserved
      PROVE  /\ concurrent'[k] \in 0..Cardinality(Kept(k)')
             /\ concurrent'[k] >= Cardinality(Kept(k)') - Cardinality(Unearned(k)')
  <2>1. /\ concurrent' = [concurrent EXCEPT ![KeyOf[r]] = IF @ > 0 THEN @ - 1 ELSE 0]
        /\ released' = released \cup {r} /\ reserved' = reserved /\ r \notin released
    BY <1>4, Release DEF Ends
  <2>2. CASE KeyOf[r] # k
    <3>1. K' = K /\ U' = U /\ concurrent'[k] = concurrent[k]
      BY <1>1, <2>1, <2>2 DEF Kept, Unearned
    <3>2. QED
      BY <1>1, <3>1
  <2>3. CASE KeyOf[r] = k /\ r \in reserved
    <3>1. U' = U /\ K' = K \ {r} /\ r \in K
      BY <2>1, <2>3 DEF Kept, Unearned
    <3>2. Cardinality(K \ {r}) = Cardinality(K) - 1 /\ Cardinality(K \ {r}) \in Nat
      BY <1>1, <3>1, FS_RemoveElement, FS_CardinalityType
    <3>3. concurrent'[k] = IF concurrent[k] > 0 THEN concurrent[k] - 1 ELSE 0
      BY <1>1, <2>1, <2>3
    <3>4. QED
      BY <1>1, <3>1, <3>2, <3>3
  <2>4. CASE KeyOf[r] = k /\ r \notin reserved
    <3>1. U' = U \cup {r} /\ K' = K /\ r \notin U
      BY <2>1, <2>4 DEF Kept, Unearned, SlotTypes
    <3>2. Cardinality(U \cup {r}) = Cardinality(U) + 1
      BY <1>1, <3>1, FS_AddElement
    <3>3. concurrent'[k] = IF concurrent[k] > 0 THEN concurrent[k] - 1 ELSE 0
      BY <1>1, <2>1, <2>4
    <3>4. QED
      BY <1>1, <3>1, <3>2, <3>3
  <2>5. QED
    BY <2>2, <2>3, <2>4
<1>5. ASSUME NEW r \in Requests, Forward(r) \/ Relay(r),
             ~ (Ends(r) /\ keyId[r] # None /\ UNCHANGED reserved)
      PROVE  UNCHANGED <<concurrent, reserved, released>>
  BY <1>5, HandlePoll, Release DEF Ends
<1>6. ASSUME NEW r \in Requests, Verify(r) \/ ReadClock(r) \/ Check(r) \/ LookupKey(r)
                                 \/ PlanRequest(r) \/ ExpireQueued(r) \/ TakeTask(r)
      PROVE  UNCHANGED <<concurrent, reserved, released>>
  BY <1>6 DEF Verify, ReadClock, Check, LookupKey, PlanRequest, ExpireQueued, TakeTask,
              limiterVars, history
<1>7. ASSUME \/ \E i \in ApiKeys : Snapshot(i) \/ DeleteKey(i)
             \/ Tick \/ UNCHANGED vars
      PROVE  UNCHANGED <<concurrent, reserved, released>>
  BY <1>7 DEF Snapshot, DeleteKey, Tick, vars, limiterVars, history
<1>8. QED
  BY <1>2, <1>3, <1>4, <1>5, <1>6, <1>7 DEF Next, Handle

LEMMA SlotInvariant == Spec => [](SlotTypes /\ SlotsOk /\ Counted)
<1>1. SlotTypes /\ SlotsOk /\ Counted /\ [Next]_vars => (SlotTypes /\ SlotsOk /\ Counted)'
  BY NextSlotTypes, NextSlotsOk, NextCounted
<1>2. QED
  BY <1>1, InitSlots, PTL DEF Spec

\* The slots of a key are its reservations that nobody released, less at most the
\* releases for requests that reserved nothing, and handle_poll releases the slot
\* of every task that carries a key, and of no other (SlotsAccounted).
THEOREM SlotsAreAccounted == Spec => []SlotsAccounted
<1>1. SlotsOk /\ Counted => SlotsAccounted
  BY DEF SlotsOk, SlotOf, Counted, SlotsAccounted
<1>2. QED
  BY <1>1, SlotInvariant, PTL

-----------------------------------------------------------------------------
(* The limit on slots *)

\* The admissions that have no slot yet, and the requests that took part in a race.
Slotless(k) == Of(k, {"admitted"})
Racers(k)   == {r \in raced : KeyOf[r] = k}

LEMMA RaceSets ==
  ASSUME SlotTypes, NEW k \in ApiKeys
  PROVE  /\ IsFiniteSet(Slotless(k)) /\ IsFiniteSet(Racers(k))
         /\ Cardinality(Slotless(k)) \in Nat /\ Cardinality(Racers(k)) \in Nat
<1>1. Slotless(k) \in SUBSET Requests /\ Racers(k) \in SUBSET Requests
  BY DEF Slotless, Racers, Of, SlotTypes
<1>2. QED
  BY <1>1, FS_Subset, FS_CardinalityType, AdmissionAssumption

LEMMA NextRaces ==
  SlotTypes /\ SlotTypes' /\ SlotsOk /\ OnlyRacesOvershoot /\ [Next]_vars => OnlyRacesOvershoot'
<1> SUFFICES ASSUME SlotTypes, SlotTypes', SlotsOk, OnlyRacesOvershoot, [Next]_vars,
                    NEW k \in ApiKeys, MaxConcurrent[k] > 0
             PROVE  concurrent'[k] + Cardinality(Slotless(k)')
                      <= MaxConcurrent[k] + Cardinality(Racers(k)')
  BY DEF OnlyRacesOvershoot, Slotless, Racers
<1> DEFINE A == Slotless(k)  R == Racers(k)  M == MaxConcurrent[k]
           Goal == concurrent'[k] + Cardinality(A') <= M + Cardinality(R')
<1>1. /\ IsFiniteSet(A) /\ IsFiniteSet(R) /\ Cardinality(A) \in Nat /\ Cardinality(R) \in Nat
      /\ concurrent[k] \in Nat /\ concurrent'[k] \in Nat /\ M \in Nat
      /\ concurrent[k] + Cardinality(A) <= M + Cardinality(R)
  BY RaceSets, AdmissionAssumption DEF OnlyRacesOvershoot, Slotless, Racers, SlotTypes
<1>2. ASSUME concurrent'[k] <= concurrent[k], A' = A, R' = R PROVE Goal
  BY <1>1, <1>2
<1>3. ASSUME NEW r \in Requests, Check(r) PROVE Goal
  <2>1. r \notin A /\ r \notin R
    BY <1>3 DEF Check, Goto, SlotsOk, SlotOf, Slotless, Racers, Of
  <2>2. concurrent' = concurrent
    BY <1>3 DEF Check
  <2>3. CASE \/ KeyOf[r] # k
             \/ stage' = [stage EXCEPT ![r] = "limited"] /\ raced' = raced
    <3>1. A' = A /\ R' = R
      BY <1>3, <2>3 DEF Check, Goto, Slotless, Racers, Of, SlotTypes, Stages
    <3>2. QED
      BY <1>1, <1>2, <2>2, <3>1
  <2>4. CASE /\ KeyOf[r] = k /\ concurrent[k] < M /\ stage' = [stage EXCEPT ![r] = "admitted"]
             /\ raced' = IF Of(k, {"admitted"}) = {} THEN raced ELSE raced \cup {r}
    <3>1. A' = A \cup {r}
      BY <2>4 DEF Slotless, Of, SlotTypes
    <3>2. Cardinality(A \cup {r}) = Cardinality(A) + 1
      BY <1>1, <2>1, FS_AddElement
    <3>3. CASE A = {}
      <4>1. R' = R /\ Cardinality(A) = 0
        BY <2>4, <3>3, FS_EmptySet DEF Slotless, Racers
      <4>2. QED
        BY <1>1, <2>2, <2>4, <3>1, <3>2, <4>1
    <3>4. CASE A # {}
      <4>1. R' = R \cup {r}
        BY <2>4, <3>4 DEF Slotless, Racers
      <4>2. Cardinality(R \cup {r}) = Cardinality(R) + 1
        BY <1>1, <2>1, FS_AddElement
      <4>3. QED
        BY <1>1, <2>2, <3>1, <3>2, <4>1, <4>2
    <3>5. QED
      BY <3>3, <3>4
  <2>5. QED
    <3>1. \/ stage' = [stage EXCEPT ![r] = "limited"] /\ raced' = raced
          \/ /\ ~ AtSlotLimit(KeyOf[r]) /\ stage' = [stage EXCEPT ![r] = "admitted"]
             /\ raced' = IF Of(KeyOf[r], {"admitted"}) = {} THEN raced ELSE raced \cup {r}
      BY <1>3 DEF Check, Goto
    <3>2. ~ AtSlotLimit(k) => concurrent[k] < M
      BY <1>1 DEF AtSlotLimit
    <3>3. QED
      BY <2>3, <2>4, <3>1, <3>2
<1>4. ASSUME NEW r \in Requests, StartRequest(r) PROVE Goal
  <2>1. /\ stage[r] = "admitted" /\ stage' = [stage EXCEPT ![r] = "authorized"]
        /\ concurrent' = [concurrent EXCEPT ![KeyOf[r]] = @ + 1] /\ raced' = raced
    BY <1>4 DEF StartRequest, Goto
  <2>2. CASE KeyOf[r] # k
    <3>1. A' = A /\ R' = R /\ concurrent'[k] = concurrent[k]
      BY <2>1, <2>2 DEF Slotless, Racers, Of, SlotTypes
    <3>2. QED
      BY <1>1, <1>2, <3>1
  <2>3. CASE KeyOf[r] = k
    <3>1. A' = A \ {r} /\ r \in A /\ R' = R /\ concurrent'[k] = concurrent[k] + 1
      BY <2>1, <2>3 DEF Slotless, Racers, Of, SlotTypes
    <3>2. Cardinality(A \ {r}) = Cardinality(A) - 1
      BY <1>1, <3>1, FS_RemoveElement
    <3>3. QED
      BY <1>1, <3>1, <3>2
  <2>4. QED
    BY <2>2, <2>3
<1>5. ASSUME NEW r \in Requests, Forward(r) \/ Relay(r) PROVE Goal
  <2>1. A' = A /\ R' = R
    BY <1>5, HandlePoll DEF Ends, Goto, Slotless, Racers, Of, SlotTypes
  <2>2. concurrent'[k] <= concurrent[k]
    BY <1>1, <1>5, HandlePoll, Release DEF Ends
  <2>3. QED
    BY <1>2, <2>1, <2>2
<1>6. ASSUME NEW r \in Requests, Verify(r) \/ ReadClock(r) \/ LookupKey(r) \/ PlanRequest(r)
                                 \/ ExpireQueued(r) \/ TakeTask(r)
      PROVE  Goal
  <2>1. concurrent' = concurrent /\ raced' = raced
    BY <1>6 DEF Verify, ReadClock, LookupKey, PlanRequest, ExpireQueued, TakeTask,
                limiterVars, history
  <2>2. \E s \in Stages \ {"admitted"} : stage' = [stage EXCEPT ![r] = s]
    BY <1>6
    DEF Verify, ReadClock, LookupKey, PlanRequest, ExpireQueued, TakeTask, Goto, Stages
  <2>3. stage[r] # "admitted"
    BY <1>6 DEF Verify, ReadClock, LookupKey, PlanRequest, ExpireQueued, TakeTask, Goto
  <2>4. A' = A /\ R' = R
    BY <2>1, <2>2, <2>3 DEF Slotless, Racers, Of, SlotTypes
  <2>5. QED
    BY <1>1, <1>2, <2>1, <2>4
<1>7. CASE \/ \E i \in ApiKeys : Snapshot(i) \/ DeleteKey(i)
           \/ Tick \/ UNCHANGED vars
  <2>1. UNCHANGED <<concurrent, stage, raced>>
    BY <1>7 DEF Snapshot, DeleteKey, Tick, vars, limiterVars, history
  <2>2. A' = A /\ R' = R
    BY <2>1 DEF Slotless, Racers, Of
  <2>3. QED
    BY <1>1, <1>2, <2>1, <2>2
<1>8. QED
  BY <1>3, <1>4, <1>5, <1>6, <1>7 DEF Next, Handle

\* max_concurrent is exceeded only by requests that passed check before an earlier
\* one's start_request, and by at most one slot for each (OnlyRacesOvershoot).
THEOREM OnlyRacesExceed == Spec => []OnlyRacesOvershoot
<1>1. Init => OnlyRacesOvershoot
  <2> SUFFICES ASSUME Init, NEW k \in ApiKeys, MaxConcurrent[k] > 0
               PROVE  concurrent[k] + Cardinality(Slotless(k))
                        <= MaxConcurrent[k] + Cardinality(Racers(k))
    BY DEF OnlyRacesOvershoot, Slotless, Racers
  <2>1. Slotless(k) = {} /\ Racers(k) = {} /\ concurrent[k] = 0
    BY DEF Init, Slotless, Racers, Of
  <2>2. Cardinality({}) = 0 /\ MaxConcurrent[k] \in Nat
    BY FS_EmptySet, AdmissionAssumption
  <2>3. QED
    BY <2>1, <2>2
<1>2. SlotTypes /\ SlotTypes' /\ SlotsOk /\ OnlyRacesOvershoot /\ [Next]_vars
        => OnlyRacesOvershoot'
  BY NextRaces
<1>3. QED
  BY <1>1, <1>2, SlotInvariant, PTL DEF Spec

-----------------------------------------------------------------------------
(* What pruning a window leaves of its timestamps *)

\* In a sorted sequence the entries below c are the first ones.
LEMMA BelowIsPrefix ==
  ASSUME NEW s \in Seq(Nat), NEW c \in Int, Sorted(s)
  PROVE  LET B == {i \in 1..Len(s) : s[i] < c} IN
         /\ IsFiniteSet(B) /\ Cardinality(B) \in 0..Len(s)
         /\ \A i \in 1..Cardinality(B) : s[i] < c
<1> DEFINE B == {i \in 1..Len(s) : s[i] < c}
<1>1. PICK n \in Nat : n = Len(s)
  BY LenProperties
<1>2. IsFiniteSet(1..n) /\ Cardinality(1..n) = n
  <2>1. Cardinality(1..n) = IF 1 > n THEN 0 ELSE n - 1 + 1
    BY FS_Interval
  <2>2. QED
    BY <2>1, FS_Interval
<1>3. B \in SUBSET (1..n)
  BY <1>1
<1>4. IsFiniteSet(B) /\ Cardinality(B) \in Nat /\ Cardinality(B) <= n
  <2> HIDE DEF B
  <2>1. QED
    BY <1>2, <1>3, FS_Subset, FS_CardinalityType
<1>5. ASSUME NEW i \in 1..Cardinality(B), ~ s[i] < c PROVE FALSE
  <2>1. i \in 1..n
    BY <1>4, <1>5
  <2>2. \A j \in B : j \in 1..(i - 1)
    BY <1>1, <1>5, <2>1, ElementOfSeq DEF Sorted
  <2>3. PICK m \in Int : m = i - 1
    BY <2>1
  <2>4. IsFiniteSet(1..m) /\ Cardinality(1..m) = IF 1 > m THEN 0 ELSE m - 1 + 1
    BY FS_Interval
  <2>5. Cardinality(B) <= Cardinality(1..m)
    <3>1. B \in SUBSET (1..m)
      BY <2>2, <2>3
    <3> HIDE DEF B
    <3>2. QED
      BY <2>4, <3>1, FS_Subset
  <2>6. QED
    BY <1>4, <1>5, <2>1, <2>3, <2>4, <2>5
<1>6. QED
  BY <1>1, <1>4, <1>5

\* Whichever match the search finds: what comes before it is at most c.
LEMMA SearchBound ==
  ASSUME NEW s \in Seq(Nat), NEW c \in Int, NEW n \in BinarySearch(s, c)
  PROVE  /\ n \in 0..Len(s)
         /\ Sorted(s) => \A i \in 1..n : s[i] <= c
<1>1. Len(s) \in Nat /\ \A i \in 1..Len(s) : s[i] \in Nat
  BY LenProperties, ElementOfSeq
<1>2. CASE ~ Sorted(s)
  BY <1>1, <1>2 DEF BinarySearch
<1>3. CASE Sorted(s) /\ \E i \in 1..Len(s) : s[i] = c
  <2>1. PICK j \in 1..Len(s) : s[j] = c /\ n = j - 1
    BY <1>3 DEF BinarySearch
  <2>2. n \in 0..Len(s) /\ \A i \in 1..n : i \in 1..Len(s) /\ i < j
    BY <1>1, <2>1
  <2>3. \A i \in 1..n : s[i] <= s[j]
    BY <1>3, <2>1, <2>2 DEF Sorted
  <2>4. QED
    BY <2>1, <2>2, <2>3
<1>4. CASE Sorted(s) /\ ~ \E i \in 1..Len(s) : s[i] = c
  <2>1. n = Cardinality({i \in 1..Len(s) : s[i] < c})
    BY <1>4 DEF BinarySearch
  <2>2. n \in 0..Len(s) /\ \A i \in 1..n : s[i] < c
    BY <1>4, <2>1, BelowIsPrefix
  <2>3. QED
    BY <1>1, <2>2
<1>5. QED
  BY <1>2, <1>3, <1>4

\* s is what is left of a, and what is missing is at most c.
Suffix(a, s, c) ==
  /\ Len(s) <= Len(a)
  /\ \A i \in 1..Len(s) : s[i] = a[(Len(a) - Len(s)) + i]
  /\ \A i \in 1..(Len(a) - Len(s)) : a[i] <= c

LEMMA PrunedTypes ==
  ASSUME NEW s \in Seq(Nat), NEW w \in Windows, NEW t \in Nat, NEW p \in Pruned(s, w, t)
  PROVE  /\ p \in Seq(Nat)
         /\ Sorted(s) => Suffix(s, p, t - Length[w])
<1>1. Length[w] \in Nat /\ t - Length[w] \in Int
  BY AdmissionAssumption
<1>2. PICK n \in BinarySearch(s, t - Length[w]) : p = SubSeq(s, n + 1, Len(s))
  BY DEF Pruned
<1>3. /\ Len(s) \in Nat /\ n \in 0..Len(s) /\ \A i \in 1..Len(s) : s[i] \in Nat
      /\ Sorted(s) => \A i \in 1..n : s[i] <= t - Length[w]
  BY <1>1, LenProperties, ElementOfSeq, SearchBound
<1>4. PICK m \in Int : m = n + 1
  BY <1>3
<1>5. \A i \in m..Len(s) : s[i] \in Nat
  BY <1>3, <1>4
<1>6. /\ p \in Seq(Nat)
      /\ Len(p) = IF m <= Len(s) THEN Len(s) - m + 1 ELSE 0
      /\ \A i \in 1..(Len(s) - m + 1) : p[i] = s[m + i - 1]
  BY <1>2, <1>3, <1>4, <1>5, SubSeqProperties
<1>7. Len(p) = Len(s) - n /\ \A i \in 1..Len(p) : p[i] = s[n + i]
  BY <1>3, <1>4, <1>6
<1>8. Len(p) <= Len(s) /\ Len(s) - Len(p) = n
  BY <1>3, <1>7
<1>9. QED
  BY <1>3, <1>6, <1>7, <1>8 DEF Suffix

LEMMA SuffixOfSorted ==
  ASSUME NEW a \in Seq(Nat), NEW s \in Seq(Nat), NEW c \in Int, Sorted(a), Suffix(a, s, c)
  PROVE  Sorted(s)
<1>1. Len(a) \in Nat /\ Len(s) \in Nat /\ Len(s) <= Len(a)
  BY LenProperties DEF Suffix
<1> DEFINE d == Len(a) - Len(s)
<1>2. d \in Nat /\ Len(a) = d + Len(s)
  BY <1>1
<1>3. \A i \in 1..Len(s) : s[i] = a[d + i]
  BY DEF Suffix
<1> HIDE DEF d
<1>4. ASSUME NEW i \in 1..Len(s), NEW j \in 1..Len(s), i < j PROVE s[i] <= s[j]
  <2>1. d + i \in 1..Len(a) /\ d + j \in 1..Len(a) /\ d + i < d + j
    BY <1>1, <1>2, <1>4
  <2>2. a[d + i] <= a[d + j]
    BY <2>1 DEF Sorted
  <2>3. QED
    BY <1>3, <2>2
<1>5. QED
  BY <1>4 DEF Sorted

LEMMA SuffixPruned ==
  ASSUME NEW a \in Seq(Nat), NEW s \in Seq(Nat), Sorted(a), NEW c \in Int, Suffix(a, s, c),
         NEW w \in Windows, NEW t \in Nat, c <= t - Length[w], NEW p \in Pruned(s, w, t)
  PROVE  p \in Seq(Nat) /\ Suffix(a, p, t - Length[w])
<1>1. Sorted(s)
  BY SuffixOfSorted
<1>2. p \in Seq(Nat) /\ Suffix(s, p, t - Length[w])
  BY <1>1, PrunedTypes
<1>3. /\ Len(a) \in Nat /\ Len(s) \in Nat /\ Len(p) \in Nat /\ Length[w] \in Nat
      /\ Len(p) <= Len(s) /\ Len(s) <= Len(a)
      /\ \A i \in 1..Len(a) : a[i] \in Nat
  BY <1>2, LenProperties, ElementOfSeq, AdmissionAssumption DEF Suffix
<1> DEFINE d == Len(a) - Len(s)  e == Len(s) - Len(p)  f == Len(a) - Len(p)
<1>4. /\ d \in Nat /\ Len(a) = d + Len(s)
      /\ e \in Nat /\ Len(s) = e + Len(p)
      /\ f \in Nat /\ f = d + e
  BY <1>3
<1>5. /\ \A i \in 1..Len(s) : s[i] = a[d + i]
      /\ \A i \in 1..d : a[i] <= c
  BY DEF Suffix
<1>6. /\ \A i \in 1..Len(p) : p[i] = s[e + i]
      /\ \A i \in 1..e : s[i] <= t - Length[w]
  BY <1>2 DEF Suffix
<1>7. Len(p) <= Len(a) /\ f = Len(a) - Len(p)
  BY <1>3
<1> HIDE DEF d, e, f
<1>8. ASSUME NEW i \in 1..Len(p) PROVE p[i] = a[f + i]
  <2>1. e + i \in 1..Len(s) /\ d + (e + i) = f + i
    BY <1>3, <1>4
  <2>2. QED
    BY <1>5, <1>6, <2>1
<1>9. ASSUME NEW i \in 1..f PROVE a[i] <= t - Length[w]
  <2>1. CASE i <= d
    <3>1. i \in 1..d /\ i \in 1..Len(a)
      BY <1>3, <1>4, <2>1
    <3>2. a[i] <= c /\ a[i] \in Nat
      BY <1>3, <1>5, <3>1
    <3>3. QED
      BY <1>3, <3>2
  <2>2. CASE i > d
    <3>1. i - d \in 1..e /\ i - d \in 1..Len(s) /\ d + (i - d) = i
      BY <1>3, <1>4, <2>2
    <3>2. s[i - d] = a[i] /\ s[i - d] <= t - Length[w]
      BY <1>5, <1>6, <3>1
    <3>3. QED
      BY <3>2
  <2>3. QED
    BY <1>4, <2>1, <2>2
<1>10. Suffix(a, p, t - Length[w])
  BY <1>7, <1>8, <1>9 DEF Suffix
<1>11. QED
  BY <1>2, <1>10

LEMMA SuffixAppended ==
  ASSUME NEW a \in Seq(Nat), NEW s \in Seq(Nat), NEW c \in Int, Suffix(a, s, c), NEW t \in Nat
  PROVE  Suffix(Append(a, t), Append(s, t), c)
<1> DEFINE b == Append(a, t)  z == Append(s, t)
<1>1. /\ Len(a) \in Nat /\ Len(s) \in Nat /\ Len(b) = Len(a) + 1 /\ Len(z) = Len(s) + 1
      /\ \A i \in 1..Len(a) : b[i] = a[i]
      /\ \A i \in 1..Len(s) : z[i] = s[i]
      /\ b[Len(a) + 1] = t /\ z[Len(s) + 1] = t
  BY LenProperties, AppendProperties
<1> HIDE DEF b, z
<1>2. Len(s) <= Len(a)
  BY DEF Suffix
<1> DEFINE d == Len(a) - Len(s)
<1>3. d \in Nat /\ d = Len(b) - Len(z) /\ Len(z) <= Len(b) /\ Len(a) = d + Len(s)
  BY <1>1, <1>2
<1>4. /\ \A i \in 1..Len(s) : s[i] = a[d + i]
      /\ \A i \in 1..d : a[i] <= c
  BY DEF Suffix
<1> HIDE DEF d
<1>5. ASSUME NEW i \in 1..Len(z) PROVE z[i] = b[d + i]
  <2>1. CASE i = Len(s) + 1
    <3>1. d + i = Len(a) + 1
      BY <1>1, <1>3, <2>1
    <3>2. QED
      BY <1>1, <2>1, <3>1
  <2>2. CASE i \in 1..Len(s)
    <3>1. d + i \in 1..Len(a)
      BY <1>1, <1>3, <2>2
    <3>2. QED
      BY <1>1, <1>4, <2>2, <3>1
  <2>3. QED
    BY <1>1, <2>1, <2>2
<1>6. \A i \in 1..d : b[i] <= c
  <2>1. \A i \in 1..d : i \in 1..Len(a)
    BY <1>1, <1>3
  <2>2. QED
    BY <1>1, <1>4, <2>1
<1>7. Suffix(b, z, c)
  BY <1>3, <1>5, <1>6 DEF Suffix
<1>8. QED
  BY <1>7 DEF b, z

\* What WindowLimit says of one sequence of admissions.
Within(a, l, n) == \A i \in 1..Len(a) : Cardinality({j \in 1..i : a[j] > a[i] - l}) <= n

\* One more admission, while what the window keeps is below the limit.
LEMMA WithinAppended ==
  ASSUME NEW a \in Seq(Nat), NEW s \in Seq(Nat), NEW t \in Nat, NEW l \in Nat, NEW n \in Nat,
         Within(a, l, n), Suffix(a, s, t - l), Len(s) < n
  PROVE  Within(Append(a, t), l, n)
<1> DEFINE b == Append(a, t)
<1>1. /\ Len(a) \in Nat /\ Len(s) \in Nat /\ Len(s) <= Len(a) /\ Len(b) = Len(a) + 1
      /\ \A i \in 1..Len(a) : b[i] = a[i]
      /\ b[Len(a) + 1] = t
  BY LenProperties, AppendProperties DEF Suffix
<1> HIDE DEF b
<1>2. ASSUME NEW i \in 1..Len(a)
      PROVE  Cardinality({j \in 1..i : b[j] > b[i] - l}) <= n
  <2>1. \A j \in 1..i : j \in 1..Len(a)
    BY <1>1
  <2>2. {j \in 1..i : b[j] > b[i] - l} = {j \in 1..i : a[j] > a[i] - l}
    BY <1>1, <2>1
  <2>3. QED
    BY <2>2 DEF Within
<1>3. Cardinality({j \in 1..(Len(a) + 1) : b[j] > b[Len(a) + 1] - l}) <= n
  <2> DEFINE B == {j \in 1..(Len(a) + 1) : b[j] > b[Len(a) + 1] - l}
             d == Len(a) - Len(s)
  <2>1. d \in Nat /\ Len(a) = d + Len(s) /\ \A i \in 1..d : a[i] <= t - l
    BY <1>1 DEF Suffix
  <2> DEFINE lo == d + 1  hi == Len(a) + 1
  <2>2. lo \in Int /\ hi \in Int /\ lo = d + 1 /\ hi = Len(a) + 1
    BY <1>1, <2>1
  <2> HIDE DEF lo, hi, d
  <2>3. B \in SUBSET (lo..hi)
    <3> SUFFICES ASSUME NEW j \in B PROVE j \in lo..hi
      OBVIOUS
    <3>1. j \in 1..(Len(a) + 1) /\ b[j] > t - l
      BY <1>1
    <3>2. CASE j \in 1..d
      <4>1. j \in 1..Len(a) /\ a[j] <= t - l
        BY <1>1, <2>1, <3>2
      <4>2. a[j] \in Nat /\ b[j] = a[j]
        BY <1>1, <4>1, ElementOfSeq
      <4>3. QED
        BY <3>1, <4>1, <4>2
    <3>3. QED
      BY <1>1, <2>1, <2>2, <3>1, <3>2
  <2>4. /\ IsFiniteSet(lo..hi)
        /\ Cardinality(lo..hi) = IF lo > hi THEN 0 ELSE hi - lo + 1
    BY <2>2, FS_Interval
  <2>5. Cardinality(B) <= Cardinality(lo..hi)
    <3> HIDE DEF B
    <3>1. QED
      BY <2>3, <2>4, FS_Subset
  <2>6. Cardinality(lo..hi) = Len(s) + 1
    BY <1>1, <2>1, <2>2, <2>4
  <2>7. IsFiniteSet(B) /\ Cardinality(B) \in Nat
    <3> HIDE DEF B
    <3>1. QED
      BY <2>3, <2>4, FS_Subset, FS_CardinalityType
  <2>8. QED
    BY <1>1, <2>5, <2>6, <2>7
<1>4. \A i \in 1..Len(b) : i \in 1..Len(a) \/ i = Len(a) + 1
  BY <1>1
<1>5. Within(b, l, n)
  BY <1>2, <1>3, <1>4 DEF Within
<1>6. QED
  BY <1>5 DEF b

-----------------------------------------------------------------------------
(* The limits of the windows *)

WindowTypes ==
  /\ clock \in Nat
  /\ now \in [Requests -> Nat]
  /\ latest \in [ApiKeys -> Nat]
  /\ late \subseteq ApiKeys
  /\ admitted \in [ApiKeys -> Seq(Nat)]
  /\ stamps \in [ApiKeys -> [Windows -> Seq(Nat)]]

InTime == /\ \A r \in Requests : now[r] <= clock
          /\ \A k \in ApiKeys : latest[k] <= clock

\* What is true of a key's admissions and of a window's timestamps, as long as the
\* limiter acts on the key in the order of its callers' clock reads.
Recent(k, w) ==
  /\ Suffix(admitted[k], stamps[k][w], latest[k] - Length[w])
  /\ Within(admitted[k], Length[w], Limit[k][w])

KeyOrdered(k) ==
  /\ Sorted(admitted[k])
  /\ \A i \in 1..Len(admitted[k]) : admitted[k][i] <= latest[k]
  /\ \A w \in Limited(k) : Recent(k, w)

WindowsOk == \A k \in ApiKeys \ late : KeyOrdered(k)

WindowInv == WindowTypes /\ InTime /\ WindowsOk

LEMMA InitWindows == Init => WindowInv
<1> SUFFICES ASSUME Init PROVE WindowInv
  OBVIOUS
<1>1. WindowTypes /\ InTime
  BY DEF Init, WindowTypes, InTime
<1>2. ASSUME NEW k \in ApiKeys PROVE KeyOrdered(k)
  <2>1. admitted[k] = <<>> /\ Len(<<>>) = 0 /\ \A w \in Windows : stamps[k][w] = <<>>
    BY <1>2, EmptySeq DEF Init
  <2>2. QED
    BY <2>1 DEF KeyOrdered, Recent, Limited, Suffix, Within, Sorted
<1>3. QED
  BY <1>1, <1>2 DEF WindowInv, WindowsOk

\* What the windows of a key hold after some of them were pruned.
LEMMA PrunedWindowsTypes ==
  ASSUME WindowTypes, NEW k \in ApiKeys, NEW ws \in SUBSET Windows, NEW t \in Nat,
         NEW f \in PrunedWindows(k, ws, t)
  PROVE  /\ f \in [Windows -> Seq(Nat)]
         /\ \A w \in ws : f[w] \in Pruned(stamps[k][w], w, t)
         /\ \A w \in Windows \ ws : f[w] = stamps[k][w]
<1>1. \A w \in Windows : stamps[k][w] \in Seq(Nat)
  BY DEF WindowTypes
<1>2. /\ f \in [Windows -> UNION {{stamps[k][w]} \cup Pruned(stamps[k][w], w, t) : w \in Windows}]
      /\ \A w \in Windows :
           f[w] \in IF w \in ws THEN Pruned(stamps[k][w], w, t) ELSE {stamps[k][w]}
  BY DEF PrunedWindows
<1>3. \A w \in Windows : f[w] \in Seq(Nat)
  BY <1>1, <1>2, PrunedTypes
<1>4. QED
  BY <1>2, <1>3

\* Pruning at an instant that is not before the latest keeps what is recent.
LEMMA PrunedOrdered ==
  ASSUME WindowTypes, NEW k \in ApiKeys, KeyOrdered(k), NEW ws \in SUBSET Windows, NEW t \in Nat,
         latest[k] <= t, NEW f \in PrunedWindows(k, ws, t), Limited(k) \subseteq ws
  PROVE  \A w \in Limited(k) : Suffix(admitted[k], f[w], t - Length[w])
<1> SUFFICES ASSUME NEW w \in Limited(k) PROVE Suffix(admitted[k], f[w], t - Length[w])
  OBVIOUS
<1>1. f[w] \in Pruned(stamps[k][w], w, t) /\ w \in Windows
  BY PrunedWindowsTypes
<1>2. /\ admitted[k] \in Seq(Nat) /\ stamps[k][w] \in Seq(Nat) /\ Sorted(admitted[k])
      /\ Suffix(admitted[k], stamps[k][w], latest[k] - Length[w])
  BY <1>1 DEF WindowTypes, KeyOrdered, Recent
<1> DEFINE c == latest[k] - Length[w]
<1>3. c \in Int /\ c <= t - Length[w]
  <2>1. latest[k] \in Nat /\ Length[w] \in Nat
    BY <1>1, AdmissionAssumption DEF WindowTypes
  <2>2. QED
    BY <2>1
<1>4. Suffix(admitted[k], stamps[k][w], c)
  BY <1>2
<1> HIDE DEF c
<1>5. QED
  BY <1>1, <1>2, <1>3, <1>4, SuffixPruned

\* check, for the key of its request: the windows are pruned at the instant the
\* request read, and either left so or given the new admission.
LEMMA CheckWindows ==
  ASSUME WindowInv, NEW r \in Requests, Check(r)
  PROVE  WindowInv'
<1> DEFINE k == KeyOf[r]  t == now[r]
<1>1. k \in ApiKeys /\ t \in Nat /\ t <= clock
  BY KeyTypes DEF WindowInv, WindowTypes, InTime
<1>2. WindowTypes /\ InTime /\ WindowsOk
  BY DEF WindowInv
<1>3. UNCHANGED <<clock, now>>
  BY DEF Check
<1>4. CASE UNCHANGED <<stamps, admitted, latest, late>>
  BY <1>2, <1>3, <1>4
  DEF WindowInv, WindowTypes, InTime, WindowsOk, KeyOrdered, Recent
<1>5. ASSUME NEW f \in PrunedWindows(k, Limited(k), t),
             latest' = [latest EXCEPT ![k] = IF t > @ THEN t ELSE @],
             late' = (IF t < latest[k] THEN late \cup {k} ELSE late),
             \/ /\ stamps' = [stamps EXCEPT ![k] = f]
                /\ admitted' = admitted
             \/ /\ \A w \in Limited(k) : ~ Len(f[w]) >= Limit[k][w]
                /\ stamps' = [stamps EXCEPT ![k] = [w \in Windows |-> Append(f[w], t)]]
                /\ admitted' = [admitted EXCEPT ![k] = Append(@, t)]
      PROVE  WindowInv'
  <2>1. f \in [Windows -> Seq(Nat)] /\ Limited(k) \subseteq Windows
    BY <1>1, <1>2, PrunedWindowsTypes DEF Limited
  <2>2. latest'[k] = (IF t > latest[k] THEN t ELSE latest[k]) /\ latest'[k] \in Nat
    BY <1>1, <1>2, <1>5 DEF WindowTypes
  <2>3. WindowTypes'
    <3>1. [w \in Windows |-> Append(f[w], t)] \in [Windows -> Seq(Nat)]
      BY <1>1, <2>1, AppendProperties
    <3>2. stamps' \in [ApiKeys -> [Windows -> Seq(Nat)]]
      BY <1>2, <1>5, <2>1, <3>1 DEF WindowTypes
    <3>3. admitted[k] \in Seq(Nat) /\ Append(admitted[k], t) \in Seq(Nat)
      BY <1>1, <1>2, AppendProperties DEF WindowTypes
    <3>4. admitted' \in [ApiKeys -> Seq(Nat)]
      BY <1>1, <1>2, <1>5, <3>3 DEF WindowTypes
    <3>5. QED
      BY <1>1, <1>2, <1>3, <1>5, <2>2, <3>2, <3>4 DEF WindowTypes
  <2>4. InTime'
    BY <1>1, <1>2, <1>3, <1>5, <2>2 DEF InTime, WindowTypes
  <2>5. ASSUME NEW i \in ApiKeys \ late', i # k PROVE KeyOrdered(i)'
    <3>1. i \in ApiKeys \ late /\ stamps'[i] = stamps[i] /\ admitted'[i] = admitted[i]
          /\ latest'[i] = latest[i]
      BY <1>2, <1>5, <2>5 DEF WindowTypes
    <3>2. KeyOrdered(i)
      BY <1>2, <3>1 DEF WindowsOk
    <3>3. QED
      BY <3>1, <3>2 DEF KeyOrdered, Recent
  <2>6. ASSUME k \notin late' PROVE KeyOrdered(k)'
    <3>1. latest[k] <= t /\ latest'[k] = t /\ k \notin late
      BY <1>1, <1>2, <1>5, <2>2, <2>6 DEF WindowTypes
    <3>2. KeyOrdered(k)
      BY <1>1, <1>2, <3>1 DEF WindowsOk
    <3>3. \A w \in Limited(k) : Suffix(admitted[k], f[w], t - Length[w])
      BY <1>1, <1>2, <2>1, <3>1, <3>2, PrunedOrdered
    <3>4. admitted[k] \in Seq(Nat) /\ \A i \in 1..Len(admitted[k]) : admitted[k][i] \in Nat
      BY <1>1, <1>2, ElementOfSeq DEF WindowTypes
    <3>5. CASE stamps' = [stamps EXCEPT ![k] = f] /\ admitted' = admitted
      <4>1. stamps'[k] = f
        BY <1>1, <1>2, <3>5 DEF WindowTypes
      <4>2. \A i \in 1..Len(admitted[k]) : admitted[k][i] <= t
        BY <1>1, <1>2, <3>1, <3>2, <3>4 DEF KeyOrdered, WindowTypes
      <4>3. QED
        BY <3>1, <3>2, <3>3, <3>5, <4>1, <4>2 DEF KeyOrdered, Recent
    <3>6. CASE /\ \A w \in Limited(k) : ~ Len(f[w]) >= Limit[k][w]
               /\ stamps' = [stamps EXCEPT ![k] = [w \in Windows |-> Append(f[w], t)]]
               /\ admitted' = [admitted EXCEPT ![k] = Append(@, t)]
      <4> DEFINE a == admitted[k]
      <4>1. admitted'[k] = Append(a, t) /\ \A w \in Windows : stamps'[k][w] = Append(f[w], t)
        BY <1>1, <1>2, <3>6 DEF WindowTypes
      <4>2. /\ Len(a) \in Nat /\ Len(Append(a, t)) = Len(a) + 1
            /\ \A i \in 1..Len(a) : Append(a, t)[i] = a[i]
            /\ Append(a, t)[Len(a) + 1] = t
        BY <1>1, <3>4, AppendProperties, LenProperties
      <4>3. \A i \in 1..Len(a) : a[i] <= t /\ a[i] \in Nat
        BY <1>1, <1>2, <3>1, <3>2, <3>4 DEF KeyOrdered, WindowTypes
      <4>4. \A i \in 1..Len(Append(a, t)) : i \in 1..Len(a) \/ i = Len(a) + 1
        BY <4>2
      <4>5. \A i \in 1..Len(Append(a, t)) : Append(a, t)[i] <= t
        BY <1>1, <4>2, <4>3, <4>4
      <4>6. Sorted(Append(a, t))
        BY <1>1, <3>2, <4>2, <4>3, <4>4, <4>5 DEF KeyOrdered, Sorted
      <4>7. ASSUME NEW w \in Limited(k)
            PROVE  /\ Suffix(Append(a, t), Append(f[w], t), t - Length[w])
                   /\ Within(Append(a, t), Length[w], Limit[k][w])
        <5>1. /\ w \in Windows /\ f[w] \in Seq(Nat) /\ Length[w] \in Nat /\ Limit[k][w] \in Nat
              /\ Len(f[w]) \in Nat
          BY <1>1, <2>1, LenProperties, AdmissionAssumption
        <5>2. t - Length[w] \in Int /\ Len(f[w]) < Limit[k][w]
          BY <1>1, <3>6, <5>1
        <5>3. Suffix(a, f[w], t - Length[w]) /\ Within(a, Length[w], Limit[k][w])
          BY <3>2, <3>3 DEF KeyOrdered, Recent
        <5>4. QED
          BY <1>1, <3>4, <5>1, <5>2, <5>3, SuffixAppended, WithinAppended
      <4>8. QED
        BY <2>1, <3>1, <4>1, <4>5, <4>6, <4>7 DEF KeyOrdered, Recent
    <3>7. QED
      BY <1>5, <3>5, <3>6
  <2>7. QED
    BY <2>3, <2>4, <2>5, <2>6 DEF WindowInv, WindowsOk
<1>6. QED
  BY <1>4, <1>5 DEF Check

\* The snapshot prunes every window of a key at the present instant.
LEMMA SnapshotWindows ==
  ASSUME WindowInv, NEW k \in ApiKeys, Snapshot(k)
  PROVE  WindowInv'
<1>1. WindowTypes /\ InTime /\ WindowsOk
  BY DEF WindowInv
<1>2. PICK f \in PrunedWindows(k, Windows, clock) : stamps' = [stamps EXCEPT ![k] = f]
  BY DEF Snapshot
<1>3. latest' = [latest EXCEPT ![k] = clock] /\ UNCHANGED <<clock, now, admitted, late>>
  BY DEF Snapshot
<1>4. clock \in Nat /\ latest[k] \in Nat /\ latest[k] <= clock
  BY <1>1 DEF WindowTypes, InTime
<1>5. f \in [Windows -> Seq(Nat)] /\ Limited(k) \subseteq Windows
  BY <1>1, <1>2, <1>4, PrunedWindowsTypes DEF Limited
<1>6. WindowTypes' /\ InTime'
  BY <1>1, <1>2, <1>3, <1>4, <1>5 DEF WindowTypes, InTime
<1>7. ASSUME NEW i \in ApiKeys \ late, i # k PROVE KeyOrdered(i)'
  <2>1. stamps'[i] = stamps[i] /\ admitted'[i] = admitted[i] /\ latest'[i] = latest[i]
    BY <1>1, <1>2, <1>3, <1>7 DEF WindowTypes
  <2>2. KeyOrdered(i)
    BY <1>1, <1>7 DEF WindowsOk
  <2>3. QED
    BY <2>1, <2>2 DEF KeyOrdered, Recent
<1>8. ASSUME k \notin late PROVE KeyOrdered(k)'
  <2>1. KeyOrdered(k)
    BY <1>1, <1>8 DEF WindowsOk
  <2>2. \A w \in Limited(k) : Suffix(admitted[k], f[w], clock - Length[w])
    BY <1>1, <1>2, <1>4, <1>5, <2>1, PrunedOrdered
  <2>3. stamps'[k] = f /\ latest'[k] = clock /\ admitted'[k] = admitted[k]
    BY <1>1, <1>2, <1>3 DEF WindowTypes
  <2>4. admitted[k] \in Seq(Nat) /\ \A i \in 1..Len(admitted[k]) : admitted[k][i] \in Nat
    BY <1>1, ElementOfSeq DEF WindowTypes
  <2>5. \A i \in 1..Len(admitted[k]) : admitted[k][i] <= clock
    BY <1>4, <2>1, <2>4 DEF KeyOrdered
  <2>6. QED
    BY <2>1, <2>2, <2>3, <2>5 DEF KeyOrdered, Recent
<1>9. QED
  BY <1>3, <1>6, <1>7, <1>8 DEF WindowInv, WindowsOk

LEMMA NextWindows == WindowInv /\ [Next]_vars => WindowInv'
<1> SUFFICES ASSUME WindowInv, [Next]_vars PROVE WindowInv'
  OBVIOUS
<1> USE DEF WindowInv, WindowTypes, InTime
<1>1. ASSUME UNCHANGED <<stamps, admitted, latest, late>> PROVE WindowsOk'
  BY <1>1 DEF WindowsOk, KeyOrdered, Recent
<1>2. ASSUME NEW r \in Requests, ReadClock(r) PROVE WindowInv'
  BY <1>1, <1>2 DEF ReadClock, limiterVars, history
<1>3. ASSUME NEW r \in Requests, \/ Verify(r) \/ StartRequest(r) \/ LookupKey(r) \/ PlanRequest(r)
                                 \/ ExpireQueued(r) \/ TakeTask(r) \/ Forward(r) \/ Relay(r)
      PROVE  UNCHANGED <<clock, now, stamps, admitted, latest, late>>
  BY <1>3 DEF Verify, StartRequest, LookupKey, PlanRequest, ExpireQueued, TakeTask, Forward,
              Relay, limiterVars, history
<1>4. ASSUME \/ \E k \in ApiKeys : DeleteKey(k)
             \/ UNCHANGED vars
      PROVE  UNCHANGED <<clock, now, stamps, admitted, latest, late>>
  BY <1>4 DEF DeleteKey, vars, limiterVars, history
<1>5. CASE Tick
  BY <1>1, <1>5, AdmissionAssumption DEF Tick, limiterVars, history
<1>6. QED
  BY <1>1, <1>2, <1>3, <1>4, <1>5, CheckWindows, SnapshotWindows DEF Next, Handle

\* As long as the limiter acts on a key in the order of its callers' clock reads,
\* no interval of a window's length holds more admissions than the limit, whichever
\* match the search of the sorted timestamps finds (WindowLimit).
THEOREM WindowsLimit == Spec => []WindowLimit
<1>1. WindowInv => WindowLimit
  BY DEF WindowInv, WindowsOk, KeyOrdered, Recent, Within, WindowLimit
<1>2. QED
  BY <1>1, InitWindows, NextWindows, PTL DEF Spec
=============================================================================
