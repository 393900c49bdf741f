----------------------------- MODULE Admission ------------------------------
(***************************************************************************)
(* Admission of client requests (servers/proxy/admission.rs) with the rate *)
(* limiter (app/rate_limiter.rs), and the life of the concurrency slot a   *)
(* request reserves: through the planner's outcomes and the queue          *)
(* (servers/proxy/server.rs), to the worker connection that forwards it    *)
(* (handle_poll in servers/worker/server.rs) or the overseer.              *)
(*                                                                         *)
(* Every call of the limiter is one critical section of its mutex.  What   *)
(* happens between two calls is where slots leak and limits are exceeded:  *)
(* the clock is read before check takes the mutex, start_request takes it  *)
(* anew, and the key is looked up once more before the request is planned. *)
(*                                                                         *)
(* A key without state is a key with empty windows and no request in       *)
(* flight, so the cleanup of empty states every 1000 checks is invisible.  *)
(***************************************************************************)
EXTENDS Integers, Sequences, FiniteSets

CONSTANTS
  Requests,       \* client requests, each handled by a thread of its own
  ApiKeys,        \* key ids
  KeyOf,          \* the key each request presents
  Discovery,      \* requests of a discovery route: no limit applies
  MaxConcurrent,  \* key -> RateLimitTier::max_concurrent, 0 for unlimited
  Windows,        \* the sliding windows
  Length,         \* window -> its duration
  Limit,          \* key -> window -> allowed requests, 0 for unlimited
  MaxTime,        \* bound on the clock
  None            \* no key

ASSUME AdmissionAssumption ==
  /\ IsFiniteSet(Requests)
  /\ KeyOf \in [Requests -> ApiKeys]
  /\ Discovery \subseteq Requests
  /\ MaxConcurrent \in [ApiKeys -> Nat]
  /\ Length \in [Windows -> Nat \ {0}]
  /\ Limit \in [ApiKeys -> [Windows -> Nat]]
  /\ MaxTime \in Nat
  /\ None \notin ApiKeys

VARIABLES
  clock,       \* Instant::now()
  concurrent,  \* key -> KeyState::concurrent
  stamps,      \* key -> window -> WindowState::timestamps
  deleted,     \* keys that verify no longer accepts
  stage,       \* request -> where its handling stands
  now,         \* request -> the instant its check read
  keyId,       \* request -> RequestContext::key_id of its task
  cleanup,     \* request -> handle_poll's cleanup_key
  admitted,    \* key -> the instants of its admissions, in order (history)
  reserved,    \* requests that have reserved a slot (history)
  released,    \* requests for which a slot was released (history)
  raced,       \* requests that passed check before an earlier one's
               \* start_request (history)
  latest,      \* key -> the latest instant its windows were pruned at (history)
  late         \* keys with a check at an earlier instant than that (history)

limiterVars == <<concurrent, stamps>>
history     == <<admitted, reserved, released, raced, latest, late>>
vars == <<clock, limiterVars, deleted, stage, now, keyId, cleanup, history>>

Stages == {"new", "verified", "checking", "admitted", "authorized", "planning",
           "queued", "forwarding", "relaying",
           "refused", "limited", "replied", "expired", "failed", "served"}

Of(k, stages) == {r \in Requests : KeyOf[r] = k /\ stage[r] \in stages}

-----------------------------------------------------------------------------
(* The limiter *)

Sorted(s) == \A i, j \in 1..Len(s) : i < j => s[i] <= s[j]

\* slice::binary_search: the position of a match, any of several, or where one
\* would be inserted; unspecified if the slice is not sorted.  The result is
\* how many entries come before it.
BinarySearch(s, t) ==
  IF ~ Sorted(s) THEN 0..Len(s)
  ELSE IF \E i \in 1..Len(s) : s[i] = t THEN {i - 1 : i \in {j \in 1..Len(s) : s[j] = t}}
  ELSE {Cardinality({i \in 1..Len(s) : s[i] < t})}

\* Variants (suffix _Bug...) are wrong on purpose: each shows that a property
\* stated below can fail.  This one drops the cutoff's first successor too.
Pruned_BugOneMore(s, w, t) ==
  {SubSeq(s, n + 2, Len(s)) : n \in BinarySearch(s, t - Length[w])}

\* prune_and_count: what may be left of a window's timestamps at instant t.
Pruned(s, w, t) == {SubSeq(s, n + 1, Len(s)) : n \in BinarySearch(s, t - Length[w])}

Limited(k) == {w \in Windows : Limit[k][w] > 0}

\* The timestamps of key k after the windows in ws are pruned at instant t.
PrunedWindows(k, ws, t) ==
  {f \in [Windows -> UNION {{stamps[k][w]} \cup Pruned(stamps[k][w], w, t) : w \in Windows}] :
     \A w \in Windows :
       f[w] \in IF w \in ws THEN Pruned(stamps[k][w], w, t) ELSE {stamps[k][w]}}

Init ==
  /\ clock = 0
  /\ concurrent = [k \in ApiKeys |-> 0]
  /\ stamps = [k \in ApiKeys |-> [w \in Windows |-> <<>>]]
  /\ deleted = {}
  /\ stage = [r \in Requests |-> "new"]
  /\ now = [r \in Requests |-> 0]
  /\ keyId = [r \in Requests |-> None]
  /\ cleanup = [r \in Requests |-> None]
  /\ admitted = [k \in ApiKeys |-> <<>>]
  /\ reserved = {}
  /\ released = {}
  /\ raced = {}
  /\ latest = [k \in ApiKeys |-> 0]
  /\ late = {}

Goto(r, from, to) == stage[r] = from /\ stage' = [stage EXCEPT ![r] = to]

-----------------------------------------------------------------------------
(* authorize_request *)

\* The key is verified and its role and model rules checked; a discovery route
\* passes without asking the limiter.
Verify(r) ==
  /\ \/ Goto(r, "new", "refused")
     \/ /\ KeyOf[r] \notin deleted
        /\ Goto(r, "new", IF r \in Discovery THEN "authorized" ELSE "verified")
  /\ UNCHANGED <<clock, limiterVars, deleted, now, keyId, cleanup, history>>

\* check: the clock is read before the mutex is taken.
ReadClock(r) ==
  /\ Goto(r, "verified", "checking")
  /\ now' = [now EXCEPT ![r] = clock]
  /\ UNCHANGED <<clock, limiterVars, deleted, keyId, cleanup, history>>

\* Variant: one more than the limit is let in.
AtSlotLimit_BugOffByOne(k) == MaxConcurrent[k] > 0 /\ concurrent[k] > MaxConcurrent[k]
AtSlotLimit(k) == MaxConcurrent[k] > 0 /\ concurrent[k] >= MaxConcurrent[k]

\* check, under the mutex: the slots, then the windows that have a limit; an
\* admission is recorded in every window.
Check(r) ==
  LET k == KeyOf[r] IN
  /\ \/ /\ AtSlotLimit(k)
        /\ Goto(r, "checking", "limited")
        /\ UNCHANGED <<stamps, admitted, raced, latest, late>>
     \/ /\ ~ AtSlotLimit(k)
        /\ latest' = [latest EXCEPT ![k] = IF now[r] > @ THEN now[r] ELSE @]
        /\ late' = IF now[r] < latest[k] THEN late \cup {k} ELSE late
        /\ \E f \in PrunedWindows(k, Limited(k), now[r]) :
             IF \E w \in Limited(k) : Len(f[w]) >= Limit[k][w]
               THEN /\ Goto(r, "checking", "limited")
                    /\ stamps' = [stamps EXCEPT ![k] = f]
                    /\ UNCHANGED <<admitted, raced>>
               ELSE /\ Goto(r, "checking", "admitted")
                    /\ stamps' = [stamps EXCEPT ![k] =
                                    [w \in Windows |-> Append(f[w], now[r])]]
                    /\ admitted' = [admitted EXCEPT ![k] = Append(@, now[r])]
                    /\ raced' = IF Of(k, {"admitted"}) = {} THEN raced
                                                            ELSE raced \cup {r}
  /\ UNCHANGED <<clock, concurrent, deleted, now, keyId, cleanup, reserved,
                 released>>

StartRequest(r) ==
  /\ Goto(r, "admitted", "authorized")
  /\ concurrent' = [concurrent EXCEPT ![KeyOf[r]] = @ + 1]
  /\ reserved' = reserved \cup {r}
  /\ UNCHANGED <<clock, stamps, deleted, now, keyId, cleanup, admitted,
                 released, raced, latest, late>>

-----------------------------------------------------------------------------
(* handle_connection *)

\* The second authorized_key: the task's key is None if it is gone by now.
LookupKey(r) ==
  /\ Goto(r, "authorized", "planning")
  /\ keyId' = [keyId EXCEPT ![r] = IF KeyOf[r] \in deleted THEN None ELSE KeyOf[r]]
  /\ UNCHANGED <<clock, limiterVars, deleted, now, cleanup, history>>

\* plan_request: a local answer or a rejection, or the request is queued; if
\* the stream cannot be cloned or the enqueue fails the thread is done as well.
PlanRequest(r) ==
  /\ Goto(r, "planning", "replied") \/ Goto(r, "planning", "queued")
  /\ UNCHANGED <<clock, limiterVars, deleted, now, keyId, cleanup, history>>

\* The overseer answers a 504.
ExpireQueued(r) ==
  /\ Goto(r, "queued", "expired")
  /\ UNCHANGED <<clock, limiterVars, deleted, now, keyId, cleanup, history>>

-----------------------------------------------------------------------------
(* handle_poll *)

TakeTask(r) ==
  /\ Goto(r, "queued", "forwarding")
  /\ cleanup' = [cleanup EXCEPT ![r] = keyId[r]]
  /\ UNCHANGED <<clock, limiterVars, deleted, now, keyId, history>>

\* Variant: a release that forgets the key's state.
FinishOrContinue_BugForgets(r) ==
  /\ cleanup' = [cleanup EXCEPT ![r] = None]
  /\ IF cleanup[r] = None
       THEN UNCHANGED <<concurrent, released>>
       ELSE /\ concurrent' = [concurrent EXCEPT ![cleanup[r]] = 0]
            /\ released' = released \cup {r}

\* finish_or_continue: cleanup_key.take(), then finish_request.
FinishOrContinue(r) ==
  /\ cleanup' = [cleanup EXCEPT ![r] = None]
  /\ IF cleanup[r] = None
       THEN UNCHANGED <<concurrent, released>>
       ELSE /\ concurrent' = [concurrent EXCEPT ![cleanup[r]] =
                                IF @ > 0 THEN @ - 1 ELSE 0]
            /\ released' = released \cup {r}

\* The request is written to the worker.
Forward(r) ==
  /\ \/ Goto(r, "forwarding", "relaying") /\ UNCHANGED <<concurrent, cleanup, released>>
     \/ Goto(r, "forwarding", "failed") /\ FinishOrContinue(r)
  /\ UNCHANGED <<clock, stamps, deleted, now, keyId, admitted, reserved, raced, latest, late>>

\* The response is relayed, captured or discarded, or that fails.
Relay(r) ==
  /\ Goto(r, "relaying", "served") \/ Goto(r, "relaying", "failed")
  /\ FinishOrContinue(r)
  /\ UNCHANGED <<clock, stamps, deleted, now, keyId, admitted, reserved, raced, latest, late>>

-----------------------------------------------------------------------------
\* The snapshot of the limiter that the me routes report prunes every window.
Snapshot(k) ==
  /\ \E f \in PrunedWindows(k, Windows, clock) : stamps' = [stamps EXCEPT ![k] = f]
  /\ latest' = [latest EXCEPT ![k] = clock]
  /\ UNCHANGED <<clock, concurrent, deleted, stage, now, keyId, cleanup,
                 admitted, reserved, released, raced, late>>

\* An administrator deletes a key: every later verification fails.
DeleteKey(k) ==
  /\ k \notin deleted
  /\ deleted' = deleted \cup {k}
  /\ UNCHANGED <<clock, limiterVars, stage, now, keyId, cleanup, history>>

Tick == /\ clock < MaxTime
        /\ clock' = clock + 1
        /\ UNCHANGED <<limiterVars, deleted, stage, now, keyId, cleanup, history>>

Handle(r) == \/ Verify(r) \/ ReadClock(r) \/ Check(r) \/ StartRequest(r)
             \/ LookupKey(r) \/ PlanRequest(r)
             \/ ExpireQueued(r) \/ TakeTask(r) \/ Forward(r) \/ Relay(r)

Next == \/ \E r \in Requests : Handle(r)
        \/ \E k \in ApiKeys : Snapshot(k) \/ DeleteKey(k)
        \/ Tick

Spec == Init /\ [][Next]_vars

-----------------------------------------------------------------------------
(* Properties *)

\* The slots counted for a key are at most the reservations that nobody has
\* released, and at least the reservations less all releases: a release for a
\* request that reserved nothing (a queued discovery route) can hide a
\* reservation, and nothing else can.  And whichever way handle_poll ends, the slot
\* of a task that carries a key was released, and only then.
Kept(k)     == {r \in reserved \ released : KeyOf[r] = k}
Unearned(k) == {r \in released \ reserved : KeyOf[r] = k}
SlotsAccounted ==
  /\ \A k \in ApiKeys :
       /\ concurrent[k] \in 0..Cardinality(Kept(k))
       /\ concurrent[k] >= Cardinality(Kept(k)) - Cardinality(Unearned(k))
  /\ \A r \in Requests :
       r \in released <=> stage[r] \in {"served", "failed"} /\ keyId[r] # None

\* The race between check and start_request is the only way to exceed
\* max_concurrent: by at most one slot for each request that took part.
OnlyRacesOvershoot ==
  \A k \in ApiKeys : MaxConcurrent[k] > 0 =>
    concurrent[k] + Cardinality(Of(k, {"admitted"}))
      <= MaxConcurrent[k] + Cardinality({r \in raced : KeyOf[r] = k})

\* As long as the limiter acts on a key in the order of its callers' clock
\* reads, no interval of a window's length holds more admissions than the
\* window's limit, whatever the pruning at the interval's edge.
WindowLimit ==
  \A k \in ApiKeys \ late : \A w \in Limited(k) :
    LET a == admitted[k] IN
    \A i \in 1..Len(a) :
      Cardinality({j \in 1..i : a[j] > a[i] - Length[w]}) <= Limit[k][w]

\* What rate_limiter.rs says of KeyState::concurrent: "Current number of
\* in-flight requests for this key".  So it never exceeds the requests that are
\* somewhere between admission and the end of their response.
CountsInFlight ==
  \A k \in ApiKeys :
    concurrent[k] <= Cardinality(Of(k, {"authorized", "planning", "queued",
                                        "forwarding", "relaying"}))
=============================================================================
