--------------------------- MODULE UsageTracking ----------------------------
(***************************************************************************)
(* Usage accounting: the event a worker connection sends when a model      *)
(* request is over (handle_poll, worker/server.rs), the channel, the       *)
(* thread that gathers events in batches and the two tables it adds them   *)
(* to (shared/sqlite/usage_tracking.rs).                                   *)
(*                                                                         *)
(* Rows of different models and of different days are apart, so one model  *)
(* and one day are modelled.  Of the figures an event carries, the request *)
(* count stands for all: they are added in the same statements.            *)
(***************************************************************************)
EXTENDS Integers, Sequences, FiniteSets, Functions

CONSTANTS
  Requests,   \* model requests
  KeyOf,      \* request -> its key; None with user_authentication off
  WorkerOf,   \* request -> the worker that serves it
  Keys,       \* key ids
  Workers,    \* worker names
  Names,      \* names of keys
  Anonymous,  \* "Unauthenticated", no key's name
  None,
  Batch,      \* events written at once, 100 in the code
  MaxFaults,  \* bound on failed transactions
  MaxCrashes  \* bound on restarts

ASSUME UsageAssumption ==
  /\ IsFiniteSet(Requests)
  /\ KeyOf \in [Requests -> Keys \cup {None}]
  /\ WorkerOf \in [Requests -> Workers]
  /\ None \notin Keys \cup Names
  /\ Anonymous \notin Names
  /\ Batch \in Nat \ {0}
  /\ MaxFaults \in Nat
  /\ MaxCrashes \in Nat

VARIABLES
  name,      \* key -> its name in the key table
  stage,     \* request -> "new", "admitted", "sent" or "dropped"
  keyName,   \* request -> the name in the record it was admitted with
  channel,   \* stats_tx to stats_rx, requests for their events
  alive,     \* the usage thread has not returned
  pending,   \* its batch
  usage,     \* usage_identity -> the row of usage_tracking
  byWorker,  \* worker -> request_count in worker_usage_tracking
  faults,    \* failed transactions so far (bounded)
  crashes,   \* restarts so far (bounded)
  recorded,  \* requests whose event was committed (history)
  lost       \* requests whose event was sent and will not be (history)

tables == <<usage, byWorker, recorded>>
vars == <<name, stage, keyName, channel, alive, pending, faults, crashes, lost, tables>>

Identities == Keys \cup Names \cup {Anonymous}
NoRow      == [count |-> 0, name |-> None]

EventName(r) == IF KeyOf[r] = None THEN Anonymous ELSE keyName[r]

\* usage_identity
Identity(r) == IF KeyOf[r] = None THEN EventName(r) ELSE KeyOf[r]

Init ==
  /\ name \in {f \in [Keys -> Names] : IsInjective(f)}
  /\ stage = [r \in Requests |-> "new"]
  /\ keyName = [r \in Requests |-> None]
  /\ channel = <<>>
  /\ alive = TRUE
  /\ pending = <<>>
  /\ usage = [i \in Identities |-> NoRow]
  /\ byWorker = [w \in Workers |-> 0]
  /\ faults = 0
  /\ crashes = 0
  /\ recorded = {}
  /\ lost = {}

-----------------------------------------------------------------------------
(* Requests and keys *)

\* A request is admitted with the key's record as it is now.
Admit(r) ==
  /\ stage[r] = "new"
  /\ stage' = [stage EXCEPT ![r] = "admitted"]
  /\ keyName' = [keyName EXCEPT ![r] = IF KeyOf[r] = None THEN None ELSE name[KeyOf[r]]]
  /\ UNCHANGED <<name, channel, alive, pending, tables, faults, crashes, lost>>

\* PATCH /key gives a key a name that no other key has.
Rename(k, n) ==
  /\ n \notin Range(name)
  /\ name' = [name EXCEPT ![k] = n]
  /\ UNCHANGED <<stage, keyName, channel, alive, pending, tables, faults, crashes, lost>>

\* The response has been relayed: the event is sent, and a send to a thread that
\* has returned is an error nobody looks at.
Finish(r) ==
  /\ stage[r] = "admitted"
  /\ stage' = [stage EXCEPT ![r] = "sent"]
  /\ IF alive
     THEN channel' = Append(channel, r) /\ UNCHANGED lost
     ELSE lost' = lost \cup {r} /\ UNCHANGED channel
  /\ UNCHANGED <<name, keyName, alive, pending, tables, faults, crashes>>

\* The relay failed: handle_poll returns before the event.
Fail(r) ==
  /\ stage[r] = "admitted"
  /\ stage' = [stage EXCEPT ![r] = "dropped"]
  /\ UNCHANGED <<name, keyName, channel, alive, pending, tables, faults, crashes, lost>>

-----------------------------------------------------------------------------
(* run_usage_tracking_worker *)

EventsOf(batch, i) == {x \in 1..Len(batch) : Identity(batch[x]) = i}

\* The two upserts of every event, in one transaction: counts are added, the
\* key's name is that of the last event.
Upsert(batch) ==
  /\ usage' = [i \in Identities |->
       IF EventsOf(batch, i) = {} THEN usage[i]
       ELSE [count |-> usage[i].count + Cardinality(EventsOf(batch, i)),
             name  |-> LET last == CHOOSE x \in EventsOf(batch, i) :
                                     \A y \in EventsOf(batch, i) : y <= x
                       IN EventName(batch[last])]]
  /\ byWorker' = [w \in Workers |->
       byWorker[w] + Cardinality({x \in 1..Len(batch) : WorkerOf[batch[x]] = w})]
  /\ recorded' = recorded \cup Range(batch)

\* Variants (suffix _Bug...) are wrong on purpose: each shows that a property
\* stated below can fail.  This one does not clear the batch.
InsertBatch_BugKeepsBatch(batch, rest) ==
  /\ Upsert(batch)
  /\ pending' = batch
  /\ channel' = rest
  /\ UNCHANGED <<alive, faults, lost>>

\* Keeps a batch whose transaction failed although it was written.
InsertBatch_BugRetriesHalf(batch, rest) ==
  \/ /\ Upsert(batch)
     /\ pending' = <<>>
     /\ channel' = rest
     /\ UNCHANGED <<alive, faults, lost>>
  \/ /\ faults < MaxFaults
     /\ faults' = faults + 1
     /\ Upsert(batch)
     /\ pending' = batch
     /\ channel' = rest
     /\ UNCHANGED <<alive, lost>>

\* insert_batch commits, and the batch is cleared; or it fails and leaves the
\* tables as they were, and the thread returns with its batch and its channel.
InsertBatch(batch, rest) ==
  \/ /\ Upsert(batch)
     /\ pending' = <<>>
     /\ channel' = rest
     /\ UNCHANGED <<alive, faults, lost>>
  \/ /\ faults < MaxFaults
     /\ faults' = faults + 1
     /\ alive' = FALSE
     /\ pending' = <<>>
     /\ channel' = <<>>
     /\ lost' = lost \cup Range(batch) \cup Range(rest)
     /\ UNCHANGED tables

Receive(batch) ==
  IF Len(batch) >= Batch
  THEN InsertBatch(batch, Tail(channel))
  ELSE /\ pending' = batch
       /\ channel' = Tail(channel)
       /\ UNCHANGED <<alive, faults, lost, tables>>

Recv ==
  /\ alive
  /\ channel # <<>>
  /\ Receive(Append(pending, Head(channel)))
  /\ UNCHANGED <<name, stage, keyName, crashes>>

TimesOut_BugFullOnly ==
  /\ alive
  /\ channel = <<>>
  /\ Len(pending) >= Batch
  /\ InsertBatch(pending, <<>>)
  /\ UNCHANGED <<name, stage, keyName, crashes>>

\* A second without an event: what has been gathered is written.
TimesOut ==
  /\ alive
  /\ channel = <<>>
  /\ pending # <<>>
  /\ InsertBatch(pending, <<>>)
  /\ UNCHANGED <<name, stage, keyName, crashes>>

\* The process stops and starts again; a transaction in progress is rolled back.
\* The channel never closes before that: the servers hold its sender.
Restart ==
  /\ crashes < MaxCrashes
  /\ crashes' = crashes + 1
  /\ stage' = [r \in Requests |-> IF stage[r] = "admitted" THEN "dropped" ELSE stage[r]]
  /\ lost' = lost \cup Range(pending) \cup Range(channel)
  /\ pending' = <<>>
  /\ channel' = <<>>
  /\ alive' = TRUE
  /\ UNCHANGED <<name, keyName, tables, faults>>

-----------------------------------------------------------------------------
(* usage_for_key *)

\* The rows with the key's id, and those with the name it has now.
UsageForKey(k) == {i \in Identities : (i = k \/ usage[i].name = name[k]) /\ usage[i].count > 0}

Next ==
  \/ \E r \in Requests : Admit(r) \/ Finish(r) \/ Fail(r)
  \/ \E k \in Keys, n \in Names : Rename(k, n)
  \/ Recv \/ TimesOut \/ Restart

Spec == Init /\ [][Next]_vars

\* The usage thread goes on: recv_timeout returns.
FairSpec == Spec /\ WF_vars(Recv) /\ WF_vars(TimesOut)

-----------------------------------------------------------------------------
(* Properties *)

\* Types; a batch stays below its limit between two events, and a thread that
\* has returned holds nothing.
TypeOK ==
  /\ name \in [Keys -> Names]
  /\ stage \in [Requests -> {"new", "admitted", "sent", "dropped"}]
  /\ keyName \in [Requests -> Names \cup {None}]
  /\ channel \in Seq(Requests)
  /\ alive \in BOOLEAN
  /\ pending \in Seq(Requests)
  /\ usage \in [Identities -> [count : Nat, name : Names \cup {Anonymous, None}]]
  /\ byWorker \in [Workers -> Nat]
  /\ faults \in 0..MaxFaults
  /\ crashes \in 0..MaxCrashes
  /\ recorded \subseteq Requests
  /\ lost \subseteq Requests
  /\ Len(pending) < Batch
  /\ ~ alive => channel = <<>> /\ pending = <<>>

\* The event of every finished request is in one place: the channel, the batch,
\* the tables or lost; and both tables count each recorded event once, under
\* whatever names its key had and however batches were cut, failed or were
\* abandoned by a crash.  usage_for_key finds them all, although the key has been
\* renamed and its last event may carry an older name than the one before.
EachCountedOnce ==
  /\ \A r \in Requests :
       LET places == <<r \in Range(channel), r \in Range(pending), r \in recorded, r \in lost>>
       IN Cardinality({x \in DOMAIN places : places[x]}) = IF stage[r] = "sent" THEN 1 ELSE 0
  /\ lost # {} => faults + crashes > 0
  /\ \A i \in Identities : usage[i].count = Cardinality({r \in recorded : Identity(r) = i})
  /\ \A w \in Workers : byWorker[w] = Cardinality({r \in recorded : WorkerOf[r] = w})
  /\ \A r \in recorded : KeyOf[r] # None => Identity(r) \in UsageForKey(KeyOf[r])

\* Every event that is sent is recorded, unless a transaction failed or the
\* process stopped: a batch that never fills is written too.
SentIsRecorded ==
  \A r \in Requests : stage[r] = "sent" ~> r \in recorded \cup lost
=============================================================================
