--------------------------- MODULE WorkerRegistry ---------------------------
(***************************************************************************)
(* The registry of connected workers (worker_status.rs, AppState::workers) *)
(* with the threads that write it: one per worker connection               *)
(* (servers/worker/server.rs) and the overseer's removal of stale          *)
(* connections (servers/worker/overseer.rs).                               *)
(*                                                                         *)
(* A worker is known by the name of its key, and may hold several          *)
(* connections as long as they carry the same nonce, one per life of the   *)
(* worker's process.  A thread knows its connection by an index into the   *)
(* worker's entry.  The entry goes with its last connection, and with it   *)
(* the counter that indices are drawn from, while threads keep theirs.     *)
(*                                                                         *)
(* Each action is one critical section of the registry's lock, with the    *)
(* I/O next to it.  An entry is present iff it has connections: it is made *)
(* to register one and removed with the last.                              *)
(***************************************************************************)
EXTENDS Naturals, FiniteSets

CONSTANTS
  Threads,   \* connection threads, each for one accepted socket
  Names,     \* worker names
  Nonces,
  NameOf,    \* thread -> the name of the key its node presents
  NonceOf    \* thread -> the nonce its node presents

ASSUME RegistryAssumption ==
  /\ NameOf \in [Threads -> Names]
  /\ NonceOf \in [Threads -> Nonces]

VARIABLES
  conns,    \* name -> WorkerStatus::connections, {} for no entry
  next,     \* name -> next_connection_index, 0 for no entry
  stage,    \* thread -> where it stands
  index,    \* thread -> connection_index
  stale,    \* the overseer's stale_connections, {} while it sleeps
  spared,   \* threads whose connection was not stale when it looked (history)
  failed,   \* threads that ended with handle_poll's or another error (history)
  evicted   \* threads whose connection the overseer removed while they lived
            \* (history)

vars == <<conns, next, stage, index, stale, spared, failed, evicted>>

Stages == {"new", "auth", "ready", "waiting", "working", "gone"}
Phases == {"Authenticating", "Polling", "Working"}

\* How long ago a connection was touched: within the polling timeout, within
\* the working timeout, or longer.  last_ping and last_poll are always set
\* together.  owner, the thread that registered it, is not in the code.
Connections == [index : Nat, nonce : Nonces, phase : Phases, age : 0..2,
                owner : Threads]

Live(t) == stage[t] \in {"auth", "ready", "waiting", "working"}

Init ==
  /\ conns = [n \in Names |-> {}]
  /\ next = [n \in Names |-> 0]
  /\ stage = [t \in Threads |-> "new"]
  /\ index = [t \in Threads |-> 0]
  /\ stale = {}
  /\ spared = {}
  /\ failed = {}
  /\ evicted = {}

Goto(t, from, to) == stage[t] = from /\ stage' = [stage EXCEPT ![t] = to]

-----------------------------------------------------------------------------
(* The registry's operations *)

\* Variants (suffix _Bug...) are wrong on purpose: each shows that a property
\* stated below can fail.  Here only busy connections are asked for the nonce.
AcceptsNonce_BugWorkingOnly(n, nonce) ==
  \A c \in conns[n] : c.phase = "Working" => c.nonce = nonce

AcceptsNonce(n, nonce) == \A c \in conns[n] : c.nonce = nonce

\* register_connection, in an entry made for it if there is none.
RegisterConnection(t) ==
  LET n == NameOf[t] IN
  /\ index' = [index EXCEPT ![t] = next[n]]
  /\ next' = [next EXCEPT ![n] = @ + 1]
  /\ conns' = [conns EXCEPT ![n] = @ \cup
                 {[index |-> next[n], nonce |-> NonceOf[t],
                   phase |-> "Authenticating", age |-> 0, owner |-> t]}]

\* The connections that a thread's name and index find.
Found(t) == {c \in conns[NameOf[t]] : c.index = index[t]}

\* touch_worker: nothing if the connection is not there any more.
TouchWorker(t, phase) ==
  /\ conns' = [conns EXCEPT ![NameOf[t]] =
                 (@ \ Found(t)) \cup
                 {[c EXCEPT !.phase = phase, !.age = 0] : c \in Found(t)}]
  /\ UNCHANGED next

\* Variant: the counter goes down with each removal.
RemoveConnections_BugCountsDown(gone) ==
  /\ conns' = [n \in Names |-> {c \in conns[n] : <<n, c.index>> \notin gone}]
  /\ next' = [n \in Names |-> next[n] - Cardinality({g \in gone : g[1] = n})]

\* remove_connection for every (name, index) of gone; an entry without
\* connections is removed, and its counter starts again from zero.
RemoveConnections(gone) ==
  /\ conns' = [n \in Names |-> {c \in conns[n] : <<n, c.index>> \notin gone}]
  /\ next' = [n \in Names |-> IF conns'[n] = {} THEN 0 ELSE next[n]]

-----------------------------------------------------------------------------
(* A connection's thread: handle_connection *)

\* authenticate_worker refuses: a bad frame, a key that is not a worker's, or
\* the nonce of another life than the connections that are registered.
Refuse(t) ==
  /\ Goto(t, "new", "gone")
  /\ UNCHANGED <<conns, next, index, stale, spared, failed, evicted>>

Authenticate(t) ==
  /\ Goto(t, "new", "auth")
  /\ AcceptsNonce(NameOf[t], NonceOf[t])
  /\ RegisterConnection(t)
  /\ UNCHANGED <<stale, spared, failed, evicted>>

\* An error ends the thread by "?": nothing else happens.
Fail(t) ==
  /\ stage' = [stage EXCEPT ![t] = "gone"]
  /\ failed' = failed \cup {t}

\* The AUTH answer is written and the connection touched, or the write fails.
AnswerAuth(t) ==
  /\ stage[t] = "auth"
  /\ \/ Goto(t, "auth", "ready") /\ TouchWorker(t, "Polling") /\ UNCHANGED failed
     \/ Fail(t) /\ UNCHANGED <<conns, next>>
  /\ UNCHANGED <<index, stale, spared, evicted>>

\* handle_ping, and every frame of an unknown method.
Ping(t) ==
  /\ stage[t] = "ready"
  /\ TouchWorker(t, "Polling")
  /\ UNCHANGED <<stage, index, stale, spared, failed, evicted>>

\* handle_latency: a touch, and an answer whose write may fail.
Latency(t) ==
  /\ stage[t] = "ready"
  /\ TouchWorker(t, "Polling")
  /\ Fail(t) \/ UNCHANGED <<stage, failed>>
  /\ UNCHANGED <<index, stale, spared, evicted>>

\* handle_poll up to next_for_worker.
Poll(t) ==
  /\ Goto(t, "ready", "waiting")
  /\ TouchWorker(t, "Polling")
  /\ UNCHANGED <<index, stale, spared, failed, evicted>>

\* next_for_worker returned a request.
StartWork(t) ==
  /\ Goto(t, "waiting", "working")
  /\ TouchWorker(t, "Working")
  /\ UNCHANGED <<index, stale, spared, failed, evicted>>

\* next_for_worker returned nothing: the PONG is written, or that fails.
Pong(t) ==
  /\ stage[t] = "waiting"
  /\ \/ Goto(t, "waiting", "ready") /\ UNCHANGED failed
     \/ Fail(t)
  /\ UNCHANGED <<conns, next, index, stale, spared, evicted>>

\* The response was relayed, or an error ends the thread.
FinishWork(t) ==
  /\ stage[t] = "working"
  /\ \/ Goto(t, "working", "ready") /\ TouchWorker(t, "Polling") /\ UNCHANGED failed
     \/ Fail(t) /\ UNCHANGED <<conns, next>>
  /\ UNCHANGED <<index, stale, spared, evicted>>

\* Variant: the thread ends and leaves its connection.
Disconnect_BugKeeps(t) ==
  /\ Goto(t, "ready", "gone")
  /\ UNCHANGED <<conns, next, index, stale, spared, failed, evicted>>

\* Variant: the worker's entry goes with whichever connection ends.
Disconnect_BugWholeWorker(t) ==
  /\ Goto(t, "ready", "gone")
  /\ RemoveConnections({<<NameOf[t], c.index>> : c \in conns[NameOf[t]]})
  /\ UNCHANGED <<index, stale, spared, failed, evicted>>

\* The next frame cannot be read: remove_worker.
Disconnect(t) ==
  /\ Goto(t, "ready", "gone")
  /\ RemoveConnections({<<NameOf[t], index[t]>>})
  /\ UNCHANGED <<index, stale, spared, failed, evicted>>

-----------------------------------------------------------------------------
(* The overseer *)

\* Variant: the working timeout is applied to every connection.
IsStale_BugNeverIdle(c) == c.age = 2 /\ c.phase = "Working"
IsStale(c) == c.age >= (IF c.phase = "Working" THEN 2 ELSE 1)

StaleOf(n) == {c \in conns[n] : IsStale(c)}

\* The stale connections are collected under the read lock.
OverseerLook ==
  /\ stale = {}
  /\ stale' = UNION {{<<n, c.index>> : c \in StaleOf(n)} : n \in Names}
  /\ stale' # {}
  /\ spared' = UNION {{c.owner : c \in conns[n] \ StaleOf(n)} : n \in Names}
  /\ UNCHANGED <<conns, next, stage, index, failed, evicted>>

Evicted(gone) ==
  {t \in Threads : Live(t) /\ \E c \in conns[NameOf[t]] :
                                c.owner = t /\ <<NameOf[t], c.index>> \in gone}

\* Variant: a worker goes with its first stale connection.
OverseerRemove_BugWholeWorker ==
  LET gone == {s[1] : s \in stale} \X {c.index : c \in UNION {conns[n] : n \in Names}} IN
  /\ stale # {}
  /\ RemoveConnections(gone)
  /\ evicted' = evicted \cup Evicted(gone)
  /\ stale' = {} /\ spared' = {}
  /\ UNCHANGED <<stage, index, failed>>

\* They are removed under the write lock, without another look at their age.
OverseerRemove ==
  /\ stale # {}
  /\ RemoveConnections(stale)
  /\ evicted' = evicted \cup Evicted(stale)
  /\ stale' = {} /\ spared' = {}
  /\ UNCHANGED <<stage, index, failed>>

-----------------------------------------------------------------------------
\* Time passes without a touch of connection c.
Age(n, c) ==
  /\ c \in conns[n] /\ c.age < 2
  /\ conns' = [conns EXCEPT ![n] = (@ \ {c}) \cup {[c EXCEPT !.age = @ + 1]}]
  /\ UNCHANGED <<next, stage, index, stale, spared, failed, evicted>>

AgeOf(t) == \E c \in conns[NameOf[t]] : c.owner = t /\ Age(NameOf[t], c)

HandleConnection(t) ==
  \/ Refuse(t) \/ Authenticate(t) \/ AnswerAuth(t)
  \/ Ping(t) \/ Latency(t) \/ Poll(t) \/ StartWork(t) \/ Pong(t)
  \/ FinishWork(t) \/ Disconnect(t)

Overseer == OverseerLook \/ OverseerRemove

Next == \/ \E t \in Threads : HandleConnection(t) \/ AgeOf(t)
        \/ Overseer

Spec == Init /\ [][Next]_vars

\* The overseer loops for ever and time passes for a connection that nobody
\* touches.  Nodes may send or not.
Fairness == WF_vars(Overseer) /\ \A t \in Threads : WF_vars(AgeOf(t))

FairSpec == Spec /\ Fairness

-----------------------------------------------------------------------------
(* Properties *)

\* The types of the variables.
TypeOK ==
  /\ conns \in [Names -> SUBSET Connections]
  /\ next \in [Names -> Nat]
  /\ stage \in [Threads -> Stages]
  /\ index \in [Threads -> Nat]
  /\ stale \subseteq Names \X Nat
  /\ spared \subseteq Threads
  /\ failed \subseteq Threads
  /\ evicted \subseteq Threads

Registered(t) == \E c \in conns[NameOf[t]] : c.owner = t /\ c.index = index[t]

\* Two lives of a worker are never registered together, whatever ghosts,
\* evictions and reconnects came before.
OneLife == \A n \in Names : \A c, d \in conns[n] : c.nonce = d.nonce

\* Within an entry an index names one connection, below the counter.
IndexNamesOne ==
  \A n \in Names : \A c, d \in conns[n] :
    /\ c.index < next[n]
    /\ c.index = d.index => c = d

\* As long as the overseer has removed no connection of a live thread, every
\* live thread's index names the connection that it registered itself: no
\* thread touches or removes another's, although counters start again.
AliasNeedsEviction ==
  evicted = {} => \A t \in Threads : Live(t) => Registered(t)

\* A connection whose thread is gone is left by an error exit: a disconnect
\* that the thread noticed leaves none behind, evicted or not.
GhostsFromErrors ==
  \A n \in Names : \A c \in conns[n] : Live(c.owner) \/ c.owner \in failed

\* A connection that was in time when the overseer looked survives the
\* removal, in whatever entry and under whatever index it then is.
SparesTheFresh ==
  [][OverseerRemove => \A t \in spared : Registered(t) => Registered(t)']_vars

\* A connection left behind goes in the end, so that the worker's next life is
\* accepted, unless an evicted thread that draws the same index touches it.
Ghost(t)   == ~ Live(t) /\ Registered(t)
Aliased(t) == \E u \in Threads \ {t} : /\ Live(u) /\ NameOf[u] = NameOf[t]
                                       /\ index[u] = index[t]
GhostsLeave == \A t \in Threads : Ghost(t) ~> ~ Ghost(t) \/ Aliased(t)
=============================================================================
