------------------------ MODULE WorkerRegistryProofs ------------------------
(* Proofs about the worker registry, for any number of threads, workers and *)
(* nonces.                                                                  *)
EXTENDS WorkerRegistry, TLAPS

(***************************************************************************)
(* What the entries and the threads that registered them agree on, and     *)
(* what the overseer may rely on between its look and its removal.         *)
(***************************************************************************)
OwnersOk ==
  \A n \in Names : \A c \in conns[n] :
    /\ NameOf[c.owner] = n
    /\ NonceOf[c.owner] = c.nonce
    /\ index[c.owner] = c.index
    /\ stage[c.owner] # "new"

LookOk ==
  \A t \in spared : stage[t] # "new" /\ <<NameOf[t], index[t]>> \notin stale

Shape == TypeOK /\ OwnersOk /\ OneLife /\ IndexNamesOne

-----------------------------------------------------------------------------
(* The registry's operations keep the shape of an entry *)

\* What an operation on the entries may do: a record of the new entry is one
\* of the old entry with another phase and age.
SameButAge(c, d) == /\ c.index = d.index /\ c.nonce = d.nonce /\ c.owner = d.owner

Restrained ==
  /\ conns' \in [Names -> SUBSET Connections]
  /\ next' \in [Names -> Nat]
  /\ \A n \in Names : \A c \in conns'[n] : \E d \in conns[n] : SameButAge(c, d)
  /\ \A n \in Names : \A c, d \in conns'[n] : c.index = d.index => c = d
  /\ \A n \in Names : conns'[n] # {} => next'[n] = next[n]

\* What a touch makes of a connection.
Touched(c, p) == [c EXCEPT !.phase = p, !.age = 0]

LEMMA TouchedConnection ==
  ASSUME NEW c \in Connections, NEW p \in Phases
  PROVE  Touched(c, p) \in Connections /\ SameButAge(Touched(c, p), c)
<1> DEFINE d == [c EXCEPT !.phase = p]
<1>1. d \in Connections
  BY DEF Connections
<1>2. [d EXCEPT !.age = 0] \in Connections
  <2> HIDE DEF d
  <2>1. QED
    BY <1>1 DEF Connections
<1>3. Touched(c, p) = [d EXCEPT !.age = 0]
  BY DEF Touched, Connections
<1>4. SameButAge(Touched(c, p), c)
  BY DEF Touched, Connections, SameButAge
<1>5. QED
  BY <1>2, <1>3, <1>4

LEMMA TouchRestrained ==
  ASSUME Shape, NEW t \in Threads, NEW p \in Phases, TouchWorker(t, p)
  PROVE  /\ Restrained
         /\ \A n \in Names : \A d \in conns[n] : \E c \in conns'[n] : SameButAge(c, d)
<1> DEFINE m == NameOf[t]
<1>1. m \in Names /\ Found(t) \subseteq conns[m]
  BY RegistryAssumption DEF Found
<1>2. conns \in [Names -> SUBSET Connections] /\ next \in [Names -> Nat]
  BY DEF Shape, TypeOK
<1>3. \A c \in Found(t) : Touched(c, p) \in Connections /\ SameButAge(Touched(c, p), c)
  BY <1>1, <1>2, TouchedConnection
<1>4. /\ conns' = [conns EXCEPT ![m] = (@ \ Found(t)) \cup {Touched(c, p) : c \in Found(t)}]
      /\ next' = next
  BY DEF TouchWorker, Touched
<1>5. /\ conns'[m] = (conns[m] \ Found(t)) \cup {Touched(c, p) : c \in Found(t)}
      /\ \A n \in Names \ {m} : conns'[n] = conns[n]
  BY <1>1, <1>2, <1>4
<1>6. conns' \in [Names -> SUBSET Connections]
  BY <1>1, <1>2, <1>3, <1>4
<1>7. \A n \in Names : \A c, d \in conns[n] : c.index = d.index => c = d
  BY DEF Shape, IndexNamesOne
<1>8. \A c \in conns'[m] : \/ c \in conns[m] \ Found(t)
                            \/ \E d \in Found(t) : c = Touched(d, p)
  BY <1>5
<1>9. \A n \in Names : \A c \in conns'[n] : \E d \in conns[n] : SameButAge(c, d)
  <2> SUFFICES ASSUME NEW n \in Names, NEW c \in conns'[n]
               PROVE  \E d \in conns[n] : SameButAge(c, d)
    OBVIOUS
  <2>1. CASE c \in conns[n]
    BY <2>1 DEF SameButAge
  <2>2. CASE n = m /\ \E d \in Found(t) : c = Touched(d, p)
    BY <1>1, <1>3, <2>2
  <2>3. QED
    BY <1>5, <1>8, <2>1, <2>2
<1>10. \A n \in Names : \A d \in conns[n] : \E c \in conns'[n] : SameButAge(c, d)
  <2> SUFFICES ASSUME NEW n \in Names, NEW d \in conns[n]
               PROVE  \E c \in conns'[n] : SameButAge(c, d)
    OBVIOUS
  <2>1. CASE n = m /\ d \in Found(t)
    BY <1>3, <1>5, <2>1
  <2>2. CASE ~ (n = m /\ d \in Found(t))
    <3>1. d \in conns'[n]
      BY <1>5, <2>2
    <3>2. QED
      BY <3>1 DEF SameButAge
  <2>3. QED
    BY <2>1, <2>2
<1>11. \A n \in Names : \A c, d \in conns'[n] : c.index = d.index => c = d
  <2> SUFFICES ASSUME NEW n \in Names, NEW c \in conns'[n], NEW d \in conns'[n],
                      c.index = d.index
               PROVE  c = d
    OBVIOUS
  <2>1. CASE n # m
    BY <1>5, <1>7, <2>1
  <2>2. CASE n = m
    <3>1. \A x \in Found(t) : x.index = index[t] /\ Touched(x, p).index = index[t]
      BY <1>3 DEF Found, SameButAge
    <3>2. \A x \in conns[m] \ Found(t) : x.index # index[t]
      BY DEF Found
    <3>3. \A x, y \in Found(t) : x = y
      BY <1>1, <1>7, <3>1
    <3>4. CASE c.index = index[t]
      <4>1. PICK x \in Found(t) : c = Touched(x, p)
        BY <1>8, <2>2, <3>2, <3>4
      <4>2. PICK y \in Found(t) : d = Touched(y, p)
        BY <1>8, <2>2, <3>2, <3>4
      <4>3. QED
        BY <3>3, <4>1, <4>2
    <3>5. CASE c.index # index[t]
      <4>1. c \in conns[m] /\ d \in conns[m]
        BY <1>8, <2>2, <3>1, <3>5
      <4>2. QED
        BY <1>1, <1>7, <4>1
    <3>6. QED
      BY <3>4, <3>5
  <2>3. QED
    BY <2>1, <2>2
<1>12. QED
  BY <1>2, <1>4, <1>6, <1>9, <1>10, <1>11 DEF Restrained

LEMMA RemoveRestrained ==
  ASSUME Shape, NEW gone, RemoveConnections(gone)
  PROVE  /\ Restrained
         /\ \A n \in Names : \A c \in conns[n] :
              <<n, c.index>> \notin gone => c \in conns'[n]
<1>1. conns \in [Names -> SUBSET Connections] /\ next \in [Names -> Nat]
  BY DEF Shape, TypeOK
<1>2. \A n \in Names : conns'[n] = {c \in conns[n] : <<n, c.index>> \notin gone}
  BY DEF RemoveConnections
<1>3. conns' \in [Names -> SUBSET Connections]
  BY <1>1 DEF RemoveConnections
<1>4. next' \in [Names -> Nat] /\ \A n \in Names : conns'[n] # {} => next'[n] = next[n]
  BY <1>1 DEF RemoveConnections
<1>5. \A n \in Names : \A c, d \in conns'[n] : c.index = d.index => c = d
  BY <1>2 DEF Shape, IndexNamesOne
<1>6. QED
  BY <1>2, <1>3, <1>4, <1>5 DEF Restrained, SameButAge

LEMMA AgeRestrained ==
  ASSUME Shape, NEW t \in Threads, AgeOf(t)
  PROVE  /\ Restrained
         /\ \A n \in Names : \A d \in conns[n] : \E c \in conns'[n] : SameButAge(c, d)
<1>1. PICK c \in conns[NameOf[t]] : Age(NameOf[t], c)
  BY DEF AgeOf
<1> DEFINE m == NameOf[t]
           older == [c EXCEPT !.age = @ + 1]
<1>2. m \in Names /\ conns \in [Names -> SUBSET Connections] /\ next \in [Names -> Nat]
  BY RegistryAssumption DEF Shape, TypeOK
<1>3. c \in Connections /\ c.age \in 0..2 /\ c.age < 2
  BY <1>1, <1>2 DEF Age, Connections
<1>4. older \in Connections /\ SameButAge(older, c)
  BY <1>3 DEF Connections, SameButAge
<1>5. /\ conns' = [conns EXCEPT ![m] = (@ \ {c}) \cup {older}]
      /\ next' = next
  BY <1>1 DEF Age
<1>6. /\ conns'[m] = (conns[m] \ {c}) \cup {older}
      /\ \A n \in Names \ {m} : conns'[n] = conns[n]
  BY <1>2, <1>5
<1>7. conns' \in [Names -> SUBSET Connections]
  BY <1>2, <1>4, <1>5
<1> HIDE DEF older
<1>8. \A n \in Names : \A x, y \in conns'[n] : x.index = y.index => x = y
  <2> SUFFICES ASSUME NEW n \in Names, NEW x \in conns'[n], NEW y \in conns'[n],
                      x.index = y.index
               PROVE  x = y
    OBVIOUS
  <2>1. \A v, w \in conns[n] : v.index = w.index => v = w
    BY DEF Shape, IndexNamesOne
  <2>2. CASE n = m
    <3>1. \A v \in conns[n] \ {c} : v.index # older.index
      BY <1>1, <1>4, <2>1, <2>2 DEF SameButAge
    <3>2. x \in conns[m] \ {c} \/ x = older
      BY <1>6, <2>2
    <3>3. y \in conns[m] \ {c} \/ y = older
      BY <1>6, <2>2
    <3>4. QED
      BY <2>1, <2>2, <3>1, <3>2, <3>3
  <2>3. CASE n # m
    BY <1>6, <2>1, <2>3
  <2>4. QED
    BY <2>2, <2>3
<1>9. /\ \A n \in Names : \A x \in conns'[n] : \E d \in conns[n] : SameButAge(x, d)
      /\ \A n \in Names : \A d \in conns[n] : \E x \in conns'[n] : SameButAge(x, d)
  BY <1>1, <1>4, <1>6 DEF SameButAge
<1>10. QED
  BY <1>2, <1>5, <1>7, <1>8, <1>9 DEF Restrained

\* A step that only restrains the entries and moves threads that are not new
\* keeps the shape.
LEMMA RestrainedKeepsShape ==
  ASSUME Shape, Restrained, index' = index, stale' \subseteq Names \X Nat,
         stage' \in [Threads -> Stages], spared' \subseteq Threads,
         failed' \subseteq Threads, evicted' \subseteq Threads,
         \A t \in Threads : stage[t] # "new" => stage'[t] # "new"
  PROVE  Shape'
<1>1. TypeOK'
  BY DEF Shape, Restrained, TypeOK
<1>2. conns' \in [Names -> SUBSET Connections] /\ conns \in [Names -> SUBSET Connections]
  BY DEF Shape, Restrained, TypeOK
<1>3. \A n \in Names : \A c \in conns'[n] : \E d \in conns[n] :
        SameButAge(c, d) /\ c.owner \in Threads
  BY <1>2 DEF Restrained, Connections
<1>4. OwnersOk'
  BY <1>3 DEF Shape, OwnersOk, SameButAge
<1>5. OneLife'
  BY <1>3 DEF Shape, OneLife, SameButAge
<1>6. IndexNamesOne'
  <2>1. \A n \in Names : \A c \in conns'[n] : c.index < next'[n]
    <3> SUFFICES ASSUME NEW n \in Names, NEW c \in conns'[n] PROVE c.index < next'[n]
      OBVIOUS
    <3>1. PICK d \in conns[n] : SameButAge(c, d)
      BY <1>3
    <3>2. d.index < next[n] /\ next'[n] = next[n]
      BY DEF Shape, IndexNamesOne, Restrained
    <3>3. QED
      BY <3>1, <3>2 DEF SameButAge
  <2>2. QED
    BY <2>1 DEF IndexNamesOne, Restrained
<1>7. QED
  BY <1>1, <1>4, <1>5, <1>6 DEF Shape

-----------------------------------------------------------------------------
(* The steps that leave the set of registrations alone *)

\* Every connection is still there, but for its phase and age.
Kept == \A n \in Names : \A d \in conns[n] : \E c \in conns'[n] : SameButAge(c, d)

\* Such a step may move threads on, and end them by errors only.
Quiet ==
  /\ Restrained /\ Kept
  /\ UNCHANGED <<index, stale, spared, evicted>>
  /\ stage' \in [Threads -> Stages]
  /\ failed \subseteq failed' /\ failed' \subseteq Threads
  /\ \A u \in Threads : /\ stage[u] # "new" => stage'[u] # "new"
                        /\ Live(u)' => Live(u)
                        /\ Live(u) => Live(u)' \/ u \in failed'

LEMMA SameEntriesRestrained ==
  ASSUME Shape, UNCHANGED <<conns, next>>
  PROVE  Restrained /\ Kept
BY DEF Shape, TypeOK, IndexNamesOne, Restrained, Kept, SameButAge

\* What a live thread's move to another stage does to every thread.
LEMMA GotoStages ==
  ASSUME Shape, NEW t \in Threads, NEW from \in Stages \ {"new", "gone"},
         NEW to \in Stages \ {"new", "gone"}, Goto(t, from, to)
  PROVE  /\ stage' \in [Threads -> Stages]
         /\ \A u \in Threads : /\ stage[u] # "new" => stage'[u] # "new"
                               /\ Live(u)' => Live(u)
                               /\ Live(u) => Live(u)'
<1>1. stage \in [Threads -> Stages]
  BY DEF Shape, TypeOK
<1>2. stage' \in [Threads -> Stages]
  BY <1>1 DEF Goto
<1>3. stage[t] = from /\ stage'[t] = to /\ \A u \in Threads \ {t} : stage'[u] = stage[u]
  BY <1>1 DEF Goto
<1>4. Live(t) => Live(t)'
  BY <1>3 DEF Live, Stages
<1>5. Live(t)' => Live(t)
  BY <1>3 DEF Live, Stages
<1>6. QED
  BY <1>2, <1>3, <1>4, <1>5 DEF Live

LEMMA FailStages ==
  ASSUME Shape, NEW t \in Threads, Fail(t)
  PROVE  /\ stage' \in [Threads -> Stages]
         /\ failed \subseteq failed' /\ failed' \subseteq Threads
         /\ \A u \in Threads : /\ stage[u] # "new" => stage'[u] # "new"
                               /\ Live(u)' => Live(u)
                               /\ Live(u) => Live(u)' \/ u \in failed'
<1>1. stage \in [Threads -> Stages] /\ failed \subseteq Threads
  BY DEF Shape, TypeOK
<1>2. stage' \in [Threads -> Stages]
  BY <1>1 DEF Fail, Stages
<1>3. stage'[t] = "gone" /\ \A u \in Threads \ {t} : stage'[u] = stage[u]
  BY <1>1 DEF Fail
<1>4. t \in failed' /\ failed \subseteq failed' /\ failed' \subseteq Threads
  BY <1>1 DEF Fail
<1>5. QED
  BY <1>2, <1>3, <1>4 DEF Live

LEMMA RefuseQuiet ==
  ASSUME Shape, NEW t \in Threads, Refuse(t)
  PROVE  Quiet
<1>1. Restrained /\ Kept
  BY SameEntriesRestrained DEF Refuse
<1>2. UNCHANGED <<index, stale, spared, evicted, failed>> /\ Goto(t, "new", "gone")
  BY DEF Refuse
<1>3. stage \in [Threads -> Stages] /\ failed \subseteq Threads
  BY DEF Shape, TypeOK
<1>4. stage' \in [Threads -> Stages] /\ stage[t] = "new" /\ stage'[t] = "gone"
  BY <1>2, <1>3 DEF Goto, Stages
<1>5. \A u \in Threads \ {t} : stage'[u] = stage[u]
  BY <1>2, <1>3 DEF Goto
<1>6. \A u \in Threads : (stage[u] # "new" => stage'[u] # "new") /\ (Live(u)' <=> Live(u))
  BY <1>4, <1>5 DEF Live
<1>7. QED
  BY <1>1, <1>2, <1>3, <1>4, <1>6 DEF Quiet

\* Steps without a change of stage.
LEMMA PingQuiet ==
  ASSUME Shape, NEW t \in Threads, Ping(t)
  PROVE  Quiet
<1>1. Restrained /\ Kept
  BY TouchRestrained DEF Ping, Kept, Phases
<1>2. QED
  BY <1>1 DEF Quiet, Ping, Shape, TypeOK, Live

LEMMA AgeQuiet ==
  ASSUME Shape, NEW t \in Threads, AgeOf(t)
  PROVE  Quiet
<1>1. Restrained /\ Kept
  BY AgeRestrained DEF Kept
<1>2. UNCHANGED <<next, stage, index, stale, spared, failed, evicted>>
  BY DEF AgeOf, Age
<1>3. QED
  BY <1>1, <1>2 DEF Quiet, Shape, TypeOK, Live

LEMMA LatencyQuiet ==
  ASSUME Shape, NEW t \in Threads, Latency(t)
  PROVE  Quiet
<1>1. Restrained /\ Kept
  BY TouchRestrained DEF Latency, Kept, Phases
<1>2. CASE Fail(t)
  BY <1>1, <1>2, FailStages DEF Quiet, Latency
<1>3. CASE UNCHANGED <<stage, failed>>
  BY <1>1, <1>3 DEF Quiet, Latency, Shape, TypeOK, Live
<1>4. QED
  BY <1>2, <1>3 DEF Latency

\* Steps that move a thread on, and may fail.
LEMMA MoveQuiet ==
  ASSUME Shape, NEW t \in Threads,
         AnswerAuth(t) \/ Poll(t) \/ StartWork(t) \/ Pong(t) \/ FinishWork(t)
  PROVE  Quiet
<1>1. UNCHANGED <<index, stale, spared, evicted>>
  BY DEF AnswerAuth, Poll, StartWork, Pong, FinishWork
<1>2. \/ /\ \E from, to \in Stages \ {"new", "gone"} : Goto(t, from, to)
         /\ UNCHANGED failed
      \/ Fail(t)
  BY DEF AnswerAuth, Poll, StartWork, Pong, FinishWork, Stages
<1>3. \/ \E p \in Phases : TouchWorker(t, p)
      \/ UNCHANGED <<conns, next>>
  BY DEF AnswerAuth, Poll, StartWork, Pong, FinishWork, Phases
<1>4. Restrained /\ Kept
  BY <1>3, TouchRestrained, SameEntriesRestrained DEF Kept
<1>5. CASE Fail(t)
  BY <1>1, <1>4, <1>5, FailStages DEF Quiet
<1>6. CASE UNCHANGED failed /\ \E from, to \in Stages \ {"new", "gone"} : Goto(t, from, to)
  <2>1. failed \subseteq failed' /\ failed' \subseteq Threads
    BY <1>6 DEF Shape, TypeOK
  <2>2. QED
    BY <1>1, <1>4, <1>6, <2>1, GotoStages DEF Quiet
<1>7. QED
  BY <1>2, <1>5, <1>6

LEMMA StutterQuiet ==
  ASSUME Shape, UNCHANGED vars
  PROVE  Quiet
<1>1. Restrained /\ Kept
  BY SameEntriesRestrained DEF vars
<1>2. QED
  BY <1>1 DEF Quiet, Shape, TypeOK, vars, Live

-----------------------------------------------------------------------------
(* The inductive invariant *)

IInv == Shape /\ LookOk /\ GhostsFromErrors /\ AliasNeedsEviction

LEMMA QuietKeepsInv ==
  ASSUME IInv, Quiet
  PROVE  IInv'
<1>1. Shape'
  BY RestrainedKeepsShape DEF IInv, Shape, TypeOK, Quiet
<1>2. LookOk'
  BY DEF IInv, Shape, TypeOK, LookOk, Quiet
<1>3. conns \in [Names -> SUBSET Connections] /\ conns' \in [Names -> SUBSET Connections]
  BY DEF IInv, Shape, TypeOK, Quiet, Restrained
<1>4. GhostsFromErrors'
  <2> SUFFICES ASSUME NEW n \in Names, NEW c \in conns'[n]
               PROVE  Live(c.owner)' \/ c.owner \in failed'
    BY DEF GhostsFromErrors, Live
  <2>1. PICK d \in conns[n] : SameButAge(c, d)
    BY DEF Quiet, Restrained
  <2>2. d.owner \in Threads /\ c.owner = d.owner
    BY <1>3, <2>1 DEF Connections, SameButAge
  <2>3. Live(d.owner) \/ d.owner \in failed
    BY DEF IInv, GhostsFromErrors
  <2>4. QED
    BY <2>2, <2>3 DEF Quiet
<1>5. AliasNeedsEviction'
  <2> SUFFICES ASSUME evicted' = {}, NEW u \in Threads, Live(u)'
               PROVE  Registered(u)'
    BY DEF AliasNeedsEviction
  <2>1. Live(u) /\ evicted = {}
    BY DEF Quiet
  <2>2. Registered(u)
    BY <2>1 DEF IInv, AliasNeedsEviction
  <2>3. PICK d \in conns[NameOf[u]] : d.owner = u /\ d.index = index[u]
    BY <2>2 DEF Registered
  <2>4. NameOf[u] \in Names
    BY RegistryAssumption
  <2>5. PICK c \in conns'[NameOf[u]] : SameButAge(c, d)
    BY <2>4 DEF Quiet, Kept
  <2>6. QED
    BY <2>3, <2>5 DEF Registered, SameButAge, Quiet
<1>6. QED
  BY <1>1, <1>2, <1>4, <1>5 DEF IInv

LEMMA InitInv == Init => IInv
<1> SUFFICES ASSUME Init PROVE IInv
  OBVIOUS
<1>1. TypeOK
  BY DEF Init, TypeOK, Stages
<1>2. \A n \in Names : conns[n] = {}
  BY DEF Init
<1>3. OwnersOk /\ OneLife /\ IndexNamesOne /\ GhostsFromErrors
  BY <1>2 DEF OwnersOk, OneLife, IndexNamesOne, GhostsFromErrors
<1>4. LookOk /\ AliasNeedsEviction
  BY DEF Init, LookOk, AliasNeedsEviction, Live
<1>5. QED
  BY <1>1, <1>3, <1>4 DEF IInv, Shape

\* A new thread owns no connection, and its own gets the next index.
LEMMA AuthenticateKeepsInv ==
  ASSUME IInv, NEW t \in Threads, Authenticate(t)
  PROVE  IInv'
<1> DEFINE m == NameOf[t]
           fresh == [index |-> next[m], nonce |-> NonceOf[t],
                     phase |-> "Authenticating", age |-> 0, owner |-> t]
<1>1. m \in Names /\ NonceOf[t] \in Nonces
  BY RegistryAssumption
<1>2. TypeOK
  BY DEF IInv, Shape
<1>3. fresh \in Connections
  <2>1. next[m] \in Nat /\ 0 \in 0..2 /\ "Authenticating" \in Phases
    BY <1>1, <1>2 DEF TypeOK, Phases
  <2>2. QED
    BY <1>1, <2>1 DEF Connections
<1>4. /\ fresh.index = next[m] /\ fresh.nonce = NonceOf[t] /\ fresh.owner = t
      /\ conns' = [conns EXCEPT ![m] = @ \cup {fresh}]
      /\ index' = [index EXCEPT ![t] = next[m]]
      /\ next' = [next EXCEPT ![m] = @ + 1]
      /\ UNCHANGED <<stale, spared, failed, evicted>>
  BY DEF Authenticate, RegisterConnection
<1> HIDE DEF fresh
<1>5. /\ conns'[m] = conns[m] \cup {fresh}
      /\ \A n \in Names \ {m} : conns'[n] = conns[n]
  BY <1>1, <1>2, <1>4 DEF TypeOK
<1>6. /\ index'[t] = next[m]
      /\ \A u \in Threads \ {t} : index'[u] = index[u]
  BY <1>2, <1>4 DEF TypeOK
<1>7. /\ next'[m] = next[m] + 1 /\ next[m] \in Nat
      /\ \A n \in Names \ {m} : next'[n] = next[n]
  BY <1>1, <1>2, <1>4 DEF TypeOK
<1>8. /\ stage[t] = "new" /\ stage'[t] = "auth"
      /\ \A u \in Threads \ {t} : stage'[u] = stage[u]
  BY <1>2 DEF TypeOK, Authenticate, Goto
<1>9. \A n \in Names : \A c \in conns[n] :
        /\ c \in Connections /\ c.owner \in Threads /\ c.owner # t /\ c.index \in Nat
        /\ NameOf[c.owner] = n /\ NonceOf[c.owner] = c.nonce
        /\ index[c.owner] = c.index /\ stage[c.owner] # "new"
  BY <1>2, <1>8 DEF TypeOK, IInv, Shape, OwnersOk, Connections
<1>10. TypeOK'
  <2>1. conns' \in [Names -> SUBSET Connections]
    BY <1>1, <1>2, <1>3, <1>4 DEF TypeOK
  <2>2. next' \in [Names -> Nat] /\ index' \in [Threads -> Nat]
    BY <1>1, <1>2, <1>4, <1>7 DEF TypeOK
  <2>3. stage' \in [Threads -> Stages]
    BY <1>2 DEF TypeOK, Authenticate, Goto, Stages
  <2>4. QED
    BY <1>2, <1>4, <2>1, <2>2, <2>3 DEF TypeOK
<1>11. OwnersOk'
  BY <1>4, <1>5, <1>6, <1>8, <1>9 DEF OwnersOk
<1>12. OneLife'
  <2>1. \A c \in conns[m] : c.nonce = fresh.nonce
    BY <1>4 DEF Authenticate, AcceptsNonce
  <2>2. QED
    BY <1>5, <2>1 DEF IInv, Shape, OneLife
<1>13. IndexNamesOne'
  <2>1. \A n \in Names : \A c, d \in conns[n] : c.index < next[n] /\ (c.index = d.index => c = d)
    BY DEF IInv, Shape, IndexNamesOne
  <2>2. \A c \in conns[m] : c.index # fresh.index /\ c.index < next'[m]
    BY <1>1, <1>4, <1>7, <1>9, <2>1
  <2>3. fresh.index < next'[m]
    BY <1>4, <1>7
  <2>4. \A c, d \in conns'[m] : c.index < next'[m] /\ (c.index = d.index => c = d)
    BY <1>1, <1>5, <2>1, <2>2, <2>3
  <2>5. \A n \in Names \ {m} : \A c, d \in conns'[n] :
          c.index < next'[n] /\ (c.index = d.index => c = d)
    BY <1>5, <1>7, <2>1
  <2>6. QED
    BY <2>4, <2>5 DEF IndexNamesOne
<1>14. LookOk'
  <2>1. spared \subseteq Threads /\ t \notin spared
    BY <1>2, <1>8 DEF TypeOK, IInv, LookOk
  <2>2. QED
    BY <1>4, <1>6, <1>8, <2>1 DEF IInv, LookOk
<1>15. Live(t)' /\ \A u \in Threads \ {t} : Live(u)' <=> Live(u)
  BY <1>8 DEF Live
<1>16. GhostsFromErrors'
  <2>1. \A n \in Names : \A c \in conns[n] : Live(c.owner) \/ c.owner \in failed
    BY DEF IInv, GhostsFromErrors
  <2>2. \A n \in Names : \A c \in conns'[n] : Live(c.owner)' \/ c.owner \in failed'
    BY <1>4, <1>5, <1>9, <1>15, <2>1
  <2>3. QED
    BY <2>2 DEF GhostsFromErrors, Live
<1>17. AliasNeedsEviction'
  <2> SUFFICES ASSUME evicted' = {}, NEW u \in Threads, Live(u)'
               PROVE  Registered(u)'
    BY DEF AliasNeedsEviction
  <2>1. CASE u = t
    BY <1>4, <1>5, <1>6, <2>1 DEF Registered
  <2>2. CASE u # t
    <3>1. NameOf[u] \in Names
      BY RegistryAssumption
    <3>2. Registered(u)
      BY <1>4, <1>15, <2>2 DEF IInv, AliasNeedsEviction
    <3>3. conns[NameOf[u]] \subseteq conns'[NameOf[u]]
      BY <1>5, <3>1
    <3>4. QED
      BY <1>6, <2>2, <3>2, <3>3 DEF Registered
  <2>3. QED
    BY <2>1, <2>2
<1>18. QED
  BY <1>10, <1>11, <1>12, <1>13, <1>14, <1>16, <1>17 DEF IInv, Shape

\* What is left in the registry after a removal was there before.
LEMMA RemoveSubset ==
  ASSUME Shape, NEW gone, RemoveConnections(gone)
  PROVE  \A n \in Names : conns'[n] = {c \in conns[n] : <<n, c.index>> \notin gone}
BY DEF Shape, TypeOK, RemoveConnections

\* The thread removes the connection it registered, if it is there, and then
\* no other thread's.
LEMMA DisconnectKeepsInv ==
  ASSUME IInv, NEW t \in Threads, Disconnect(t)
  PROVE  IInv'
<1> DEFINE gone == {<<NameOf[t], index[t]>>}
<1>1. Shape /\ RemoveConnections(gone) /\ Goto(t, "ready", "gone")
  BY DEF IInv, Disconnect
<1>2. UNCHANGED <<index, stale, spared, failed, evicted>>
  BY DEF Disconnect
<1>3. Restrained
  BY <1>1, RemoveRestrained
<1>4. \A n \in Names : conns'[n] = {c \in conns[n] : <<n, c.index>> \notin gone}
  BY <1>1, RemoveSubset
<1> HIDE DEF gone
<1>5. TypeOK
  BY <1>1 DEF Shape
<1>6. /\ stage' \in [Threads -> Stages]
      /\ stage[t] = "ready" /\ stage'[t] = "gone"
      /\ \A u \in Threads \ {t} : stage'[u] = stage[u]
  BY <1>1, <1>5 DEF TypeOK, Goto, Stages
<1>7. Shape'
  BY <1>1, <1>2, <1>3, <1>5, <1>6, RestrainedKeepsShape DEF TypeOK
<1>8. LookOk'
  BY <1>2, <1>5, <1>6 DEF IInv, LookOk, TypeOK
<1>9. \A n \in Names : \A c \in conns[n] : /\ c.owner \in Threads /\ NameOf[c.owner] = n
                                           /\ index[c.owner] = c.index
  BY <1>1, <1>5 DEF TypeOK, Shape, OwnersOk, Connections
<1>10. Live(t) /\ ~ Live(t)' /\ \A u \in Threads \ {t} : Live(u)' <=> Live(u)
  BY <1>6 DEF Live
<1>11. GhostsFromErrors'
  <2> SUFFICES ASSUME NEW n \in Names, NEW c \in conns'[n]
               PROVE  Live(c.owner)' \/ c.owner \in failed'
    BY DEF GhostsFromErrors, Live
  <2>1. c \in conns[n] /\ <<n, c.index>> \notin gone
    BY <1>4
  <2>2. c.owner \in Threads \ {t}
    BY <1>9, <2>1 DEF gone
  <2>3. Live(c.owner) \/ c.owner \in failed
    BY <2>1 DEF IInv, GhostsFromErrors
  <2>4. QED
    BY <1>2, <1>10, <2>2, <2>3
<1>12. AliasNeedsEviction'
  <2> SUFFICES ASSUME evicted' = {}, NEW u \in Threads, Live(u)'
               PROVE  Registered(u)'
    BY DEF AliasNeedsEviction
  <2>1. u # t /\ Live(u) /\ Live(t) /\ evicted = {}
    BY <1>2, <1>10
  <2>2. Registered(u) /\ Registered(t)
    BY <2>1 DEF IInv, AliasNeedsEviction
  <2>3. PICK c \in conns[NameOf[u]] : c.owner = u /\ c.index = index[u]
    BY <2>2 DEF Registered
  <2>4. PICK d \in conns[NameOf[t]] : d.owner = t /\ d.index = index[t]
    BY <2>2 DEF Registered
  <2>5. NameOf[u] \in Names
    BY RegistryAssumption
  <2>6. <<NameOf[u], index[u]>> \notin gone
    BY <1>1, <2>1, <2>3, <2>4, <2>5 DEF gone, Shape, IndexNamesOne
  <2>7. c \in conns'[NameOf[u]]
    BY <1>4, <2>3, <2>5, <2>6
  <2>8. QED
    BY <1>2, <2>3, <2>7 DEF Registered
<1>13. QED
  BY <1>7, <1>8, <1>11, <1>12 DEF IInv

\* The owners of the connections that are not stale are spared.
LEMMA OverseerLookKeepsInv ==
  ASSUME IInv, OverseerLook
  PROVE  IInv'
<1>1. TypeOK /\ OwnersOk /\ OneLife /\ IndexNamesOne
  BY DEF IInv, Shape
<1>2. UNCHANGED <<conns, next, stage, index, failed, evicted>>
  BY DEF OverseerLook
<1>3. \A n \in Names : \A c \in conns[n] : /\ c \in Connections /\ c.index \in Nat
                                           /\ c.owner \in Threads
  BY <1>1 DEF TypeOK, Connections
<1>4. stale' \subseteq Names \X Nat /\ spared' \subseteq Threads
  BY <1>3 DEF OverseerLook, StaleOf
<1>5. LookOk'
  <2> SUFFICES ASSUME NEW t \in spared'
               PROVE  stage[t] # "new" /\ <<NameOf[t], index[t]>> \notin stale'
    BY <1>2 DEF LookOk
  <2>1. PICK n \in Names : \E c \in conns[n] \ StaleOf(n) : c.owner = t
    BY DEF OverseerLook
  <2>2. PICK c \in conns[n] \ StaleOf(n) : c.owner = t
    BY <2>1
  <2>3. NameOf[t] = n /\ index[t] = c.index /\ stage[t] # "new"
    BY <1>1, <2>2 DEF OwnersOk
  <2>4. <<n, c.index>> \notin stale'
    <3> SUFFICES ASSUME <<n, c.index>> \in stale' PROVE FALSE
      OBVIOUS
    <3>1. PICK m \in Names : \E d \in StaleOf(m) : <<n, c.index>> = <<m, d.index>>
      BY DEF OverseerLook
    <3>2. PICK d \in StaleOf(n) : d.index = c.index
      BY <3>1
    <3>3. QED
      BY <1>1, <2>2, <3>2 DEF IndexNamesOne, StaleOf
  <2>5. QED
    BY <2>3, <2>4
<1>6. TypeOK'
  BY <1>1, <1>2, <1>4 DEF TypeOK
<1>7. OwnersOk' /\ OneLife' /\ IndexNamesOne'
  BY <1>1, <1>2 DEF OwnersOk, OneLife, IndexNamesOne
<1>8. GhostsFromErrors' /\ AliasNeedsEviction'
  BY <1>2 DEF IInv, GhostsFromErrors, AliasNeedsEviction, Live, Registered
<1>9. QED
  BY <1>5, <1>6, <1>7, <1>8 DEF IInv, Shape

LEMMA OverseerRemoveKeepsInv ==
  ASSUME IInv, OverseerRemove
  PROVE  IInv'
<1>1. Shape /\ RemoveConnections(stale)
  BY DEF IInv, OverseerRemove
<1>2. /\ UNCHANGED <<stage, index, failed>> /\ stale' = {} /\ spared' = {}
      /\ evicted' = evicted \cup Evicted(stale)
  BY DEF OverseerRemove
<1>3. Restrained
  BY <1>1, RemoveRestrained
<1>4. \A n \in Names : conns'[n] = {c \in conns[n] : <<n, c.index>> \notin stale}
  BY <1>1, RemoveSubset
<1>5. TypeOK /\ evicted' \subseteq Threads
  BY <1>1, <1>2 DEF Shape, TypeOK, Evicted
<1>6. Shape'
  BY <1>1, <1>2, <1>3, <1>5, RestrainedKeepsShape DEF TypeOK
<1>7. LookOk'
  BY <1>2 DEF LookOk
<1>8. GhostsFromErrors'
  BY <1>2, <1>4 DEF IInv, GhostsFromErrors, Live
<1>9. AliasNeedsEviction'
  <2> SUFFICES ASSUME evicted' = {}, NEW u \in Threads, Live(u)'
               PROVE  Registered(u)'
    BY DEF AliasNeedsEviction
  <2>1. Live(u) /\ evicted = {} /\ Evicted(stale) = {}
    BY <1>2 DEF Live
  <2>2. PICK c \in conns[NameOf[u]] : c.owner = u /\ c.index = index[u]
    BY <2>1 DEF IInv, AliasNeedsEviction, Registered
  <2>3. NameOf[u] \in Names /\ <<NameOf[u], c.index>> \notin stale
    BY <2>1, <2>2, RegistryAssumption DEF Evicted
  <2>4. c \in conns'[NameOf[u]]
    BY <1>4, <2>2, <2>3
  <2>5. QED
    BY <1>2, <2>2, <2>4 DEF Registered
<1>10. QED
  BY <1>6, <1>7, <1>8, <1>9 DEF IInv

LEMMA NextKeepsInv == IInv /\ [Next]_vars => IInv'
<1> SUFFICES ASSUME IInv, [Next]_vars PROVE IInv'
  OBVIOUS
<1>1. Shape
  BY DEF IInv
<1>2. ASSUME NEW t \in Threads, HandleConnection(t) PROVE IInv'
  <2>1. CASE Refuse(t)
    BY <1>1, <2>1, RefuseQuiet, QuietKeepsInv
  <2>2. CASE Authenticate(t)
    BY <2>2, AuthenticateKeepsInv
  <2>3. CASE Ping(t)
    BY <1>1, <2>3, PingQuiet, QuietKeepsInv
  <2>4. CASE Latency(t)
    BY <1>1, <2>4, LatencyQuiet, QuietKeepsInv
  <2>5. CASE AnswerAuth(t) \/ Poll(t) \/ StartWork(t) \/ Pong(t) \/ FinishWork(t)
    BY <1>1, <2>5, MoveQuiet, QuietKeepsInv
  <2>6. CASE Disconnect(t)
    BY <2>6, DisconnectKeepsInv
  <2>7. QED
    BY <1>2, <2>1, <2>2, <2>3, <2>4, <2>5, <2>6 DEF HandleConnection
<1>3. ASSUME NEW t \in Threads, AgeOf(t) PROVE IInv'
  BY <1>1, <1>3, AgeQuiet, QuietKeepsInv
<1>4. CASE OverseerLook
  BY <1>4, OverseerLookKeepsInv
<1>5. CASE OverseerRemove
  BY <1>5, OverseerRemoveKeepsInv
<1>6. CASE UNCHANGED vars
  BY <1>1, <1>6, StutterQuiet, QuietKeepsInv
<1>7. QED
  BY <1>2, <1>3, <1>4, <1>5, <1>6 DEF Next, Overseer

-----------------------------------------------------------------------------
(* Theorems *)

\* The invariant that the threads and the overseer keep between them.
THEOREM RegistryInvariant == Spec => []IInv
<1>1. QED
  BY InitInv, NextKeepsInv, PTL DEF Spec

\* Every variable has its type.
THEOREM RegistryTypes == Spec => []TypeOK
<1>1. IInv => TypeOK
  BY DEF IInv, Shape
<1>2. QED
  BY <1>1, RegistryInvariant, PTL

\* A worker's entry never holds connections of two lives of it: the nonce is
\* compared and the connection registered in one critical section.
THEOREM RegistryOneLife == Spec => []OneLife
<1>1. IInv => OneLife
  BY DEF IInv, Shape
<1>2. QED
  BY <1>1, RegistryInvariant, PTL

\* An index names one connection of an entry, although the counter goes with
\* the entry: an entry that is there has a counter above all its indices.
THEOREM RegistryIndexNamesOne == Spec => []IndexNamesOne
<1>1. IInv => IndexNamesOne
  BY DEF IInv, Shape
<1>2. QED
  BY <1>1, RegistryInvariant, PTL

\* A thread that reads the end of its connection leaves nothing behind: every
\* ghost is the connection of a thread that an error ended.
THEOREM RegistryGhostsFromErrors == Spec => []GhostsFromErrors
<1>1. IInv => GhostsFromErrors
  BY DEF IInv
<1>2. QED
  BY <1>1, RegistryInvariant, PTL

\* The index that a thread keeps names its own connection until the overseer
\* removes one of a live thread.
THEOREM RegistryAliasNeedsEviction == Spec => []AliasNeedsEviction
<1>1. IInv => AliasNeedsEviction
  BY DEF IInv
<1>2. QED
  BY <1>1, RegistryInvariant, PTL

\* Between the overseer's look and its removal an index it wrote down may come
\* to name another connection, but never one that was in time at the look.
THEOREM RegistrySparesTheFresh == Spec => SparesTheFresh
<1> DEFINE A == OverseerRemove => \A t \in spared : Registered(t) => Registered(t)'
<1>1. IInv /\ [Next]_vars => A
  <2> SUFFICES ASSUME IInv, OverseerRemove, NEW t \in spared, Registered(t)
               PROVE  Registered(t)'
    OBVIOUS
  <2>1. PICK c \in conns[NameOf[t]] : c.owner = t /\ c.index = index[t]
    BY DEF Registered
  <2>2. t \in Threads /\ <<NameOf[t], c.index>> \notin stale
    BY <2>1 DEF IInv, Shape, TypeOK, LookOk
  <2>3. NameOf[t] \in Names /\ Shape /\ RemoveConnections(stale)
    BY <2>2, RegistryAssumption DEF IInv, OverseerRemove
  <2>4. c \in conns'[NameOf[t]]
    BY <2>1, <2>2, <2>3, RemoveSubset
  <2>5. QED
    BY <2>1, <2>4 DEF Registered, OverseerRemove
<1>2. QED
  BY <1>1, RegistryInvariant, PTL DEF Spec, SparesTheFresh

=============================================================================
