-------------------------- MODULE UsageTrackingProofs ---------------------------
(* Proofs about the usage accounting, for any number of requests, keys and    *)
(* workers, any batch size, and any number of failures and restarts.          *)
EXTENDS UsageTracking, FiniteSetTheorems, SequenceTheorems, TLAPS

-----------------------------------------------------------------------------
(* Sequences without repetition *)

LEMMA RangeOf ==
  ASSUME NEW S, NEW s \in Seq(S)
  PROVE  /\ Range(s) = {s[i] : i \in 1..Len(s)} /\ Range(s) \subseteq S
         /\ IsInjective(s) <=> \A i, j \in 1..Len(s) : s[i] = s[j] => i = j
         /\ Len(s) \in Nat /\ IsFiniteSet(1..Len(s))
<1>1. DOMAIN s = 1..Len(s) /\ Len(s) \in Nat /\ \A i \in 1..Len(s) : s[i] \in S
  BY LenProperties, ElementOfSeq
<1>2. IsFiniteSet(1..Len(s))
  BY <1>1, FS_Interval
<1>3. QED
  BY <1>1, <1>2 DEF Range, IsInjective

LEMMA RangeOfEmpty == Range(<<>>) = {} /\ IsInjective(<<>>)
  BY DEF Range, IsInjective

LEMMA AppendRange ==
  ASSUME NEW S, NEW s \in Seq(S), NEW e \in S
  PROVE  /\ Append(s, e) \in Seq(S) /\ Len(Append(s, e)) = Len(s) + 1
         /\ Range(Append(s, e)) = Range(s) \cup {e}
         /\ IsInjective(s) /\ e \notin Range(s) => IsInjective(Append(s, e))
<1> DEFINE z == Append(s, e)
<1>1. /\ z \in Seq(S) /\ Len(s) \in Nat /\ Len(z) = Len(s) + 1 /\ z[Len(s) + 1] = e
      /\ \A i \in 1..Len(s) : z[i] = s[i]
  BY AppendProperties, LenProperties
<1> HIDE DEF z
<1>2. \A i : i \in 1..Len(z) <=> i \in 1..Len(s) \/ i = Len(s) + 1
  BY <1>1
<1>3. \A i \in 1..Len(s) : i # Len(s) + 1
  BY <1>1
<1>4. Range(z) = Range(s) \cup {e}
  BY <1>1, <1>2, RangeOf
<1>5. IsInjective(s) /\ e \notin Range(s) => IsInjective(z)
  BY <1>1, <1>2, <1>3, RangeOf
<1>6. QED
  BY <1>1, <1>4, <1>5 DEF z

LEMMA HeadTailRange ==
  ASSUME NEW S, NEW s \in Seq(S), s # <<>>
  PROVE  /\ Head(s) \in S /\ Tail(s) \in Seq(S)
         /\ Range(s) = {Head(s)} \cup Range(Tail(s))
         /\ IsInjective(s) => IsInjective(Tail(s)) /\ Head(s) \notin Range(Tail(s))
<1> DEFINE z == Tail(s)
<1>1. /\ Head(s) = s[1] /\ Head(s) \in S /\ z \in Seq(S) /\ Len(z) = Len(s) - 1
      /\ \A i \in 1..Len(z) : z[i] = s[i + 1]
      /\ Len(s) \in Nat \ {0}
  BY HeadTailProperties, EmptySeq
<1> HIDE DEF z
<1>2. \A i \in 1..Len(z) : i + 1 \in 1..Len(s) /\ i + 1 # 1 /\ 1 \in 1..Len(s)
  BY <1>1
<1>3. \A i \in 1..Len(s) : i = 1 \/ (i - 1 \in 1..Len(z) /\ z[i - 1] = s[i])
  <2> SUFFICES ASSUME NEW i \in 1..Len(s), i # 1
               PROVE  i - 1 \in 1..Len(z) /\ z[i - 1] = s[i]
    OBVIOUS
  <2>1. i - 1 \in 1..Len(z) /\ (i - 1) + 1 = i
    BY <1>1
  <2>2. QED
    BY <1>1, <2>1
<1>4. Range(s) = {Head(s)} \cup Range(z)
  <2>1. 1 \in 1..Len(s)
    BY <1>1
  <2>2. Range(s) \subseteq {Head(s)} \cup Range(z)
    <3>1. Range(s) = {s[i] : i \in 1..Len(s)} /\ Range(z) = {z[i] : i \in 1..Len(z)}
      BY <1>1, RangeOf
    <3>2. \A i \in 1..Len(s) : s[i] = Head(s) \/ s[i] \in {z[j] : j \in 1..Len(z)}
      BY <1>1, <1>3
    <3>3. QED
      BY <3>1, <3>2
  <2>3. Range(z) \subseteq Range(s)
    BY <1>1, <1>2, RangeOf
  <2>4. QED
    BY <1>1, <2>1, <2>2, <2>3, RangeOf
<1>5. ASSUME IsInjective(s) PROVE IsInjective(z) /\ Head(s) \notin Range(z)
  <2>1. \A i, j \in 1..Len(s) : s[i] = s[j] => i = j
    BY <1>5, RangeOf
  <2>2. ASSUME NEW i \in 1..Len(z), NEW j \in 1..Len(z), z[i] = z[j] PROVE i = j
    <3>1. i + 1 = j + 1
      BY <1>1, <1>2, <2>1, <2>2
    <3>2. QED
      BY <1>1, <3>1
  <2>3. Head(s) \notin Range(z)
    BY <1>1, <1>2, <2>1, RangeOf
  <2>4. QED
    BY <1>1, <2>2, <2>3, RangeOf
<1>6. QED
  BY <1>1, <1>4, <1>5 DEF z

\* A finite set of numbers that is not empty has a greatest one: the elements above
\* one form a set, and the strict subsets of a finite set are well founded.
LEMMA Greatest ==
  ASSUME NEW S \in SUBSET Nat, IsFiniteSet(S), S # {}
  PROVE  \E x \in S : \A y \in S : y <= x
<1> DEFINE Above(x) == {y \in S : y > x}
           T == {Above(x) : x \in S}
<1>1. T \subseteq FiniteSubsetsOf(S) /\ T # {}
  <2>1. \A x \in S : Above(x) \in SUBSET S
    OBVIOUS
  <2>2. \A x \in S : IsFiniteSet(Above(x))
    BY <2>1, FS_Subset
  <2>3. QED
    BY <2>1, <2>2 DEF FiniteSubsetsOf
<1>2. PICK U \in T : \A V \in T : <<V, U>> \notin StrictSubsetOrdering(S)
  <2> HIDE DEF T
  <2>1. QED
    BY <1>1, FS_StrictSubsetOrderingWellFounded, WFMin
<1>3. PICK x \in S : U = Above(x)
  OBVIOUS
<1>4. ASSUME NEW y \in S, y > x PROVE FALSE
  <2>1. Above(y) \in T /\ Above(y) \in SUBSET S /\ U \in SUBSET S
    BY <1>3
  <2>2. Above(y) \subseteq U /\ y \in U /\ y \notin Above(y)
    <3>1. \A z \in S : z \in Nat
      OBVIOUS
    <3>2. x \in Nat /\ y \in Nat /\ ~ (y > y) /\ \A z \in Nat : z > y => z > x
      BY <1>4, <3>1
    <3>3. QED
      BY <1>3, <1>4, <3>1, <3>2
  <2>3. <<Above(y), U>> \in StrictSubsetOrdering(S)
    BY <2>1, <2>2 DEF StrictSubsetOrdering
  <2>4. QED
    BY <1>2, <2>1, <2>3
<1>5. QED
  BY <1>4

\* Of a sequence without repetition, as many elements as positions have a property.
LEMMA CountPositions ==
  ASSUME NEW S, NEW s \in Seq(S), IsInjective(s), NEW X \in SUBSET (1..Len(s)),
         NEW Y, \A y : y \in Y <=> \E x \in X : y = s[x]
  PROVE  IsFiniteSet(X) /\ IsFiniteSet(Y) /\ Cardinality(Y) = Cardinality(X)
<1>1. IsFiniteSet(1..Len(s)) /\ \A i, j \in 1..Len(s) : s[i] = s[j] => i = j
  BY RangeOf
<1>2. IsFiniteSet(X)
  BY <1>1, FS_Subset
<1> DEFINE f == [x \in X |-> s[x]]
<1>3. f \in Bijection(X, Y)
  BY <1>1 DEF Bijection, Injection, Surjection, IsInjective
<1>4. ExistsBijection(X, Y)
  BY <1>3 DEF ExistsBijection
<1>5. QED
  BY <1>2, <1>4, FS_Bijection

-----------------------------------------------------------------------------
(* The inductive invariant *)

\* usage_identity does not depend on a name: it is the key's id, or the name that
\* stands for requests without a key.
Owner(r) == IF KeyOf[r] = None THEN Anonymous ELSE KeyOf[r]

\* No event is twice in the channel or in the batch, none is in two places, and those
\* that are somewhere are the events of the requests that finished.
PlacesOk ==
  /\ IsInjective(channel) /\ IsInjective(pending)
  /\ Range(channel) \cap Range(pending) = {}
  /\ (Range(channel) \cup Range(pending)) \cap (recorded \cup lost) = {}
  /\ recorded \cap lost = {}
  /\ Range(channel) \cup Range(pending) \cup recorded \cup lost = {r \in Requests : stage[r] = "sent"}

\* Without a failure and a restart nothing is lost, and only a failure ends the thread.
LossOk ==
  /\ lost # {} => faults + crashes > 0
  /\ ~ alive => faults > 0

\* The tables count what has been recorded.
CountsOk ==
  /\ \A i \in Identities : usage[i].count = Cardinality({r \in recorded : Owner(r) = i})
  /\ \A w \in Workers : byWorker[w] = Cardinality({r \in recorded : WorkerOf[r] = w})

IInv == TypeOK /\ PlacesOk /\ LossOk /\ CountsOk
-----------------------------------------------------------------------------
(* One transaction *)

LEMMA IdentityIs ==
  ASSUME NEW r \in Requests
  PROVE  /\ Identity(r) = Owner(r) /\ Owner(r) \in Identities
         /\ KeyOf[r] # None => Owner(r) = KeyOf[r] /\ KeyOf[r] \in Keys
BY UsageAssumption DEF Identity, EventName, Owner, Identities

LEMMA EventNames ==
  ASSUME TypeOK, NEW r \in Requests
  PROVE  EventName(r) \in Names \cup {Anonymous, None}
BY DEF TypeOK, EventName

\* The events of a class in the tables and in a batch are apart: they add up.
LEMMA CountUnion ==
  ASSUME NEW R \in SUBSET Requests, NEW batch \in Seq(Requests), IsInjective(batch),
         Range(batch) \cap R = {}, NEW A
  PROVE  /\ Cardinality({r \in R \cup Range(batch) : r \in A}) =
              Cardinality({r \in R : r \in A}) +
              Cardinality({x \in 1..Len(batch) : batch[x] \in A})
         /\ Cardinality({x \in 1..Len(batch) : batch[x] \in A}) \in Nat
<1> DEFINE X == {x \in 1..Len(batch) : batch[x] \in A}
           B == {batch[x] : x \in X}
           O == {r \in R : r \in A}
           U == {r \in R \cup Range(batch) : r \in A}
<1>1. /\ IsFiniteSet(X) /\ IsFiniteSet(B) /\ Cardinality(B) = Cardinality(X)
  <2>1. X \in SUBSET (1..Len(batch))
    OBVIOUS
  <2> HIDE DEF X
  <2>2. \A y : y \in B <=> \E x \in X : y = batch[x]
    OBVIOUS
  <2> HIDE DEF X, B, O, U
  <2>3. QED
    BY <2>1, <2>2, CountPositions
<1>2. Range(batch) = {batch[i] : i \in 1..Len(batch)}
  BY RangeOf
<1>3. B = {r \in Range(batch) : r \in A}
  BY <1>2
<1>4. U = O \cup B /\ O \cap B = {}
  BY <1>3
<1>5. IsFiniteSet(O)
  BY UsageAssumption, FS_Subset
<1> HIDE DEF X, B, O, U
<1>6. Cardinality(O \cup B) = Cardinality(O) + Cardinality(B) - Cardinality(O \cap B)
  BY <1>1, <1>5, FS_Union
<1>7. Cardinality(O \cap B) = 0 /\ Cardinality(O) \in Nat /\ Cardinality(B) \in Nat
  BY <1>1, <1>4, <1>5, FS_EmptySet, FS_CardinalityType
<1>8. /\ Cardinality(U) = Cardinality(O) + Cardinality(X)
      /\ Cardinality(X) \in Nat
  BY <1>1, <1>4, <1>6, <1>7
<1>9. QED
  BY <1>8 DEF X, O, U

\* The class of an identity, by positions of a batch.
LEMMA EventsAre ==
  ASSUME NEW batch \in Seq(Requests), NEW i
  PROVE  EventsOf(batch, i) = {x \in 1..Len(batch) : batch[x] \in {r \in Requests : Owner(r) = i}}
<1>1. \A x \in 1..Len(batch) : batch[x] \in Requests
  BY ElementOfSeq
<1>2. QED
  BY <1>1, IdentityIs DEF EventsOf

LEMMA UpsertTypes ==
  ASSUME TypeOK, NEW batch \in Seq(Requests), Upsert(batch)
  PROVE  /\ usage' \in [Identities -> [count : Nat, name : Names \cup {Anonymous, None}]]
         /\ byWorker' \in [Workers -> Nat]
         /\ recorded' \subseteq Requests
<1>1. IsFiniteSet(1..Len(batch)) /\ Len(batch) \in Nat /\ Range(batch) \subseteq Requests
  BY RangeOf
<1>2. \A X \in SUBSET (1..Len(batch)) : IsFiniteSet(X) /\ Cardinality(X) \in Nat
  BY <1>1, FS_Subset, FS_CardinalityType
<1>3. ASSUME NEW i \in Identities
      PROVE  usage'[i] \in [count : Nat, name : Names \cup {Anonymous, None}]
  <2> DEFINE E == EventsOf(batch, i)
             last == CHOOSE x \in E : \A y \in E : y <= x
  <2>1. usage[i] \in [count : Nat, name : Names \cup {Anonymous, None}]
    BY DEF TypeOK
  <2>2. E \in SUBSET (1..Len(batch))
    BY DEF EventsOf
  <2>3. CASE E = {}
    BY <2>1, <2>3 DEF Upsert
  <2>4. CASE E # {}
    <3>1. E \in SUBSET Nat /\ IsFiniteSet(E) /\ Cardinality(E) \in Nat
      BY <1>1, <1>2, <2>2
    <3>2. \E x \in E : \A y \in E : y <= x
      <4> HIDE DEF E
      <4>1. QED
        BY <2>4, <3>1, Greatest
    <3>3. last \in E
      <4> HIDE DEF E
      <4>1. QED
        BY <3>2
    <3>4. batch[last] \in Requests
      <4> HIDE DEF last, E
      <4>1. QED
        BY <2>2, <3>3, ElementOfSeq
    <3>5. EventName(batch[last]) \in Names \cup {Anonymous, None}
      <4> HIDE DEF last
      <4>1. QED
        BY <3>4, EventNames
    <3>6. usage'[i] = [count |-> usage[i].count + Cardinality(E), name |-> EventName(batch[last])]
      BY <2>4 DEF Upsert
    <3>7. usage[i].count + Cardinality(E) \in Nat
      BY <2>1, <3>1
    <3> HIDE DEF last, E
    <3>8. QED
      BY <3>5, <3>6, <3>7
  <2>5. QED
    BY <2>3, <2>4
<1>4. \A w \in Workers : byWorker'[w] \in Nat
  <2>1. TAKE w \in Workers
  <2> DEFINE X == {x \in 1..Len(batch) : WorkerOf[batch[x]] = w}
  <2>2. byWorker[w] \in Nat /\ Cardinality(X) \in Nat
    BY <1>2 DEF TypeOK
  <2>3. byWorker'[w] = byWorker[w] + Cardinality(X)
    BY DEF Upsert
  <2>4. QED
    BY <2>2, <2>3
<1>5. DOMAIN usage' = Identities /\ usage' = [i \in Identities |-> usage'[i]]
      /\ byWorker' = [w \in Workers |-> byWorker'[w]]
  BY Zenon DEF Upsert
<1>6. recorded' \subseteq Requests
  BY <1>1 DEF Upsert, TypeOK
<1>7. QED
  BY <1>3, <1>4, <1>5, <1>6

LEMMA UpsertCounts ==
  ASSUME TypeOK, CountsOk, NEW batch \in Seq(Requests), IsInjective(batch),
         Range(batch) \cap recorded = {}, Upsert(batch)
  PROVE  CountsOk'
<1>1. recorded \in SUBSET Requests /\ recorded' = recorded \cup Range(batch)
  BY DEF TypeOK, Upsert
<1>2. ASSUME NEW i \in Identities
      PROVE  usage'[i].count = Cardinality({r \in recorded' : Owner(r) = i})
  <2> DEFINE A == {r \in Requests : Owner(r) = i}
             E == {x \in 1..Len(batch) : batch[x] \in A}
  <2>1. Range(batch) \subseteq Requests
    BY RangeOf
  <2>2. /\ Cardinality({r \in recorded \cup Range(batch) : r \in A}) =
             Cardinality({r \in recorded : r \in A}) + Cardinality(E)
        /\ Cardinality(E) \in Nat
    <3> HIDE DEF A
    <3>1. recorded \in SUBSET Requests
      BY <1>1
    <3>2. QED
      BY <3>1, CountUnion, ZenonT(30)
  <2>3. /\ {r \in recorded : r \in A} = {r \in recorded : Owner(r) = i}
        /\ {r \in recorded \cup Range(batch) : r \in A} = {r \in recorded' : Owner(r) = i}
    BY <1>1, <2>1
  <2>4. E = EventsOf(batch, i)
    BY EventsAre
  <2>5. usage[i].count = Cardinality({r \in recorded : Owner(r) = i})
    BY DEF CountsOk
  <2>6. usage[i].count \in Nat
    BY DEF TypeOK
  <2>7. usage'[i].count = usage[i].count + Cardinality(EventsOf(batch, i))
    <3>1. CASE EventsOf(batch, i) = {}
      <4>1. usage'[i] = usage[i] /\ Cardinality(EventsOf(batch, i)) = 0
        BY <3>1, FS_EmptySet DEF Upsert
      <4>2. QED
        BY <2>6, <4>1
    <3>2. CASE EventsOf(batch, i) # {}
      BY <3>2 DEF Upsert
    <3>3. QED
      BY <3>1, <3>2
  <2> HIDE DEF E, A
  <2>8. QED
    BY <2>2, <2>3, <2>4, <2>5, <2>7
<1>3. ASSUME NEW w \in Workers
      PROVE  byWorker'[w] = Cardinality({r \in recorded' : WorkerOf[r] = w})
  <2> DEFINE A == {r \in Requests : WorkerOf[r] = w}
             E == {x \in 1..Len(batch) : batch[x] \in A}
  <2>1. Range(batch) \subseteq Requests /\ \A x \in 1..Len(batch) : batch[x] \in Requests
    BY RangeOf, ElementOfSeq
  <2>2. Cardinality({r \in recorded \cup Range(batch) : r \in A}) =
          Cardinality({r \in recorded : r \in A}) + Cardinality(E)
    <3> HIDE DEF A
    <3>1. recorded \in SUBSET Requests
      BY <1>1
    <3>2. QED
      BY <3>1, CountUnion, ZenonT(30)
  <2>3. /\ {r \in recorded : r \in A} = {r \in recorded : WorkerOf[r] = w}
        /\ {r \in recorded \cup Range(batch) : r \in A} = {r \in recorded' : WorkerOf[r] = w}
    BY <1>1, <2>1
  <2>4. E = {x \in 1..Len(batch) : WorkerOf[batch[x]] = w}
    BY <2>1
  <2>5. byWorker'[w] = byWorker[w] + Cardinality({x \in 1..Len(batch) : WorkerOf[batch[x]] = w})
    BY DEF Upsert
  <2>6. byWorker[w] = Cardinality({r \in recorded : WorkerOf[r] = w})
    BY DEF CountsOk
  <2> HIDE DEF E, A
  <2>7. QED
    BY <2>2, <2>3, <2>4, <2>5, <2>6
<1>4. QED
  BY <1>2, <1>3 DEF CountsOk
-----------------------------------------------------------------------------
(* One event, one place *)

LEMMA OneOfFour ==
  ASSUME NEW A \in BOOLEAN, NEW B \in BOOLEAN, NEW C \in BOOLEAN, NEW D \in BOOLEAN,
         ~ (A /\ B), ~ (A /\ C), ~ (A /\ D), ~ (B /\ C), ~ (B /\ D), ~ (C /\ D)
  PROVE  LET places == <<A, B, C, D>>
         IN  Cardinality({x \in DOMAIN places : places[x]}) = IF A \/ B \/ C \/ D THEN 1 ELSE 0
<1> DEFINE places == <<A, B, C, D>>
           X == {x \in DOMAIN places : places[x]}
<1>1. /\ places[1] = A /\ places[2] = B /\ places[3] = C /\ places[4] = D
      /\ DOMAIN places = 1..4
  OBVIOUS
<1>2. \A x : x \in 1..4 <=> x = 1 \/ x = 2 \/ x = 3 \/ x = 4
  OBVIOUS
<1> HIDE DEF places
<1>3. \A x : x \in X <=> (x = 1 /\ A) \/ (x = 2 /\ B) \/ (x = 3 /\ C) \/ (x = 4 /\ D)
  BY <1>1, <1>2, Zenon
<1> HIDE DEF X
<1>4. CASE A
  <2>1. X = {1}
    BY <1>3, <1>4
  <2>2. QED
    BY <1>4, <2>1, FS_Singleton DEF X, places
<1>5. CASE B
  <2>1. X = {2}
    BY <1>3, <1>5
  <2>2. QED
    BY <1>5, <2>1, FS_Singleton DEF X, places
<1>6. CASE C
  <2>1. X = {3}
    BY <1>3, <1>6
  <2>2. QED
    BY <1>6, <2>1, FS_Singleton DEF X, places
<1>7. CASE D
  <2>1. X = {4}
    BY <1>3, <1>7
  <2>2. QED
    BY <1>7, <2>1, FS_Singleton DEF X, places
<1>8. CASE ~ (A \/ B \/ C \/ D)
  <2>1. X = {}
    BY <1>3, <1>8
  <2>2. QED
    BY <1>8, <2>1, FS_EmptySet DEF X, places
<1>9. QED
  BY <1>4, <1>5, <1>6, <1>7, <1>8, Zenon

LEMMA InvariantImplies == IInv => EachCountedOnce
<1> SUFFICES ASSUME IInv PROVE EachCountedOnce
  OBVIOUS
<1>1. ASSUME NEW r \in Requests
      PROVE  LET places == <<r \in Range(channel), r \in Range(pending), r \in recorded, r \in lost>>
             IN Cardinality({x \in DOMAIN places : places[x]}) = IF stage[r] = "sent" THEN 1 ELSE 0
  <2> DEFINE A == r \in Range(channel)  B == r \in Range(pending)
             C == r \in recorded  D == r \in lost
  <2>1. /\ ~ (A /\ B) /\ ~ (A /\ C) /\ ~ (A /\ D) /\ ~ (B /\ C) /\ ~ (B /\ D) /\ ~ (C /\ D)
        /\ stage[r] = "sent" <=> A \/ B \/ C \/ D
    BY DEF IInv, PlacesOk
  <2>2. A \in BOOLEAN /\ B \in BOOLEAN /\ C \in BOOLEAN /\ D \in BOOLEAN
    OBVIOUS
  <2> HIDE DEF A, B, C, D
  <2>3. LET places == <<A, B, C, D>>
        IN  Cardinality({x \in DOMAIN places : places[x]}) = IF A \/ B \/ C \/ D THEN 1 ELSE 0
    BY <2>1, <2>2, OneOfFour
  <2>4. LET places == <<A, B, C, D>>
        IN  Cardinality({x \in DOMAIN places : places[x]}) = IF stage[r] = "sent" THEN 1 ELSE 0
    BY <2>1, <2>3, Zenon
  <2>5. QED
    BY <2>4 DEF A, B, C, D
<1>2. lost # {} => faults + crashes > 0
  BY DEF IInv, LossOk
<1>3. \A r \in Requests : Identity(r) = Owner(r)
  BY IdentityIs
<1>4. recorded \subseteq Requests
  BY DEF IInv, TypeOK
<1>5. ASSUME NEW i \in Identities
      PROVE  usage[i].count = Cardinality({r \in recorded : Identity(r) = i})
  <2>1. {r \in recorded : Identity(r) = i} = {r \in recorded : Owner(r) = i}
    BY <1>3, <1>4
  <2>2. QED
    BY <2>1 DEF IInv, CountsOk
<1>6. \A w \in Workers : byWorker[w] = Cardinality({r \in recorded : WorkerOf[r] = w})
  BY DEF IInv, CountsOk
<1>7. ASSUME NEW r \in recorded, KeyOf[r] # None
      PROVE  Identity(r) \in UsageForKey(KeyOf[r])
  <2> DEFINE S == {q \in recorded : Identity(q) = Identity(r)}
  <2>1. Identity(r) = KeyOf[r] /\ Identity(r) \in Identities
    BY <1>4, <1>7, IdentityIs
  <2>2. usage[Identity(r)].count = Cardinality(S)
    BY <1>5, <2>1
  <2>3. r \in S
    OBVIOUS
  <2>4. IsFiniteSet(S)
    BY <1>4, UsageAssumption, FS_Subset
  <2> HIDE DEF S
  <2>5. Cardinality(S) \in Nat /\ Cardinality(S) # 0
    BY <2>3, <2>4, FS_CardinalityType, FS_EmptySet
  <2>6. usage[Identity(r)].count > 0
    BY <2>2, <2>5
  <2>7. QED
    BY <2>1, <2>6 DEF UsageForKey
<1>8. QED
  BY <1>1, <1>2, <1>5, <1>6, <1>7 DEF EachCountedOnce
-----------------------------------------------------------------------------
(* The steps *)

LEMMA InitInv == Init => IInv
<1> SUFFICES ASSUME Init PROVE IInv
  OBVIOUS
<1>1. TypeOK
  <2>1. <<>> \in Seq(Requests) /\ Len(<<>>) = 0
    OBVIOUS
  <2>2. name \in [Keys -> Names]
    BY DEF Init
  <2>3. Batch \in Nat /\ 0 < Batch /\ MaxFaults \in Nat /\ MaxCrashes \in Nat
    BY UsageAssumption
  <2>4. usage \in [Identities -> [count : Nat, name : Names \cup {Anonymous, None}]]
    BY DEF Init, NoRow
  <2>5. QED
    BY <2>1, <2>2, <2>3, <2>4 DEF Init, TypeOK
<1>2. PlacesOk
  BY RangeOfEmpty DEF Init, PlacesOk
<1>3. LossOk
  BY DEF Init, LossOk
<1>4. CountsOk
  BY FS_EmptySet DEF Init, CountsOk, NoRow
<1>5. QED
  BY <1>1, <1>2, <1>3, <1>4 DEF IInv

\* What a transaction does with the batch and the rest of the channel.
LEMMA InsertKeeps ==
  ASSUME IInv, alive, NEW batch \in Seq(Requests), NEW rest \in Seq(Requests),
         IsInjective(batch), IsInjective(rest), Range(batch) \cap Range(rest) = {},
         Range(batch) \cup Range(rest) = Range(channel) \cup Range(pending),
         InsertBatch(batch, rest), UNCHANGED <<name, stage, keyName, crashes>>
  PROVE  IInv'
<1> USE DEF IInv
<1>1. /\ <<>> \in Seq(Requests) /\ Len(<<>>) = 0 /\ 0 < Batch /\ Batch \in Nat
      /\ MaxFaults \in Nat /\ faults \in Nat /\ crashes \in Nat
  BY UsageAssumption DEF TypeOK
<1>2. Range(batch) \subseteq Requests /\ Range(rest) \subseteq Requests
  BY RangeOf
<1>3. CASE Upsert(batch) /\ pending' = <<>> /\ channel' = rest /\ UNCHANGED <<alive, faults, lost>>
  <2>1. TypeOK'
    BY <1>1, <1>3, UpsertTypes DEF TypeOK
  <2>2. recorded' = recorded \cup Range(batch)
    BY <1>3 DEF Upsert
  <2>3. PlacesOk'
    BY <1>3, <2>2, RangeOfEmpty DEF PlacesOk
  <2>4. LossOk'
    BY <1>3 DEF LossOk
  <2>5. Range(batch) \cap recorded = {}
    BY DEF PlacesOk
  <2>6. CountsOk'
    BY <1>3, <2>5, UpsertCounts
  <2>7. QED
    BY <2>1, <2>3, <2>4, <2>6
<1>4. CASE /\ faults < MaxFaults /\ faults' = faults + 1 /\ alive' = FALSE
           /\ pending' = <<>> /\ channel' = <<>>
           /\ lost' = lost \cup Range(batch) \cup Range(rest)
           /\ UNCHANGED tables
  <2>1. TypeOK'
    <3>1. faults' \in 0..MaxFaults
      BY <1>1, <1>4
    <3>2. lost' \subseteq Requests
      BY <1>2, <1>4 DEF TypeOK
    <3>3. QED
      BY <1>1, <1>4, <3>1, <3>2 DEF TypeOK, tables
  <2>2. PlacesOk'
    BY <1>4, RangeOfEmpty DEF PlacesOk, tables
  <2>3. LossOk'
    BY <1>1, <1>4 DEF LossOk
  <2>4. CountsOk'
    BY <1>4 DEF CountsOk, Owner, tables
  <2>5. QED
    BY <2>1, <2>2, <2>3, <2>4
<1>5. QED
  BY <1>3, <1>4 DEF InsertBatch

LEMMA RecvKeeps == ASSUME IInv, Recv PROVE IInv'
<1> DEFINE batch == Append(pending, Head(channel))  rest == Tail(channel)
<1>1. channel \in Seq(Requests) /\ pending \in Seq(Requests) /\ channel # <<>> /\ alive
  BY DEF IInv, TypeOK, Recv
<1>2. /\ Head(channel) \in Requests /\ rest \in Seq(Requests)
      /\ Range(channel) = {Head(channel)} \cup Range(rest)
      /\ IsInjective(rest) /\ Head(channel) \notin Range(rest)
  BY <1>1, HeadTailRange DEF IInv, PlacesOk
<1>3. /\ batch \in Seq(Requests) /\ Len(batch) = Len(pending) + 1
      /\ Range(batch) = Range(pending) \cup {Head(channel)}
  BY <1>1, <1>2, AppendRange
<1>4. Head(channel) \notin Range(pending) /\ IsInjective(pending)
  BY <1>2 DEF IInv, PlacesOk
<1>5. IsInjective(batch)
  BY <1>1, <1>2, <1>4, AppendRange
<1>6. /\ Range(batch) \cap Range(rest) = {}
      /\ Range(batch) \cup Range(rest) = Range(channel) \cup Range(pending)
  BY <1>2, <1>3 DEF IInv, PlacesOk
<1>7. /\ Receive(batch)
      /\ UNCHANGED <<name, stage, keyName, crashes>>
  BY DEF Recv
<1> HIDE DEF batch, rest
<1>8. CASE Len(batch) >= Batch
  BY <1>1, <1>2, <1>3, <1>5, <1>6, <1>7, <1>8, InsertKeeps DEF Receive, rest
<1>9. CASE ~ Len(batch) >= Batch
  <2>1. /\ pending' = batch /\ channel' = rest
        /\ UNCHANGED <<name, stage, keyName, crashes, alive, faults, lost, tables>>
    BY <1>7, <1>9 DEF Receive, rest
  <2>2. Len(batch) < Batch
    BY <1>3, <1>9, UsageAssumption, LenProperties
  <2>3. TypeOK'
    BY <1>1, <1>2, <1>3, <2>1, <2>2 DEF IInv, TypeOK, tables
  <2>4. PlacesOk'
    BY <1>2, <1>3, <1>5, <1>6, <2>1 DEF IInv, PlacesOk, tables
  <2>5. LossOk' /\ CountsOk'
    BY <2>1 DEF IInv, LossOk, CountsOk, Owner, tables
  <2>6. QED
    BY <2>3, <2>4, <2>5 DEF IInv
<1>10. QED
  BY <1>8, <1>9

LEMMA TimesOutKeeps == ASSUME IInv, TimesOut PROVE IInv'
<1>1. /\ channel = <<>> /\ pending \in Seq(Requests) /\ alive /\ IsInjective(pending)
      /\ InsertBatch(pending, <<>>) /\ UNCHANGED <<name, stage, keyName, crashes>>
  BY DEF IInv, TypeOK, PlacesOk, TimesOut
<1>2. Range(channel) = {} /\ <<>> \in Seq(Requests)
  BY <1>1, RangeOfEmpty
<1>3. QED
  BY <1>1, <1>2, InsertKeeps, RangeOfEmpty

LEMMA RestartKeeps == ASSUME IInv, Restart PROVE IInv'
<1> USE DEF IInv
<1>1. Range(pending) \subseteq Requests /\ Range(channel) \subseteq Requests
  BY RangeOf DEF TypeOK
<1>2. TypeOK'
  <2>1. /\ <<>> \in Seq(Requests) /\ Len(<<>>) = 0 /\ 0 < Batch
        /\ MaxCrashes \in Nat /\ crashes \in Nat
    BY UsageAssumption DEF TypeOK
  <2>2. stage' \in [Requests -> {"new", "admitted", "sent", "dropped"}]
    BY DEF Restart, TypeOK
  <2>3. crashes' \in 0..MaxCrashes
    BY <2>1 DEF Restart
  <2>4. QED
    BY <1>1, <2>1, <2>2, <2>3 DEF Restart, TypeOK, tables
<1>3. PlacesOk'
  <2>1. {r \in Requests : stage'[r] = "sent"} = {r \in Requests : stage[r] = "sent"}
    BY DEF Restart
  <2>2. QED
    BY <2>1, RangeOfEmpty DEF Restart, PlacesOk, tables
<1>4. LossOk'
  BY DEF Restart, LossOk, TypeOK
<1>5. CountsOk'
  BY DEF Restart, CountsOk, Owner, tables
<1>6. QED
  BY <1>2, <1>3, <1>4, <1>5

LEMMA FinishKeeps == ASSUME IInv, NEW r \in Requests, Finish(r) PROVE IInv'
<1> USE DEF IInv
<1>1. stage' \in [Requests -> {"new", "admitted", "sent", "dropped"}]
  BY DEF Finish, TypeOK
<1>2. {q \in Requests : stage'[q] = "sent"} = {q \in Requests : stage[q] = "sent"} \cup {r}
  BY DEF Finish, TypeOK
<1>3. r \notin Range(channel) \cup Range(pending) \cup recorded \cup lost
  BY DEF Finish, PlacesOk
<1>4. channel \in Seq(Requests) /\ IsInjective(channel)
  BY DEF TypeOK, PlacesOk
<1>5. CASE alive
  <2>1. channel' = Append(channel, r) /\ UNCHANGED lost
    BY <1>5 DEF Finish
  <2>2. channel' \in Seq(Requests) /\ Range(channel') = Range(channel) \cup {r} /\ IsInjective(channel')
    BY <1>3, <1>4, <2>1, AppendRange
  <2>3. TypeOK'
    BY <1>1, <1>5, <2>1, <2>2 DEF Finish, TypeOK, tables
  <2>4. PlacesOk'
    BY <1>2, <1>3, <2>1, <2>2 DEF Finish, PlacesOk, tables
  <2>5. QED
    BY <2>1, <2>3, <2>4 DEF Finish, LossOk, CountsOk, Owner, tables
<1>6. CASE ~ alive
  <2>1. lost' = lost \cup {r} /\ UNCHANGED channel
    BY <1>6 DEF Finish
  <2>2. TypeOK'
    BY <1>1, <1>6, <2>1 DEF Finish, TypeOK, tables
  <2>3. PlacesOk'
    BY <1>2, <1>3, <2>1 DEF Finish, PlacesOk, tables
  <2>4. LossOk'
    <3>1. faults \in Nat /\ crashes \in Nat
      BY DEF TypeOK
    <3>2. QED
      BY <1>6, <3>1 DEF Finish, LossOk
  <2>5. QED
    BY <2>2, <2>3, <2>4 DEF Finish, CountsOk, Owner, tables
<1>7. QED
  BY <1>5, <1>6

\* The steps that leave the events alone.
LEMMA OthersKeep ==
  ASSUME IInv,
         \/ \E r \in Requests : Admit(r) \/ Fail(r)
         \/ \E k \in Keys, n \in Names : Rename(k, n)
         \/ UNCHANGED vars
  PROVE  IInv'
<1> USE DEF IInv
<1>1. UNCHANGED <<channel, alive, pending, tables, faults, crashes, lost>>
  BY DEF Admit, Fail, Rename, vars
<1>2. /\ stage' \in [Requests -> {"new", "admitted", "sent", "dropped"}]
      /\ {r \in Requests : stage'[r] = "sent"} = {r \in Requests : stage[r] = "sent"}
  <2>1. ASSUME NEW r \in Requests, Admit(r) \/ Fail(r)
        PROVE  <1>2!1 /\ <1>2!2
    BY <2>1 DEF Admit, Fail, TypeOK
  <2>2. CASE UNCHANGED stage
    BY <2>2 DEF TypeOK
  <2>3. QED
    BY <2>1, <2>2 DEF Rename, vars
<1>3. name' \in [Keys -> Names]
  BY DEF Admit, Fail, Rename, vars, TypeOK
<1>4. keyName' \in [Requests -> Names \cup {None}]
  <2>1. ASSUME NEW r \in Requests, Admit(r)
        PROVE  <1>4
    BY <2>1, UsageAssumption DEF Admit, TypeOK
  <2>2. CASE UNCHANGED keyName
    BY <2>2 DEF TypeOK
  <2>3. QED
    BY <2>1, <2>2 DEF Fail, Rename, vars
<1>5. TypeOK'
  BY <1>1, <1>2, <1>3, <1>4 DEF TypeOK, tables
<1>6. PlacesOk' /\ LossOk' /\ CountsOk'
  BY <1>1, <1>2 DEF PlacesOk, LossOk, CountsOk, Owner, tables
<1>7. QED
  BY <1>5, <1>6

\* The invariant holds in every state.
LEMMA SpecInv == Spec => []IInv
<1>1. IInv /\ [Next]_vars => IInv'
  BY RecvKeeps, TimesOutKeeps, RestartKeeps, FinishKeeps, OthersKeep DEF Next
<1>2. QED
  BY InitInv, <1>1, PTL DEF Spec

-----------------------------------------------------------------------------
(* The theorems *)

\* The types of the accounting's state, for any instance; the batch stays below its
\* limit between two events, and a thread that has returned holds nothing.
THEOREM AccountTypes == Spec => []TypeOK
<1>1. IInv => TypeOK
  BY DEF IInv
<1>2. QED
  BY SpecInv, <1>1, PTL

\* The event of every finished request is in one place, and both tables count each
\* recorded event once, whatever the batches, the failures, the restarts and the
\* renames of its key; usage_for_key finds it.
THEOREM EventsCountedOnce == Spec => []EachCountedOnce
  BY SpecInv, InvariantImplies, PTL
=============================================================================
