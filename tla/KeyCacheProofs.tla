----------------------------- MODULE KeyCacheProofs -----------------------------
(* Proofs about the key table, its cache and the requests that use both, for *)
(* any number of threads, keys, failed reads and restarts.                   *)
EXTENDS KeyCache, TLAPS

(***************************************************************************)
(* The inductive invariant.  What a thread holds of a row is what the      *)
(* table says, but for the rules of a key it has just created, unless the  *)
(* row was changed since the thread read it; and                           *)
(* from that, why a cached record may be outdated, why it may be there     *)
(* although its key is gone, and what a verify in progress has seen.       *)
(***************************************************************************)
HeldBy(t) ==
  /\ pc[t] = "cacheFill" =>
       /\ held[t][token[t]] # None
       /\ token[t] \notin moved[t] => held[t][token[t]] = Listed[token[t]]
  /\ pc[t] = "cacheInsert" =>
       /\ target[t] \in Keys
       /\ held[t][target[t]] # None
       /\ target[t] \notin moved[t] => AsGiven(target[t], held[t][target[t]])
  /\ pc[t] = "refresh" => \A k \in Keys \ moved[t] : held[t][k] = Listed[k]

HeldOk == \A t \in Threads : HeldBy(t)

Unwritten(k) ==
  \E t \in Threads : target[t] = k /\ pc[t] \in {"list", "refresh", "cacheInsert"}
Deciding(k) == \E t \in Threads : target[t] = k /\ pc[t] \in {"list", "refresh"}

DeadIsExplained ==
  \A k \in Keys : cache[k] # None /\ ~ Live(k) =>
    k \in raced \cup missed \/ Deciding(k)

VerdictOf(t) ==
  /\ pc[t] \in {"lookup", "cacheFill", "reread"} =>
       t \in IF Live(token[t]) THEN wasLive ELSE wasDead
  /\ pc[t] = "reread" /\ cache[token[t]] = None => t \in wasDead \cup swept

VerdictsOk == \A t \in Threads : VerdictOf(t)

-----------------------------------------------------------------------------
(* Types *)

\* What a key is created with, what is stored of it, and what a rename leaves.
LEMMA RowTypes ==
  /\ Rows \subseteq Records /\ None \notin Records /\ None \notin Rows
  /\ \A n \in Names : /\ [name |-> n, rules |-> NormalizeModels({})] \in Rows
                       /\ \A r \in Rows : [r EXCEPT !.name = n] \in Rows
                       /\ \A l \in RuleLists :
                            /\ [name |-> n, rules |-> NormalizeModels(l)] \in Rows
                            /\ [name |-> n, rules |-> l] \in Records
<1>1. Rows \subseteq Records
  BY DEF Rows, Records
<1>2. \A n \in Names, r \in Rows : [r EXCEPT !.name = n] \in Rows
  BY DEF Rows
<1>3. NormalizeModels({}) \in Stored /\ \A l \in RuleLists : NormalizeModels(l) \in Stored
  BY DEF Stored
<1>4. QED
  BY <1>1, <1>2, <1>3, KeyCacheAssumption DEF Rows, Records

LEMMA NoRecordType == NoRecord \in [Keys -> Records \cup {None}]
  BY DEF NoRecord

LEMMA OnlyType ==
  ASSUME NEW k \in Keys, NEW r \in Records \cup {None}
  PROVE  /\ Only(k, r) \in [Keys -> Records \cup {None}]
         /\ Only(k, r)[k] = r
  BY NoRecordType DEF Only

LEMMA ListedType ==
  ASSUME row \in [Keys -> Rows \cup {None}]
  PROVE  /\ Listed \in [Keys -> Records \cup {None}]
         /\ \A k \in Keys : /\ Live(k) => Listed[k] = row[k] /\ Listed[k] # None
                            /\ ~ Live(k) => Listed[k] = None
  BY RowTypes DEF Listed, Live

\* A rename changes one row, and leaves a row there.
LEMMA RenameTypes ==
  ASSUME TypeOK, NEW k \in Keys, NEW n \in Names, Live(k), row' = [row EXCEPT ![k].name = n]
  PROVE  /\ row' \in [Keys -> Rows \cup {None}]
         /\ row'[k] # None
         /\ \A j \in Keys \ {k} : row'[j] = row[j]
<1>1. row \in [Keys -> Rows \cup {None}] /\ row[k] \in Rows
  BY DEF TypeOK, Live
<1>2. [row[k] EXCEPT !.name = n] \in Rows
  BY <1>1, RowTypes
<1>3. row' = [row EXCEPT ![k] = [row[k] EXCEPT !.name = n]]
  BY <1>1
<1>4. QED
  BY <1>1, <1>2, <1>3, RowTypes

LEMMA InitTypes == Init => TypeOK
<1> SUFFICES ASSUME Init PROVE TypeOK
  OBVIOUS
<1>1. row \in [Keys -> Rows \cup {None}]
  BY RowTypes DEF Init, NoRecord
<1>2. cache \in [Keys -> Records \cup {None}]
  BY <1>1, ListedType DEF Init
<1>3. QED
  BY <1>1, <1>2, NoRecordType, KeyCacheAssumption DEF Init, TypeOK, Holds

\* What a change of a row by an administrator's request does to the types.
LEMMA RowChangedTypes ==
  ASSUME TypeOK, NEW t \in Threads, NEW k \in Keys, NEW live \in BOOLEAN,
         RowChanged(t, k, live)
  PROVE  /\ moved' \in [Threads -> SUBSET Keys]
         /\ wasLive' \subseteq Threads
         /\ wasDead' \subseteq Threads
         /\ \A u \in Threads : ~ Holds(u) => moved'[u] = moved[u]
  BY DEF TypeOK, RowChanged

\* What writing the cache does to the types.
LEMMA DecideTypes ==
  ASSUME TypeOK, NEW t \in Threads, NEW ks, DecideEntries(t, ks)
  PROVE  /\ cache' \in [Keys -> Records \cup {None}]
         /\ raced' \subseteq Keys /\ missed' \subseteq Keys
         /\ held' \in [Threads -> [Keys -> Records \cup {None}]]
         /\ moved' \in [Threads -> SUBSET Keys]
         /\ held'[t] = NoRecord /\ moved'[t] = {}
         /\ \A u \in Threads \ {t} : held'[u] = held[u] /\ moved'[u] = moved[u]
<1>1. \A k \in Keys : held[t][k] \in Records \cup {None} /\ cache[k] \in Records \cup {None}
  BY DEF TypeOK
<1>2. cache' \in [Keys -> Records \cup {None}]
  BY <1>1 DEF DecideEntries
<1>3. QED
  BY <1>2, NoRecordType DEF DecideEntries, TypeOK

LEMMA NextTypes == TypeOK /\ [Next]_vars => TypeOK'
<1> SUFFICES ASSUME TypeOK, [Next]_vars PROVE TypeOK'
  OBVIOUS
<1>1. ASSUME NEW t \in Threads, NEW k \in Keys, BeginVerify(t, k) PROVE TypeOK'
  BY <1>1, KeyCacheAssumption DEF TypeOK, BeginVerify, Goto, Holds, store
<1>2. ASSUME NEW t \in Threads, NEW k \in Keys, DeleteRow(t, k) PROVE TypeOK'
  <2>1. CASE Live(k) /\ Manages(t, "list") /\ Changes(t, k, FALSE)
    <3>1. /\ moved' \in [Threads -> SUBSET Keys] /\ wasLive' \subseteq Threads
          /\ wasDead' \subseteq Threads
          /\ \A u \in Threads : ~ Holds(u) => moved'[u] = moved[u]
      BY <2>1, RowChangedTypes DEF Changes
    <3>2. UNCHANGED <<row, held, cache, faults, crashes, raced, missed>>
          /\ deleted' = deleted \cup {k} /\ row[k] # None
      BY <1>2, <2>1 DEF DeleteRow, Manages, Live
    <3>3. QED
      BY <2>1, <3>1, <3>2, RowTypes DEF TypeOK, Manages, Changes, Holds
  <2>2. CASE ~ Live(k) /\ Manages(t, "idle") /\ ChangesNothing(t)
    BY <1>2, <2>2 DEF TypeOK, DeleteRow, Manages, ChangesNothing, Holds
  <2>3. QED
    BY <1>2, <2>1, <2>2 DEF DeleteRow
<1>3. ASSUME NEW t \in Threads, NEW k \in Keys, NEW n \in Names, NEW l \in RuleLists,
             InsertRow(t, k, n, l)
      PROVE  TypeOK'
  <2>1. CASE NameFree(n, k) /\ Manages(t, "cacheInsert") /\ Changes(t, k, TRUE)
    <3>1. row' = [row EXCEPT ![k] = [name |-> n, rules |-> NormalizeModels(l)]]
          /\ deleted' = deleted /\ cache' = cache
      BY <1>3, <2>1 DEF InsertRow
    <3>2. /\ row' \in [Keys -> Rows \cup {None}]
          /\ deleted' \subseteq {j \in Keys : row'[j] # None}
      BY <3>1, RowTypes DEF TypeOK
    <3>3. held' = [held EXCEPT ![t] = Only(k, [name |-> n, rules |-> l])]
      BY <1>3, <2>1 DEF InsertRow
    <3>4. held' \in [Threads -> [Keys -> Records \cup {None}]]
      BY <3>3, OnlyType, RowTypes DEF TypeOK
    <3>5. RowChanged(t, k, TRUE) /\ target' = [target EXCEPT ![t] = k]
      BY <2>1 DEF Changes
    <3>6. /\ moved' \in [Threads -> SUBSET Keys]
          /\ wasLive' \subseteq Threads
          /\ wasDead' \subseteq Threads
          /\ \A u \in Threads : ~ Holds(u) => moved'[u] = moved[u]
      BY <3>5, RowChangedTypes
    <3>7. /\ pc[t] = "accepted" /\ pc' = [pc EXCEPT ![t] = "cacheInsert"]
          /\ token' = [token EXCEPT ![t] = None] /\ swept' = swept \ {t}
      BY <2>1 DEF Manages
    <3>8. UNCHANGED <<faults, crashes, raced, missed>>
      BY <1>3 DEF InsertRow
    <3>9. QED
      BY <3>1, <3>2, <3>3, <3>4, <3>5, <3>6, <3>7, <3>8, KeyCacheAssumption
      DEF TypeOK, Holds
  <2>2. CASE Manages(t, "idle") /\ ChangesNothing(t)
    BY <1>3, <2>2 DEF TypeOK, InsertRow, Manages, ChangesNothing, Holds
  <2>3. QED
    BY <1>3, <2>1, <2>2 DEF InsertRow
<1>4. ASSUME NEW t \in Threads, NEW k \in Keys, NEW n \in Names, UpdateRow(t, k, n)
      PROVE  TypeOK'
  <2>1. CASE /\ Live(k) /\ NameFree(n, k) /\ Manages(t, "list") /\ Changes(t, k, TRUE)
             /\ row' = [row EXCEPT ![k].name = n] /\ UNCHANGED <<deleted, held>>
    <3>1. /\ row' = [row EXCEPT ![k].name = n] /\ deleted' = deleted /\ cache' = cache
          /\ held' = held
      BY <1>4, <2>1 DEF UpdateRow
    <3>2. /\ row' \in [Keys -> Rows \cup {None}]
          /\ deleted' \subseteq {j \in Keys : row'[j] # None}
      BY <2>1, <3>1, RenameTypes DEF TypeOK
    <3>3. RowChanged(t, k, TRUE) /\ target' = [target EXCEPT ![t] = k]
      BY <2>1 DEF Changes
    <3>4. /\ moved' \in [Threads -> SUBSET Keys]
          /\ wasLive' \subseteq Threads
          /\ wasDead' \subseteq Threads
          /\ \A u \in Threads : ~ Holds(u) => moved'[u] = moved[u]
      BY <3>3, RowChangedTypes
    <3>5. /\ pc[t] = "accepted" /\ pc' = [pc EXCEPT ![t] = "list"]
          /\ token' = [token EXCEPT ![t] = None] /\ swept' = swept \ {t}
      BY <2>1 DEF Manages
    <3>6. UNCHANGED <<faults, crashes, raced, missed>>
      BY <1>4 DEF UpdateRow
    <3>7. QED
      BY <3>1, <3>2, <3>3, <3>4, <3>5, <3>6, KeyCacheAssumption
      DEF TypeOK, Holds
  <2>2. CASE \E p \in {"idle", "list"} : Manages(t, p) /\ ChangesNothing(t)
    BY <1>4, <2>2 DEF TypeOK, UpdateRow, Manages, ChangesNothing, Holds
  <2>3. QED
    BY <1>4, <2>1, <2>2 DEF UpdateRow
<1>5. ASSUME NEW t \in Threads, Lookup(t) PROVE TypeOK'
  <2>1. token[t] \in Keys
    BY <1>5 DEF TypeOK, Lookup, Goto
  <2>2. Only(token[t], Listed[token[t]]) \in [Keys -> Records \cup {None}]
    BY <2>1, OnlyType, ListedType DEF TypeOK
  <2>3. ~ Live(token[t]) => Only(token[t], Listed[token[t]]) = NoRecord
    BY <2>1, ListedType DEF TypeOK, Only, NoRecord
  <2>4. QED
    BY <1>5, <2>2, <2>3
    DEF TypeOK, Lookup, Goto, Holds, store, history, verdicts
<1>6. ASSUME NEW t \in Threads, LookupFails(t) PROVE TypeOK'
  BY <1>6, KeyCacheAssumption DEF TypeOK, LookupFails, Goto, Holds, store
<1>7. ASSUME NEW t \in Threads, CacheFill(t) PROVE TypeOK'
  BY <1>7, DecideTypes DEF TypeOK, CacheFill, Goto, Holds, verdicts
<1>8. ASSUME NEW t \in Threads, Reread(t) PROVE TypeOK'
  BY <1>8 DEF TypeOK, Reread, Goto, Holds, store, history, verdicts
<1>9. ASSUME NEW t \in Threads, CacheInsert(t) PROVE TypeOK'
  BY <1>9, DecideTypes DEF TypeOK, CacheInsert, Goto, Holds, verdicts
<1>10. ASSUME NEW t \in Threads, List(t) PROVE TypeOK'
  BY <1>10, ListedType DEF TypeOK, List, Goto, Holds, store, history, verdicts
<1>11. ASSUME NEW t \in Threads, ListFails(t) PROVE TypeOK'
  BY <1>11, KeyCacheAssumption DEF TypeOK, ListFails, Goto, Holds, store, verdicts
<1>12. ASSUME NEW t \in Threads, Refresh(t) PROVE TypeOK'
  BY <1>12, DecideTypes DEF TypeOK, Refresh, Goto, Holds
<1>13. ASSUME NEW t \in Threads, Answer(t) PROVE TypeOK'
  BY <1>13 DEF TypeOK, Answer, Forget, Holds, store
<1>14. CASE Restart
  <2>1. cache' \in [Keys -> Records \cup {None}]
    BY <1>14, ListedType DEF TypeOK, Restart
  <2>2. QED
    BY <1>14, <2>1, NoRecordType, KeyCacheAssumption DEF TypeOK, Restart, Holds
<1>15. CASE UNCHANGED vars
  BY <1>15 DEF TypeOK, vars, store, history, verdicts, Holds
<1>16. QED
  BY <1>1, <1>2, <1>3, <1>4, <1>5, <1>6, <1>7, <1>8, <1>9, <1>10, <1>11, <1>12,
     <1>13, <1>14, <1>15 DEF Next

\* A thread holds a read of the table only between the read and its write of the
\* cache, and presents a token only until its request is served (TypeOK), with any
\* number of threads and keys.
THEOREM CacheTypes == Spec => []TypeOK
<1>1. QED
  BY InitTypes, NextTypes, PTL DEF Spec

-----------------------------------------------------------------------------
(* What the steps do to the rows and to what threads hold of them *)

\* A management request of thread t about key k: either nothing is changed, or
\* the row of k alone, which is announced to the threads that hold a read of it.
Manage(t, k) ==
  /\ pc[t] = "accepted"
  /\ UNCHANGED <<cache, raced, missed>>
  /\ token' = [token EXCEPT ![t] = None]
  /\ swept' = swept \ {t}
  /\ \/ /\ ChangesNothing(t)
        /\ \E p \in {"idle", "list"} : pc' = [pc EXCEPT ![t] = p]
     \/ /\ target' = [target EXCEPT ![t] = k]
        /\ RowChanged(t, k, Live(k)')
        /\ \A j \in Keys \ {k} : (Live(j)' <=> Live(j)) /\ Listed'[j] = Listed[j]
        /\ \/ pc' = [pc EXCEPT ![t] = "list"] /\ held' = held
           \/ /\ pc' = [pc EXCEPT ![t] = "cacheInsert"]
              /\ \E r \in Records : held' = [held EXCEPT ![t] = Only(k, r)] /\ AsGiven(k, r)'

LEMMA ManageSteps ==
  ASSUME TypeOK, TypeOK', NEW t \in Threads, NEW k \in Keys,
         \/ DeleteRow(t, k)
         \/ \E n \in Names : UpdateRow(t, k, n) \/ \E l \in RuleLists : InsertRow(t, k, n, l)
  PROVE  Manage(t, k)
<1>1. \A j \in Keys : /\ Listed[j] = IF Live(j) THEN row[j] ELSE None
                      /\ Listed'[j] = IF Live(j)' THEN row'[j] ELSE None
  BY DEF Listed
<1>2. CASE DeleteRow(t, k)
  <2>1. CASE Live(k) /\ Manages(t, "list") /\ Changes(t, k, FALSE)
    <3>1. row' = row /\ deleted' = deleted \cup {k} /\ held' = held
      BY <1>2, <2>1 DEF DeleteRow
    <3>2. Live(k)' = FALSE /\ \A j \in Keys \ {k} : Live(j)' <=> Live(j)
      BY <3>1 DEF Live
    <3>3. UNCHANGED <<cache, raced, missed>>
      BY <1>2 DEF DeleteRow
    <3>4. QED
      BY <1>1, <2>1, <3>1, <3>2, <3>3 DEF Manages, Changes, Manage
  <2>2. CASE Manages(t, "idle") /\ ChangesNothing(t)
    BY <1>2, <2>2 DEF DeleteRow, Manages, Manage
  <2>3. QED
    BY <1>2, <2>1, <2>2 DEF DeleteRow
<1>3. ASSUME NEW n \in Names, NEW l \in RuleLists, InsertRow(t, k, n, l) PROVE Manage(t, k)
  <2> DEFINE new == [name |-> n, rules |-> NormalizeModels(l)]
             given == [name |-> n, rules |-> l]
  <2>1. CASE /\ NameFree(n, k) /\ Manages(t, "cacheInsert") /\ Changes(t, k, TRUE)
             /\ row' = [row EXCEPT ![k] = new] /\ deleted' = deleted
             /\ held' = [held EXCEPT ![t] = Only(k, given)]
    <3>1. row' = [row EXCEPT ![k] = new] /\ deleted' = deleted /\ row[k] = None
      BY <1>3, <2>1 DEF InsertRow
    <3>2. /\ Live(k)' = TRUE /\ row'[k] = new
          /\ \A j \in Keys \ {k} : (Live(j)' <=> Live(j)) /\ row'[j] = row[j]
      BY <3>1, RowTypes DEF Live, TypeOK
    <3>3. given \in Records /\ AsGiven(k, given)'
      <4>1. given \in Records
        BY RowTypes
      <4>2. /\ Live(k)' /\ given.name = row'[k].name
            /\ NormalizeModels(given.rules) = row'[k].rules
        BY <3>2
      <4>3. QED
        BY <4>1, <4>2 DEF AsGiven, Live
    <3>4. UNCHANGED <<cache, raced, missed>>
      BY <1>3 DEF InsertRow
    <3>5. QED
      BY <1>1, <2>1, <3>2, <3>3, <3>4 DEF Manages, Changes, Manage
  <2>2. CASE Manages(t, "idle") /\ ChangesNothing(t)
    BY <1>3, <2>2 DEF InsertRow, Manages, Manage
  <2>3. QED
    BY <1>3, <2>1, <2>2 DEF InsertRow
<1>4. ASSUME NEW n \in Names, UpdateRow(t, k, n) PROVE Manage(t, k)
  <2>1. CASE /\ Live(k) /\ Manages(t, "list") /\ Changes(t, k, TRUE)
             /\ row' = [row EXCEPT ![k].name = n] /\ UNCHANGED <<deleted, held>>
    <3>1. /\ Live(k)' = TRUE
          /\ \A j \in Keys \ {k} : (Live(j)' <=> Live(j)) /\ row'[j] = row[j]
      BY <2>1, RenameTypes DEF Live, TypeOK
    <3>2. UNCHANGED <<cache, raced, missed>>
      BY <1>4 DEF UpdateRow
    <3>3. QED
      BY <1>1, <2>1, <3>1, <3>2 DEF Manages, Changes, Manage
  <2>2. CASE \E p \in {"idle", "list"} : Manages(t, p) /\ ChangesNothing(t)
    BY <1>4, <2>2 DEF UpdateRow, Manages, Manage
  <2>3. QED
    BY <1>4, <2>1, <2>2 DEF UpdateRow
<1>5. QED
  BY <1>2, <1>3, <1>4

\* A step that leaves the table alone leaves its list alone.
LEMMA SameRows ==
  ASSUME UNCHANGED <<row, deleted>>
  PROVE  /\ \A k : Live(k)' <=> Live(k)
         /\ \A k, r : AsGiven(k, r)' <=> AsGiven(k, r)
         /\ Listed' = Listed
<1>1. \A k : Live(k)' <=> Live(k)
  BY DEF Live
<1>2. QED
  BY <1>1 DEF Listed, Live, AsGiven

\* What a thread holds of a row stays the table's, unless the thread is told.
LEMMA NextHeld ==
  ASSUME TypeOK, TypeOK', HeldOk, [Next]_vars
  PROVE  HeldOk'
<1> SUFFICES ASSUME NEW u \in Threads PROVE HeldBy(u)'
  BY DEF HeldOk
<1>1. HeldBy(u)
  BY DEF HeldOk
<1> DEFINE Same == /\ UNCHANGED <<row, deleted>>
                   /\ pc'[u] = pc[u] /\ token'[u] = token[u] /\ target'[u] = target[u]
                   /\ held'[u] = held[u] /\ moved'[u] = moved[u]
<1> DEFINE Free == pc'[u] \notin {"cacheFill", "cacheInsert", "refresh"}
<1>2. ASSUME Same \/ Free PROVE HeldBy(u)'
  BY <1>1, <1>2, SameRows DEF HeldBy
<1> HIDE DEF Same, Free
<1>3. ASSUME NEW t \in Threads, NEW k \in Keys, BeginVerify(t, k) PROVE HeldBy(u)'
  BY <1>2, <1>3 DEF BeginVerify, Goto, store, TypeOK, Same, Free
<1>4. ASSUME NEW t \in Threads, NEW k \in Keys, Manage(t, k) PROVE HeldBy(u)'
  <2>1. CASE ChangesNothing(t) /\ \E p \in {"idle", "list"} : pc' = [pc EXCEPT ![t] = p]
    <3>1. token' = [token EXCEPT ![t] = None]
      BY <1>4 DEF Manage
    <3>2. QED
      BY <1>2, <2>1, <3>1 DEF ChangesNothing, TypeOK, Same, Free
  <2>2. CASE /\ target' = [target EXCEPT ![t] = k]
             /\ RowChanged(t, k, Live(k)')
             /\ \A j \in Keys \ {k} : (Live(j)' <=> Live(j)) /\ Listed'[j] = Listed[j]
             /\ \/ pc' = [pc EXCEPT ![t] = "list"] /\ held' = held
                \/ /\ pc' = [pc EXCEPT ![t] = "cacheInsert"]
                   /\ \E r \in Records : held' = [held EXCEPT ![t] = Only(k, r)] /\ AsGiven(k, r)'
    <3>1. CASE u = t /\ pc' = [pc EXCEPT ![t] = "list"]
      BY <1>2, <3>1 DEF TypeOK, Free
    <3>2. ASSUME u = t, pc' = [pc EXCEPT ![t] = "cacheInsert"], NEW r \in Records,
                 held' = [held EXCEPT ![t] = Only(k, r)], AsGiven(k, r)'
          PROVE  HeldBy(u)'
      <4>1. held'[u][k] = r /\ r # None
        BY <3>2, OnlyType, RowTypes DEF TypeOK
      <4>2. target'[u] = k /\ pc'[u] = "cacheInsert"
        BY <2>2, <3>2 DEF TypeOK
      <4>3. AsGiven(k, held[u][k])'
        BY <3>2, <4>1 DEF AsGiven
      <4>4. QED
        BY <4>1, <4>2, <4>3 DEF HeldBy
    <3>3. CASE u # t
      <4>1. /\ pc'[u] = pc[u] /\ token'[u] = token[u] /\ target'[u] = target[u]
            /\ held'[u] = held[u]
        BY <1>4, <2>2, <3>3 DEF Manage, TypeOK
      <4>2. moved'[u] = moved[u] \cup IF Holds(u) THEN {k} ELSE {}
        BY <2>2 DEF RowChanged
      <4>3. pc[u] = "cacheFill" => token[u] \in Keys
        BY DEF TypeOK
      <4>4. \A j \in Keys \ {k} : row'[j] = row[j] \/ ~ Live(j)
        BY <2>2 DEF Listed
      <4>5. \A j \in Keys \ {k} : \A r : AsGiven(j, r) => AsGiven(j, r)'
        BY <2>2, <4>4 DEF AsGiven
      <4>6. QED
        BY <1>1, <2>2, <4>1, <4>2, <4>3, <4>5 DEF HeldBy, Holds
    <3>4. QED
      BY <2>2, <3>1, <3>2, <3>3
  <2>3. QED
    BY <1>4, <2>1, <2>2 DEF Manage
<1>5. ASSUME NEW t \in Threads, Lookup(t) PROVE HeldBy(u)'
  <2>1. CASE u # t
    BY <1>2, <1>5, <2>1 DEF Lookup, Goto, store, history, TypeOK, Same
  <2>2. CASE u = t
    <3>1. token[t] \in Keys
      BY <1>5 DEF TypeOK, Lookup, Goto
    <3>2. held'[t][token[t]] = Listed[token[t]]
      BY <1>5, <3>1, OnlyType, ListedType DEF Lookup, TypeOK
    <3>3. /\ token' = token /\ row' = row /\ deleted' = deleted
          /\ pc'[t] = IF Live(token[t]) THEN "cacheFill" ELSE "refused"
      BY <1>5 DEF Lookup, Goto, store, TypeOK
    <3>4. QED
      BY <2>2, <3>1, <3>2, <3>3, ListedType, SameRows DEF HeldBy, TypeOK
  <2>3. QED
    BY <2>1, <2>2
<1>6. ASSUME NEW t \in Threads, List(t) PROVE HeldBy(u)'
  <2>1. CASE u # t
    BY <1>2, <1>6, <2>1 DEF List, Goto, store, history, TypeOK, Same
  <2>2. CASE u = t
    <3>1. UNCHANGED <<row, deleted>> /\ held'[t] = Listed /\ pc'[t] = "refresh"
      BY <1>6 DEF List, Goto, store, TypeOK
    <3>2. QED
      BY <2>2, <3>1, SameRows DEF HeldBy
  <2>3. QED
    BY <2>1, <2>2
<1>7. ASSUME NEW t \in Threads, CacheFill(t) \/ CacheInsert(t) \/ Refresh(t)
      PROVE  HeldBy(u)'
  BY <1>2, <1>7
  DEF CacheFill, CacheInsert, Refresh, DecideEntries, Goto, TypeOK, Same, Free
<1>8. ASSUME NEW t \in Threads, LookupFails(t) \/ Reread(t) \/ ListFails(t) \/ Answer(t)
      PROVE  HeldBy(u)'
  BY <1>2, <1>8
  DEF LookupFails, Reread, ListFails, Answer, Forget, Goto, store, history, TypeOK, Same, Free
<1>9. CASE Restart
  BY <1>2, <1>9 DEF Restart, Free
<1>10. CASE UNCHANGED vars
  BY <1>2, <1>10 DEF vars, store, history, Same
<1>11. QED
  BY <1>3, <1>4, <1>5, <1>6, <1>7, <1>8, <1>9, <1>10, ManageSteps DEF Next

-----------------------------------------------------------------------------
(* Why a cached record may differ from the table *)

\* A step explains k's entry anew, makes it the table's, or leaves both the
\* entry and its explanation alone.
LEMMA NextExplained ==
  ASSUME TypeOK, TypeOK', HeldOk, StaleIsExplained, DeadIsExplained, [Next]_vars
  PROVE  StaleIsExplained' /\ DeadIsExplained'
<1> SUFFICES ASSUME NEW k \in Keys
             PROVE  /\ cache'[k] \notin {None, Listed'[k]} =>
                         k \in raced' \cup missed' \/ Unwritten(k)' \/ AsGiven(k, cache[k])'
                    /\ cache'[k] # None /\ ~ Live(k)' =>
                         k \in raced' \cup missed' \/ Deciding(k)'
  BY DEF StaleIsExplained, DeadIsExplained, Unwritten
<1> DEFINE Goal == /\ cache'[k] \notin {None, Listed'[k]} =>
                        k \in raced' \cup missed' \/ Unwritten(k)' \/ AsGiven(k, cache[k])'
                   /\ cache'[k] # None /\ ~ Live(k)' =>
                        k \in raced' \cup missed' \/ Deciding(k)'
           Clean == cache'[k] \in {None, Listed'[k]}
           Given == AsGiven(k, cache[k])'
           Told == k \in raced' \cup missed'
           Stay(v) == /\ pc[v] \in {"list", "refresh"} => pc'[v] \in {"list", "refresh"}
                      /\ pc[v] = "cacheInsert" => pc'[v] = "cacheInsert"
                      /\ target'[v] = target[v]
           Keep == /\ cache'[k] = cache[k] /\ Listed'[k] = Listed[k]
                   /\ Live(k)' <=> Live(k)
                   /\ AsGiven(k, cache[k]) => Given
                   /\ k \in raced \cup missed => Told
                   /\ \A v \in Threads :
                        target[v] = k /\ pc[v] \in {"list", "refresh", "cacheInsert"} => Stay(v)
<1>1. ASSUME Clean PROVE Goal
  BY <1>1, ListedType DEF TypeOK, Listed
<1>2. ASSUME Told PROVE Goal
  BY <1>2
<1>0. ASSUME Given PROVE Goal
  BY <1>0 DEF AsGiven
<1>3. ASSUME Keep PROVE Goal
  BY <1>3 DEF StaleIsExplained, DeadIsExplained, Unwritten, Deciding
<1>4. ASSUME NEW t \in Threads, NEW j \in Keys, Manage(t, j) PROVE Goal
  <2>0. cache' = cache /\ raced' = raced /\ missed' = missed /\ pc[t] = "accepted"
    BY <1>4 DEF Manage
  <2>1. CASE ChangesNothing(t) /\ \E p \in {"idle", "list"} : pc' = [pc EXCEPT ![t] = p]
    <3>1. UNCHANGED <<row, deleted, target>>
      BY <2>1 DEF ChangesNothing
    <3>2. QED
      BY <1>3, <2>0, <2>1, <3>1, SameRows DEF TypeOK
  <2>2. CASE /\ target' = [target EXCEPT ![t] = j]
             /\ \A i \in Keys \ {j} : (Live(i)' <=> Live(i)) /\ Listed'[i] = Listed[i]
             /\ \/ pc' = [pc EXCEPT ![t] = "list"]
                \/ /\ pc' = [pc EXCEPT ![t] = "cacheInsert"]
                   /\ \E r \in Records : AsGiven(j, r)'
    <3>1. CASE k # j
      <4>1. \A v \in Threads :
              target[v] = k /\ pc[v] \in {"list", "refresh", "cacheInsert"} => Stay(v)
        BY <2>0, <2>2 DEF TypeOK
      <4>2. AsGiven(k, cache[k]) => Given
        BY <2>0, <2>2, <3>1 DEF AsGiven, Listed
      <4>3. QED
        BY <1>3, <2>0, <2>2, <3>1, <4>1, <4>2
    <3>2. CASE k = j
      BY <2>2, <3>2 DEF TypeOK, Unwritten, Deciding, AsGiven
    <3>3. QED
      BY <3>1, <3>2
  <2>3. QED
    BY <1>4, <2>1, <2>2 DEF Manage
<1>5. ASSUME NEW t \in Threads, CacheFill(t) \/ CacheInsert(t) \/ Refresh(t) PROVE Goal
  <2>1. UNCHANGED <<row, deleted>>
    BY <1>5 DEF CacheFill, CacheInsert, Refresh
  <2>2. PICK ks : /\ DecideEntries(t, ks)
                  /\ \A i \in ks \ moved[t] : i \in Keys => held[t][i] = Listed[i] \/ AsGiven(i, held[t][i])
                  /\ \A v \in Threads : target[v] = k /\ k \notin ks => Stay(v)
    <3>1. CASE CacheFill(t)
      <4>1. DecideEntries(t, {token[t]}) /\ pc[t] = "cacheFill" /\ target' = target
            /\ pc' = [pc EXCEPT ![t] = "reread"]
        BY <3>1 DEF CacheFill, Goto
      <4>2. token[t] \notin moved[t] => held[t][token[t]] = Listed[token[t]]
        BY <4>1 DEF HeldOk, HeldBy
      <4>3. \A v \in Threads : pc[v] # "cacheFill" => Stay(v)
        BY <4>1 DEF TypeOK
      <4>4. QED
        BY <4>1, <4>2, <4>3
    <3>2. CASE CacheInsert(t)
      <4>1. DecideEntries(t, {target[t]}) /\ pc[t] = "cacheInsert"
            /\ target' = [target EXCEPT ![t] = None] /\ pc' = [pc EXCEPT ![t] = "idle"]
        BY <3>2 DEF CacheInsert, Goto
      <4>2. target[t] \notin moved[t] => AsGiven(target[t], held[t][target[t]])
        BY <4>1 DEF HeldOk, HeldBy
      <4>3. \A v \in Threads \ {t} : Stay(v)
        BY <4>1 DEF TypeOK
      <4>4. QED
        BY <4>1, <4>2, <4>3
    <3>3. CASE Refresh(t)
      BY <3>3 DEF Refresh, Goto, HeldOk, HeldBy, TypeOK
    <3>4. QED
      BY <1>5, <3>1, <3>2, <3>3
  <2>3. CASE k \in ks
    <3>1. cache'[k] = held[t][k]
      BY <2>2, <2>3 DEF DecideEntries
    <3>2. CASE k \in moved[t]
      BY <1>2, <2>2, <2>3, <3>2 DEF DecideEntries
    <3>3. CASE k \notin moved[t]
      BY <1>0, <1>1, <2>1, <2>2, <2>3, <3>1, <3>3, SameRows DEF AsGiven
    <3>4. QED
      BY <3>2, <3>3
  <2>4. CASE k \notin ks
    <3>1. cache'[k] = cache[k] /\ (k \in raced \cup missed => Told)
      BY <2>2, <2>4 DEF DecideEntries
    <3>2. QED
      BY <1>3, <2>1, <2>2, <2>4, <3>1, SameRows
  <2>5. QED
    BY <2>3, <2>4
<1>6. ASSUME NEW t \in Threads, ListFails(t) PROVE Goal
  <2>1. CASE target[t] = k
    <3>1. Told
      BY <1>6, <2>1, KeyCacheAssumption DEF ListFails
    <3>2. QED
      BY <1>2, <3>1
  <2>2. CASE target[t] # k
    BY <1>3, <1>6, <2>2, SameRows DEF ListFails, Goto, store, TypeOK
  <2>3. QED
    BY <2>1, <2>2
<1>7. ASSUME NEW t \in Threads,
             \/ \E j \in Keys : BeginVerify(t, j)
             \/ Lookup(t) \/ LookupFails(t) \/ Reread(t) \/ List(t) \/ Answer(t)
      PROVE  Goal
  <2>1. UNCHANGED <<store, target, raced, missed>>
    BY <1>7 DEF BeginVerify, Lookup, LookupFails, Reread, List, Answer, history
  <2>2. \A v \in Threads : Stay(v)
    BY <1>7, <2>1
    DEF BeginVerify, Lookup, LookupFails, Reread, List, Answer, Goto, TypeOK
  <2>3. QED
    BY <1>3, <2>1, <2>2, SameRows DEF store
<1>8. CASE Restart
  BY <1>1, <1>8, SameRows DEF Restart
<1>9. CASE UNCHANGED vars
  BY <1>3, <1>9, SameRows DEF vars, store, history
<1>10. QED
  BY <1>4, <1>5, <1>6, <1>7, <1>8, <1>9, ManageSteps DEF Next

-----------------------------------------------------------------------------
(* What a verify in progress has seen *)

LEMMA NextVerdicts ==
  ASSUME TypeOK, TypeOK', HeldOk, VerdictsOk, [Next]_vars
  PROVE  VerdictsOk'
<1> SUFFICES ASSUME NEW u \in Threads PROVE VerdictOf(u)'
  BY DEF VerdictsOk
<1>1. VerdictOf(u)
  BY DEF VerdictsOk
<1> DEFINE Same == /\ \A k : Live(k)' <=> Live(k)
                   /\ pc'[u] = pc[u] /\ token'[u] = token[u]
                   /\ u \in wasLive => u \in wasLive'
                   /\ u \in wasDead => u \in wasDead'
                   /\ u \in swept => u \in swept'
           Free == pc'[u] \notin {"lookup", "cacheFill", "reread"}
<1>2. ASSUME Free PROVE VerdictOf(u)'
  BY <1>2 DEF VerdictOf
<1>3. ASSUME Same, pc[u] = "reread" => cache'[token[u]] # None \/ cache'[token[u]] = cache[token[u]]
      PROVE  VerdictOf(u)'
  BY <1>1, <1>3 DEF VerdictOf
<1>4. ASSUME NEW t \in Threads, NEW k \in Keys, BeginVerify(t, k) PROVE VerdictOf(u)'
  <2>1. UNCHANGED <<row, deleted, cache, swept>>
    BY <1>4 DEF BeginVerify, store
  <2>2. CASE u # t
    BY <1>3, <1>4, <2>1, <2>2, SameRows DEF BeginVerify, Goto, TypeOK
  <2>3. CASE u = t
    <3>1. token'[t] = k /\ pc'[t] # "reread" /\ (Live(k)' <=> Live(k))
      BY <1>4, <2>1, SameRows DEF BeginVerify, Goto, TypeOK
    <3>2. t \in IF Live(k) THEN wasLive' ELSE wasDead'
      BY <1>4 DEF BeginVerify
    <3>3. QED
      BY <2>3, <3>1, <3>2 DEF VerdictOf
  <2>4. QED
    BY <2>2, <2>3
<1>5. ASSUME NEW t \in Threads, NEW k \in Keys, Manage(t, k) PROVE VerdictOf(u)'
  <2>1. /\ pc[t] = "accepted" /\ cache' = cache
        /\ token' = [token EXCEPT ![t] = None] /\ swept' = swept \ {t}
    BY <1>5 DEF Manage
  <2>2. CASE ChangesNothing(t) /\ \E p \in {"idle", "list"} : pc' = [pc EXCEPT ![t] = p]
    BY <1>2, <1>3, <2>1, <2>2, SameRows DEF ChangesNothing, TypeOK
  <2>3. CASE /\ RowChanged(t, k, Live(k)')
             /\ \A j \in Keys \ {k} : (Live(j)' <=> Live(j)) /\ Listed'[j] = Listed[j]
             /\ \E p \in {"list", "cacheInsert"} : pc' = [pc EXCEPT ![t] = p]
    <3>1. CASE u = t
      BY <1>2, <2>3, <3>1 DEF TypeOK
    <3>2. CASE u # t
      <4>1. /\ pc'[u] = pc[u] /\ token'[u] = token[u]
            /\ u \in wasLive => u \in wasLive'
            /\ u \in wasDead => u \in wasDead'
            /\ u \in swept => u \in swept'
        BY <2>1, <2>3, <3>2 DEF RowChanged, TypeOK
      <4>2. CASE pc[u] \in {"lookup", "cacheFill", "reread"} /\ token[u] = k
        <5>1. u \in IF Live(k)' THEN wasLive' ELSE wasDead'
          BY <2>3, <4>2 DEF RowChanged
        <5>2. QED
          BY <1>1, <2>1, <4>1, <4>2, <5>1 DEF VerdictOf
      <4>3. CASE pc[u] \in {"lookup", "cacheFill", "reread"} /\ token[u] # k
        <5>1. PICK j \in Keys : j = token[u]
          BY <4>3 DEF TypeOK
        <5>2. Live(j)' <=> Live(j)
          BY <2>3, <4>3, <5>1
        <5>3. QED
          BY <1>1, <2>1, <4>1, <4>3, <5>1, <5>2 DEF VerdictOf
      <4>4. QED
        BY <1>2, <4>1, <4>2, <4>3
    <3>3. QED
      BY <3>1, <3>2
  <2>4. QED
    BY <1>5, <2>2, <2>3 DEF Manage
<1>6. ASSUME NEW t \in Threads, CacheFill(t) PROVE VerdictOf(u)'
  <2>1. /\ UNCHANGED <<row, deleted, token, verdicts>> /\ DecideEntries(t, {token[t]})
        /\ pc[t] = "cacheFill" /\ pc' = [pc EXCEPT ![t] = "reread"]
    BY <1>6 DEF CacheFill, Goto
  <2>2. token[t] \in Keys /\ cache'[token[t]] # None
    BY <2>1 DEF DecideEntries, HeldOk, HeldBy, TypeOK
  <2>3. CASE u = t
    BY <1>1, <2>1, <2>2, <2>3, SameRows DEF VerdictOf, TypeOK, verdicts
  <2>4. CASE u # t
    <3>1. pc[u] = "reread" => \/ cache'[token[u]] # None
                              \/ cache'[token[u]] = cache[token[u]]
      BY <2>1, <2>2 DEF DecideEntries, TypeOK
    <3>2. QED
      BY <1>3, <2>1, <2>4, <3>1, SameRows DEF TypeOK, verdicts
  <2>5. QED
    BY <2>3, <2>4
<1>7. ASSUME NEW t \in Threads, CacheInsert(t) PROVE VerdictOf(u)'
  <2>1. /\ UNCHANGED <<row, deleted, token, verdicts>> /\ DecideEntries(t, {target[t]})
        /\ pc[t] = "cacheInsert" /\ pc' = [pc EXCEPT ![t] = "idle"]
    BY <1>7 DEF CacheInsert, Goto
  <2>2. target[t] \in Keys /\ cache'[target[t]] # None
    BY <2>1 DEF DecideEntries, HeldOk, HeldBy, TypeOK
  <2>3. pc[u] = "reread" => \/ cache'[token[u]] # None
                            \/ cache'[token[u]] = cache[token[u]]
    BY <2>1, <2>2 DEF DecideEntries, TypeOK
  <2>4. QED
    BY <1>2, <1>3, <2>1, <2>3, SameRows DEF TypeOK, verdicts
<1>8. ASSUME NEW t \in Threads, Refresh(t) PROVE VerdictOf(u)'
  <2>1. /\ UNCHANGED <<row, deleted, token, wasLive, wasDead>> /\ DecideEntries(t, Keys)
        /\ swept' = swept \cup {v \in Threads : pc[v] = "reread" /\ token[v] \in moved[t]}
        /\ pc[t] = "refresh" /\ pc' = [pc EXCEPT ![t] = "idle"]
    BY <1>8 DEF Refresh, Goto
  <2>2. CASE u # t /\ pc[u] = "reread" /\ token[u] \notin moved[t] /\ cache'[token[u]] = None
    <3>1. token[u] \in Keys
      BY <2>2 DEF TypeOK
    <3>2. cache'[token[u]] = Listed[token[u]]
      BY <2>1, <2>2, <3>1 DEF DecideEntries, HeldOk, HeldBy
    <3>3. ~ Live(token[u])
      BY <2>2, <3>1, <3>2, ListedType DEF TypeOK
    <3>4. u \in wasDead'
      BY <1>1, <2>1, <2>2, <3>3 DEF VerdictOf
    <3>5. QED
      BY <1>1, <2>1, <2>2, <3>3, <3>4, SameRows DEF VerdictOf, TypeOK
  <2>3. CASE u # t /\ pc[u] = "reread" /\ token[u] \in moved[t]
    BY <1>1, <2>1, <2>3, SameRows DEF VerdictOf, TypeOK
  <2>4. CASE u = t \/ pc[u] # "reread" \/ cache'[token[u]] # None
    BY <1>2, <1>3, <2>1, <2>4, SameRows DEF TypeOK
  <2>5. QED
    BY <2>2, <2>3, <2>4
<1>9. ASSUME NEW t \in Threads,
             Lookup(t) \/ LookupFails(t) \/ Reread(t) \/ List(t) \/ ListFails(t) \/ Answer(t)
      PROVE  VerdictOf(u)'
  <2>1. UNCHANGED store
    BY <1>9 DEF Lookup, LookupFails, Reread, List, ListFails, Answer
  <2>2. CASE u = t
    <3>1. CASE Lookup(t)
      BY <1>1, <2>1, <2>2, <3>1, SameRows
      DEF Lookup, Goto, VerdictOf, TypeOK, store, history, verdicts
    <3>2. CASE List(t) \/ ListFails(t) \/ LookupFails(t) \/ Reread(t) \/ Answer(t)
      BY <1>2, <2>2, <3>2 DEF List, ListFails, LookupFails, Reread, Answer, Goto, TypeOK
    <3>3. QED
      BY <1>9, <3>1, <3>2
  <2>3. CASE u # t
    BY <1>3, <1>9, <2>1, <2>3, SameRows
    DEF Lookup, LookupFails, Reread, List, ListFails, Answer, Forget, Goto, TypeOK, store,
        history, verdicts
  <2>4. QED
    BY <2>2, <2>3
<1>10. CASE Restart
  BY <1>2, <1>10 DEF Restart
<1>11. CASE UNCHANGED vars
  BY <1>3, <1>11, SameRows DEF vars, store, history, verdicts
<1>12. QED
  BY <1>4, <1>5, <1>6, <1>7, <1>8, <1>9, <1>10, <1>11, ManageSteps DEF Next

-----------------------------------------------------------------------------
(* The theorems *)

IInv == TypeOK /\ HeldOk /\ StaleIsExplained /\ DeadIsExplained /\ VerdictsOk

LEMMA InitIInv == Init => IInv
<1> SUFFICES ASSUME Init PROVE IInv
  OBVIOUS
<1>1. TypeOK
  BY InitTypes
<1>2. \A t \in Threads : pc[t] = "idle"
  BY DEF Init
<1>3. StaleIsExplained
  BY DEF Init, StaleIsExplained
<1>4. DeadIsExplained
  BY <1>1, ListedType DEF Init, DeadIsExplained, TypeOK
<1>5. QED
  BY <1>1, <1>2, <1>3, <1>4 DEF IInv, HeldOk, HeldBy, VerdictsOk, VerdictOf

LEMMA NextIInv == IInv /\ [Next]_vars => IInv'
<1> SUFFICES ASSUME IInv, [Next]_vars PROVE IInv'
  OBVIOUS
<1>1. TypeOK'
  BY NextTypes DEF IInv
<1>2. QED
  BY <1>1, NextHeld, NextExplained, NextVerdicts DEF IInv

LEMMA CacheInvariant == Spec => []IInv
  BY InitIInv, NextIInv, PTL DEF Spec

\* Whatever the interleaving of verifications and of administrators' changes,
\* failed reads and restarts: a cached record differs from the table's only while
\* the change is being written, after a failed refresh, after a thread that was
\* overtaken wrote what it had read before, or by the rules its key was created with,
\* whatever these are and whatever their normal form (StaleIsExplained).
THEOREM StaleRecordsExplained == Spec => []StaleIsExplained
  BY CacheInvariant, PTL DEF IInv

\* The steps that accept or refuse a request.
LEMMA Deciders ==
  ASSUME TypeOK, TypeOK', Next, NEW t \in Threads
  PROVE  /\ pc[t] # "accepted" /\ pc'[t] = "accepted" =>
              Reread(t) \/ \E k \in Keys : BeginVerify(t, k)
         /\ pc[t] # "refused" /\ pc'[t] = "refused" =>
              Lookup(t) \/ LookupFails(t) \/ Reread(t)
<1> DEFINE Neither == pc'[t] \in {"accepted", "refused"} => pc'[t] = pc[t]
<1>1. ASSUME NEW u \in Threads, NEW k \in Keys, Manage(u, k) PROVE Neither
  BY <1>1 DEF Manage, TypeOK
<1>2. ASSUME NEW u \in Threads,
             CacheFill(u) \/ CacheInsert(u) \/ List(u) \/ ListFails(u) \/ Refresh(u) \/ Answer(u)
      PROVE  Neither
  BY <1>2 DEF CacheFill, CacheInsert, List, ListFails, Refresh, Answer, Goto, TypeOK
<1>3. ASSUME NEW u \in Threads, u # t, Lookup(u) \/ LookupFails(u) \/ Reread(u)
      PROVE  Neither
  BY <1>3 DEF Lookup, LookupFails, Reread, Goto, TypeOK
<1>4. ASSUME NEW u \in Threads, u # t, NEW k \in Keys, BeginVerify(u, k) PROVE Neither
  BY <1>4 DEF BeginVerify, Goto, TypeOK
<1>5. CASE Restart
  BY <1>5 DEF Restart
<1>6. ASSUME NEW k \in Keys, BeginVerify(t, k) PROVE pc'[t] # "refused"
  BY <1>6 DEF BeginVerify, Goto, TypeOK
<1>7. Lookup(t) \/ LookupFails(t) => pc'[t] # "accepted"
  BY DEF Lookup, LookupFails, Goto, TypeOK
<1>8. QED
  BY <1>1, <1>2, <1>3, <1>4, <1>5, <1>6, <1>7, ManageSteps DEF Next

\* A request is accepted only if its key was live at some time of its verify, or
\* the cache was stale about it in one of the explained ways (AcceptsLive).
THEOREM AcceptedWasLive == Spec => AcceptsLive
<1>1. ASSUME IInv, IInv', Next, NEW t \in Threads, pc[t] # "accepted", pc'[t] = "accepted"
      PROVE  t \in wasLive' \/ token'[t] \in raced \cup missed \/ Deciding(token'[t])
  <2>1. Reread(t) \/ \E k \in Keys : BeginVerify(t, k)
    BY <1>1, Deciders DEF IInv
  <2>2. TypeOK /\ DeadIsExplained /\ VerdictsOk
    BY <1>1 DEF IInv
  <2>3. PICK k \in Keys : token'[t] = k /\ cache[k] # None /\ (Live(k) => t \in wasLive')
    <3>1. CASE Reread(t)
      BY <1>1, <2>2, <3>1 DEF Reread, Goto, TypeOK, VerdictsOk, VerdictOf, history, verdicts
    <3>2. CASE \E k \in Keys : BeginVerify(t, k)
      BY <1>1, <2>2, <3>2 DEF BeginVerify, Goto, TypeOK
    <3>3. QED
      BY <2>1, <3>1, <3>2
  <2>4. QED
    BY <2>2, <2>3 DEF DeadIsExplained
<1>2. IInv /\ IInv' /\ [Next]_vars =>
        [\A t \in Threads :
           pc[t] # "accepted" /\ pc'[t] = "accepted" =>
             LET k == token'[t] IN
             \/ t \in wasLive'
             \/ k \in raced \cup missed
             \/ \E u \in Threads : target[u] = k /\ pc[u] \in {"list", "refresh"}]_vars
  BY <1>1 DEF Deciding
<1>3. QED
  BY <1>2, CacheInvariant, PTL DEF Spec, AcceptsLive

\* A request is refused only if its key was not live at some time of its verify or
\* could not be looked up, or its new cache entry was swept away by an outdated
\* refresh (RefusesDead).
THEOREM RefusedWasDead == Spec => RefusesDead
<1>1. ASSUME IInv, IInv', Next, NEW t \in Threads, pc[t] # "refused", pc'[t] = "refused"
      PROVE  t \in wasDead' \cup swept
  <2>1. Lookup(t) \/ LookupFails(t) \/ Reread(t)
    BY <1>1, Deciders DEF IInv
  <2>2. TypeOK /\ VerdictsOk
    BY <1>1 DEF IInv
  <2>3. QED
    BY <1>1, <2>1, <2>2
    DEF Lookup, LookupFails, Reread, Goto, TypeOK, VerdictsOk, VerdictOf, history, verdicts
<1>2. IInv /\ IInv' /\ [Next]_vars =>
        [\A t \in Threads :
           pc[t] # "refused" /\ pc'[t] = "refused" => t \in wasDead' \cup swept]_vars
  BY <1>1
<1>3. QED
  BY <1>2, CacheInvariant, PTL DEF Spec, RefusesDead
=============================================================================
