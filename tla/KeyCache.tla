------------------------------ MODULE KeyCache ------------------------------
(***************************************************************************)
(* The key table of the database (shared/sqlite/key_store.rs), the cache   *)
(* in front of it (auth/keys.rs) and the requests that use both: verify,   *)
(* which every server calls for every request, and the key routes of the   *)
(* management server (management/routes/keys.rs).                          *)
(*                                                                         *)
(* The connection's mutex makes a statement or a transaction one step; the *)
(* cache's RwLock makes a read or a write of the cache one step.  Nothing  *)
(* holds both, so what a thread has read of the table may be out of date   *)
(* when it writes the cache, and that is what this module is about.        *)
(*                                                                         *)
(* A record is represented by its name, the field under a constraint, and  *)
(* one of its two lists of model rules; its role never changes, so it is a *)
(* constant of the key.  A rule list is the set of its entries: neither    *)
(* their order nor a repetition means anything to the policy.  An entry is *)
(* the model it is about, None if it is blank, and whether there is white  *)
(* space around it.                                                        *)
(***************************************************************************)
EXTENDS Integers, FiniteSets

CONSTANTS
  Threads,   \* threads of the servers' pools, each handling one request
  Keys,      \* keys; token and id are one to one, and never used again
  Admins,    \* the keys whose role is Admin
  FirstKey,  \* the key seed_bootstrap_admin creates
  Names,     \* names of keys
  RuleLists, \* the rule lists that a POST /key may give
  None,      \* no record, no key, no model
  MaxFaults, \* bound on failed reads of the table
  MaxCrashes \* bound on restarts of the process

\* normalize_models, which insert_model_rules writes a list through: entries are
\* trimmed, blank ones left out.
NormalizeModels(rules) ==
  {[entry EXCEPT !.padded = FALSE] : entry \in {e \in rules : e.model # None}}

\* What a row may hold, and what a KeyRecord may: a row, or what was asked for.
Stored  == {NormalizeModels(l) : l \in RuleLists \cup {{}}}
Rows    == [name : Names, rules : Stored]
Records == [name : Names, rules : Stored \cup RuleLists]

ASSUME KeyCacheAssumption ==
  /\ Admins \subseteq Keys
  /\ FirstKey \in Admins
  /\ \A l \in RuleLists : \A e \in l : e = [model |-> e.model, padded |-> e.padded]
  /\ None \notin Records \cup Keys
  /\ MaxFaults \in Nat
  /\ MaxCrashes \in Nat

VARIABLES
  row,      \* key -> its row of the table and the rules kept for it, or None
  deleted,  \* keys whose row has deleted = 1
  cache,    \* KeyStore::cache
  pc,       \* thread -> where its request stands
  token,    \* thread -> the key its request presents
  target,   \* thread -> the key its operation is about
  held,     \* thread -> what it has read and not yet written to the cache
  faults,   \* failed reads so far (bounded)
  crashes,  \* restarts so far (bounded)
  moved,    \* thread -> rows changed since it read what it holds (history)
  raced,    \* keys whose cache entry was last decided by a thread that held
            \* an outdated read of its row (history)
  missed,   \* keys changed by a request whose refresh failed (history)
  wasLive,  \* threads whose token was live at some time of their verify
  wasDead,  \* threads whose token was not, or whose lookup failed (history)
  swept     \* threads whose token an outdated refresh dropped (history)

store    == <<row, deleted, cache>>
verdicts == <<wasLive, wasDead, swept>>
history  == <<moved, raced, missed, verdicts>>
vars     == <<store, pc, token, target, held, faults, crashes, history>>

Live(k) == row[k] # None /\ k \notin deleted

\* list_keys, fetch_key_by_token: the records of the table.
Listed     == [k \in Keys |-> IF Live(k) THEN row[k] ELSE None]
NoRecord   == [k \in Keys |-> None]
Only(k, r) == [NoRecord EXCEPT ![k] = r]

\* Between a read of the table and the write of the cache it is for.
Holds(t) == pc[t] \in {"cacheFill", "cacheInsert", "refresh"}

-----------------------------------------------------------------------------
\* KeyStore::new: the table has its first admin and the cache lists the table.
Init ==
  /\ \E n \in Names :
       row = [NoRecord EXCEPT ![FirstKey] = [name |-> n, rules |-> NormalizeModels({})]]
  /\ deleted = {}
  /\ cache = Listed
  /\ pc = [t \in Threads |-> "idle"]
  /\ token = [t \in Threads |-> None]
  /\ target = [t \in Threads |-> None]
  /\ held = [t \in Threads |-> NoRecord]
  /\ faults = 0
  /\ crashes = 0
  /\ moved = [t \in Threads |-> {}]
  /\ raced = {}
  /\ missed = {}
  /\ wasLive = {}
  /\ wasDead = {}
  /\ swept = {}

Goto(t, from, to) == pc[t] = from /\ pc' = [pc EXCEPT ![t] = to]

\* t changes k's row: every other thread that holds a read of it is overtaken,
\* and a verify of k in progress sees it live or not from now on.
RowChanged(t, k, live) ==
  LET verifying == {u \in Threads : token[u] = k /\ pc[u] \in {"lookup", "cacheFill", "reread"}} IN
  /\ moved' = [u \in Threads |-> moved[u] \cup IF Holds(u) THEN {k} ELSE {}]
  /\ wasLive' = (wasLive \ {t}) \cup IF live THEN verifying ELSE {}
  /\ wasDead' = (wasDead \ {t}) \cup IF live THEN {} ELSE verifying

\* What t holds of the keys in ks becomes their cache entries.
DecideEntries(t, ks) ==
  /\ cache' = [k \in Keys |-> IF k \in ks THEN held[t][k] ELSE cache[k]]
  /\ raced' = (raced \ ks) \cup (ks \cap moved[t])
  /\ missed' = missed \ ks
  /\ held' = [held EXCEPT ![t] = NoRecord]
  /\ moved' = [moved EXCEPT ![t] = {}]

Forget(t) ==
  /\ token' = [token EXCEPT ![t] = None]
  /\ wasLive' = wasLive \ {t}
  /\ wasDead' = wasDead \ {t}
  /\ swept' = swept \ {t}

-----------------------------------------------------------------------------
(* verify: fetch, then insert, then read again *)

\* The cache is asked for the token of a new request.
BeginVerify(t, k) ==
  /\ Goto(t, "idle", IF cache[k] # None THEN "accepted" ELSE "lookup")
  /\ token' = [token EXCEPT ![t] = k]
  /\ wasLive' = IF Live(k) THEN wasLive \cup {t} ELSE wasLive
  /\ wasDead' = IF Live(k) THEN wasDead ELSE wasDead \cup {t}
  /\ UNCHANGED <<store, target, held, faults, crashes, moved, raced, missed, swept>>

Lookup(t) ==
  LET k == token[t] IN
  /\ Goto(t, "lookup", IF Live(k) THEN "cacheFill" ELSE "refused")
  /\ held' = [held EXCEPT ![t] = Only(k, Listed[k])]
  /\ UNCHANGED <<store, token, target, faults, crashes, history>>

\* A lookup that fails is logged and refuses the request.
LookupFails(t) ==
  /\ faults < MaxFaults
  /\ Goto(t, "lookup", "refused")
  /\ faults' = faults + 1
  /\ wasDead' = wasDead \cup {t}
  /\ UNCHANGED <<store, token, target, held, crashes, moved, raced, missed,
                 wasLive, swept>>

\* Variants (suffix _Bug...) are wrong on purpose: each shows that a property
\* stated below can fail.  This one replaces the cache by what was fetched.
CacheFill_BugReplacesAll(t) ==
  /\ Goto(t, "cacheFill", "reread")
  /\ DecideEntries(t, Keys)
  /\ UNCHANGED <<row, deleted, token, target, faults, crashes, verdicts>>

CacheFill(t) ==
  /\ Goto(t, "cacheFill", "reread")
  /\ DecideEntries(t, {token[t]})
  /\ UNCHANGED <<row, deleted, token, target, faults, crashes, verdicts>>

Reread(t) ==
  /\ Goto(t, "reread", IF cache[token[t]] # None THEN "accepted" ELSE "refused")
  /\ UNCHANGED <<store, token, target, held, faults, crashes, history>>

\* Any request but a change of the keys, and every refusal, ends here.
Answer(t) ==
  /\ pc[t] \in {"accepted", "refused"}
  /\ pc' = [pc EXCEPT ![t] = "idle"]
  /\ Forget(t)
  /\ UNCHANGED <<store, target, held, faults, crashes, moved, raced, missed>>

-----------------------------------------------------------------------------
(* POST, PATCH and DELETE /key, for a request accepted with an admin key *)

\* The name and value columns are UNIQUE, over deleted rows too.
NameFree(n, k) == \A j \in Keys \ {k} : row[j] # None => row[j].name # n

\* A request accepted with an admin key changes the table, and goes on with the
\* step that brings the cache up to date or ends.
Manages(t, next) ==
  /\ pc[t] = "accepted"
  /\ token[t] \in Admins
  /\ pc' = [pc EXCEPT ![t] = next]
  /\ token' = [token EXCEPT ![t] = None]
  /\ swept' = swept \ {t}

Changes(t, k, live) ==
  /\ target' = [target EXCEPT ![t] = k]
  /\ RowChanged(t, k, live)

ChangesNothing(t) ==
  /\ wasLive' = wasLive \ {t}
  /\ wasDead' = wasDead \ {t}
  /\ UNCHANGED <<row, deleted, held, target, moved>>

\* insert_key commits the row of a key never seen before, its rules normalised,
\* and returns the record with the rules as they were given; 409 if its name is
\* taken.
InsertRow(t, k, n, l) ==
  /\ row[k] = None
  /\ \/ /\ NameFree(n, k)
        /\ Manages(t, "cacheInsert")
        /\ row' = [row EXCEPT ![k] = [name |-> n, rules |-> NormalizeModels(l)]]
        /\ held' = [held EXCEPT ![t] = Only(k, [name |-> n, rules |-> l])]
        /\ Changes(t, k, TRUE)
        /\ UNCHANGED deleted
     \/ ~ NameFree(n, k) /\ Manages(t, "idle") /\ ChangesNothing(t)
  /\ UNCHANGED <<cache, faults, crashes, raced, missed>>

\* insert caches the record that insert_key returned.
CacheInsert(t) ==
  /\ Goto(t, "cacheInsert", "idle")
  /\ DecideEntries(t, {target[t]})
  /\ target' = [target EXCEPT ![t] = None]
  /\ UNCHANGED <<row, deleted, token, faults, crashes, verdicts>>

\* A rename that does not refresh the cache.
UpdateRow_BugNoRefresh(t, k, n) ==
  /\ Live(k)
  /\ Manages(t, "idle")
  /\ row' = [row EXCEPT ![k].name = n]
  /\ RowChanged(t, k, TRUE)
  /\ UNCHANGED <<cache, faults, crashes, raced, missed, deleted, held, target>>

\* update_key leaves the table alone if the row is missing or deleted (404), and
\* the cache is refreshed nevertheless; a taken name rolls the transaction back
\* and returns without a refresh (409).
UpdateRow(t, k, n) ==
  /\ \/ /\ Live(k) /\ NameFree(n, k)
        /\ Manages(t, "list")
        /\ row' = [row EXCEPT ![k].name = n]
        /\ Changes(t, k, TRUE)
        /\ UNCHANGED <<deleted, held>>
     \/ Live(k) /\ ~ NameFree(n, k) /\ Manages(t, "idle") /\ ChangesNothing(t)
     \/ ~ Live(k) /\ Manages(t, "list") /\ ChangesNothing(t)
  /\ UNCHANGED <<cache, faults, crashes, raced, missed>>

\* A deletion that removes the row, and one that does not refresh the cache.
DeleteRow_BugDropsRow(t, k) ==
  /\ Live(k)
  /\ Manages(t, "list")
  /\ deleted' = deleted \cup {k}
  /\ row' = [row EXCEPT ![k] = None]
  /\ Changes(t, k, FALSE)
  /\ UNCHANGED <<cache, faults, crashes, raced, missed, held>>

DeleteRow_BugNoRefresh(t, k) ==
  /\ Live(k)
  /\ Manages(t, "idle")
  /\ deleted' = deleted \cup {k}
  /\ RowChanged(t, k, FALSE)
  /\ UNCHANGED <<cache, faults, crashes, raced, missed, row, held, target>>

\* delete_key: 404 and no refresh unless a row was changed.
DeleteRow(t, k) ==
  /\ \/ /\ Live(k)
        /\ Manages(t, "list")
        /\ deleted' = deleted \cup {k}
        /\ Changes(t, k, FALSE)
        /\ UNCHANGED <<row, held>>
     \/ ~ Live(k) /\ Manages(t, "idle") /\ ChangesNothing(t)
  /\ UNCHANGED <<cache, faults, crashes, raced, missed>>

-----------------------------------------------------------------------------
(* refresh_cache *)

List(t) ==
  /\ Goto(t, "list", "refresh")
  /\ held' = [held EXCEPT ![t] = Listed]
  /\ UNCHANGED <<store, token, target, faults, crashes, history>>

\* The route answers 500 although the row is changed, and the cache keeps the
\* old record: a repeated deletion is answered 404 and refreshes nothing.
ListFails(t) ==
  /\ faults < MaxFaults
  /\ Goto(t, "list", "idle")
  /\ faults' = faults + 1
  /\ missed' = missed \cup ({target[t]} \ {None})
  /\ target' = [target EXCEPT ![t] = None]
  /\ UNCHANGED <<store, token, held, crashes, moved, raced, verdicts>>

\* The whole cache is replaced; the route answers 200 or 204.
Refresh(t) ==
  /\ Goto(t, "refresh", "idle")
  /\ DecideEntries(t, Keys)
  /\ swept' = swept \cup {u \in Threads : pc[u] = "reread" /\ token[u] \in moved[t]}
  /\ target' = [target EXCEPT ![t] = None]
  /\ UNCHANGED <<row, deleted, token, faults, crashes, wasLive, wasDead>>

\* The process stops at any point and starts again: the table is what was
\* committed, KeyStore::new lists it, every request in progress is lost.
Restart ==
  /\ crashes < MaxCrashes
  /\ crashes' = crashes + 1
  /\ cache' = Listed
  /\ pc' = [t \in Threads |-> "idle"]
  /\ token' = [t \in Threads |-> None]
  /\ target' = [t \in Threads |-> None]
  /\ held' = [t \in Threads |-> NoRecord]
  /\ moved' = [t \in Threads |-> {}]
  /\ raced' = {}
  /\ missed' = {}
  /\ wasLive' = {}
  /\ wasDead' = {}
  /\ swept' = {}
  /\ UNCHANGED <<row, deleted, faults>>

Next ==
  \/ \E t \in Threads :
       \/ \E k \in Keys : BeginVerify(t, k) \/ DeleteRow(t, k)
       \/ \E k \in Keys, n \in Names :
            UpdateRow(t, k, n) \/ \E l \in RuleLists : InsertRow(t, k, n, l)
       \/ Lookup(t) \/ LookupFails(t) \/ CacheFill(t) \/ Reread(t)
       \/ CacheInsert(t) \/ List(t) \/ ListFails(t) \/ Refresh(t) \/ Answer(t)
  \/ Restart

Spec == Init /\ [][Next]_vars

-----------------------------------------------------------------------------
(* Properties *)

\* Types; a thread holds a read only between it and its write of the cache, and
\* presents a token only until its request is accepted and served.
TypeOK ==
  /\ row \in [Keys -> Rows \cup {None}]
  /\ deleted \subseteq {k \in Keys : row[k] # None}
  /\ cache \in [Keys -> Records \cup {None}]
  /\ pc \in [Threads -> {"idle", "lookup", "cacheFill", "reread", "accepted", "refused",
                         "cacheInsert", "list", "refresh"}]
  /\ token \in [Threads -> Keys \cup {None}]
  /\ target \in [Threads -> Keys \cup {None}]
  /\ held \in [Threads -> [Keys -> Records \cup {None}]]
  /\ faults \in 0..MaxFaults
  /\ crashes \in 0..MaxCrashes
  /\ moved \in [Threads -> SUBSET Keys]
  /\ raced \subseteq Keys
  /\ missed \subseteq Keys
  /\ \A x \in {wasLive, wasDead, swept} : x \subseteq Threads
  /\ \A t \in Threads :
       /\ ~ Holds(t) => held[t] = NoRecord /\ moved[t] = {}
       /\ token[t] # None <=> pc[t] \in {"lookup", "cacheFill", "reread", "accepted", "refused"}

\* The record is k's row but for its rules, which are as k's creator gave them.
AsGiven(k, record) ==
  Live(k) /\ record.name = row[k].name /\ NormalizeModels(record.rules) = row[k].rules

\* A cached record differs from the table's only while the request that changed
\* the row has not written the cache yet, or after its refresh failed, or after
\* a thread overtaken by the change wrote what it had read before (verify's
\* fetch, another administrator's list), or by the rules that its key was created
\* with and that the table keeps normalised (key_store.rs:384).  Nothing else, and
\* no restart, leaves a stale record behind.
StaleIsExplained ==
  \A k \in Keys : cache[k] \notin {None, Listed[k]} =>
    \/ k \in raced \cup missed
    \/ \E t \in Threads : target[t] = k /\ pc[t] \in {"list", "refresh", "cacheInsert"}
    \/ AsGiven(k, cache[k])

\* A request is accepted only if its key was in the table, not deleted, at some
\* time of its verify; or the cached record was a stale one in the above sense.
AcceptsLive ==
  [][\A t \in Threads :
       pc[t] # "accepted" /\ pc'[t] = "accepted" =>
         LET k == token'[t] IN
         \/ t \in wasLive'
         \/ k \in raced \cup missed
         \/ \E u \in Threads : target[u] = k /\ pc[u] \in {"list", "refresh"}]_vars

\* A request is refused only if its key was not in the table at some time of its
\* verify or could not be looked up; or the record verify had just inserted was
\* dropped by a refresh that had listed the table before the key was there.
RefusesDead ==
  [][\A t \in Threads :
       pc[t] # "refused" /\ pc'[t] = "refused" => t \in wasDead' \cup swept]_vars
=============================================================================
