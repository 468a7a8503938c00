------------------------------- MODULE Caches -------------------------------
(***************************************************************************)
(* One catalogue answer in the two caches: a dictionary per worker and     *)
(* Redis behind it (app/services/response_cache.py, shared_cache.py).      *)
(* Values are the versions of what the database holds; a request gives up  *)
(* the worker at every await, and lasts no longer than Lag.                *)
(***************************************************************************)
EXTENDS Naturals

CONSTANTS
  Workers, Readers, Editors,
  Ttl, Lag,             \* CATALOG_TTL_SECONDS; the longest request
  MaxTime, MaxVersion,  \* bounds: time, edits
  None

VARIABLES
  now,
  version,   \* what the database holds
  replaced,  \* history: when a version stopped being true
  local,     \* _CACHE of a worker: the value and when it expires
  shared,    \* the key in Redis, likewise
  req        \* a reader's or an editor's request

vars == <<now, version, replaced, local, shared, req>>

Nothing == [value |-> None, till |-> 0]
Idle    == [at |-> "idle", on |-> None, value |-> None, since |-> 0]

Init ==
  /\ now = 0 /\ version = 0
  /\ replaced = [v \in 0..MaxVersion |-> None]
  /\ local = [w \in Workers |-> Nothing] /\ shared = Nothing
  /\ req = [r \in Readers \cup Editors |-> Idle]

Entry(v) == [value |-> v, till |-> now + Ttl]
Answer(r) == req' = [req EXCEPT ![r] = Idle]
Lives(e) == IF now + 1 >= e.till THEN Nothing ELSE e

-----------------------------------------------------------------------------
(* cache_get_or_set, when the dictionary of the worker does not answer.    *)
Ask(r, w) ==
  /\ req[r] = Idle /\ local[w] = Nothing
  /\ req' = [req EXCEPT ![r] = [at |-> "get", on |-> w, value |-> None, since |-> now]]
  /\ UNCHANGED <<now, version, replaced, local, shared>>

(* The GET in Redis; a Redis that fails is a miss.                         *)
GetShared(r) ==
  /\ req[r].at = "get"
  /\ \/ req' = [req EXCEPT ![r].at = "load"]
     \/ shared # Nothing /\ req' = [req EXCEPT ![r].at = "found", ![r].value = shared.value]
  /\ UNCHANGED <<now, version, replaced, local, shared>>

(* Mutant: whatever is read from Redis is written back to it.              *)
Renewed(r) == Entry(req[r].value)

AfterRefill(r) == shared

(* Back in the worker, the value gets a full lifetime in its dictionary.   *)
Refill(r) ==
  /\ req[r].at = "found"
  /\ local' = [local EXCEPT ![req[r].on] = Entry(req[r].value)]
  /\ shared' = AfterRefill(r)
  /\ Answer(r)
  /\ UNCHANGED <<now, version, replaced>>

(* The factory reads the database.                                         *)
Load(r) ==
  /\ req[r].at = "load"
  /\ req' = [req EXCEPT ![r].at = "loaded", ![r].value = version]
  /\ UNCHANGED <<now, version, replaced, local, shared>>

(* cache_set_async: the dictionary first,                                  *)
KeepLocal(r) ==
  /\ req[r].at = "loaded"
  /\ local' = [local EXCEPT ![req[r].on] = Entry(req[r].value)]
  /\ req' = [req EXCEPT ![r].at = "store"]
  /\ UNCHANGED <<now, version, replaced, shared>>

(* then Redis, which may fail; the request does not.                       *)
StoreShared(r) ==
  /\ req[r].at = "store"
  /\ shared' \in {shared, Entry(req[r].value)}
  /\ Answer(r)
  /\ UNCHANGED <<now, version, replaced, local>>

(* An editor commits; the routes that drop nothing end here.               *)
Commit(e, w) ==
  /\ req[e] = Idle /\ version < MaxVersion
  /\ version' = version + 1
  /\ replaced' = [replaced EXCEPT ![version] = now]
  /\ \/ UNCHANGED req
     \/ req' = [req EXCEPT ![e] = [at |-> "drop", on |-> w, value |-> None, since |-> now]]
  /\ UNCHANGED <<now, local, shared>>

(* cache_delete: the entry of this worker, then the one in Redis.          *)
DropLocal(e) ==
  /\ req[e].at = "drop"
  /\ local' = [local EXCEPT ![req[e].on] = Nothing]
  /\ req' = [req EXCEPT ![e].at = "drop shared"]
  /\ UNCHANGED <<now, version, replaced, shared>>

DropShared(e) ==
  /\ req[e].at = "drop shared"
  /\ shared' \in {shared, Nothing}
  /\ req' = [req EXCEPT ![e] = Idle]
  /\ UNCHANGED <<now, version, replaced, local>>

(* _evict_catalog_cache makes room for other answers; a restart forgets.   *)
Evict(w) ==
  /\ local[w] # Nothing
  /\ local' = [local EXCEPT ![w] = Nothing]
  /\ UNCHANGED <<now, version, replaced, shared, req>>

(* An entry that has expired is as good as none: cache_get deletes it.     *)
Tick ==
  /\ now < MaxTime
  /\ \A r \in Readers \cup Editors : req[r] # Idle => now < req[r].since + Lag
  /\ now' = now + 1
  /\ local' = [w \in Workers |-> Lives(local[w])] /\ shared' = Lives(shared)
  /\ UNCHANGED <<version, replaced, req>>

Next ==
  \/ Tick \/ \E w \in Workers : Evict(w)
  \/ \E r \in Readers :
       \/ \E w \in Workers : Ask(r, w)
       \/ GetShared(r) \/ Refill(r) \/ Load(r) \/ KeepLocal(r) \/ StoreShared(r)
  \/ \E e \in Editors : \/ \E w \in Workers : Commit(e, w)
                        \/ DropLocal(e) \/ DropShared(e)

Spec == Init /\ [][Next]_vars
-----------------------------------------------------------------------------
(* What a reader may be answered now, by a dictionary or a request.        *)
Offered ==
  {local[w].value : w \in {x \in Workers : local[x] # Nothing}}
  \cup {req[r].value : r \in {x \in Readers : req[x].at \in {"found", "store"}}}

(* No answer is out of date by two lifetimes and two requests or more,     *)
(* although any deletion may fail or come too early, workers refill their  *)
(* dictionaries from Redis and a slow reader stores what has been replaced *)
(* meanwhile (cache_get_async, cache_set_async, cache_delete).             *)
StalenessBounded ==
  \A v \in Offered : replaced[v] # None => now < replaced[v] + 2 * Ttl + 2 * Lag

-----------------------------------------------------------------------------
(* The inductive strengthening.  What a request has from the database was  *)
(* true when it began, so it reaches Redis within Lag of its replacement;  *)
(* there it lives for Ttl, and so long may a request begin that finds it.  *)
Steps == {"idle", "get", "found", "load", "loaded", "store", "drop", "drop shared"}
Versions == 0 .. MaxVersion

ReqType ==
  [at : Steps, on : Workers \cup {None}, value : Versions \cup {None}, since : Nat]
EntryType == [value : Versions \cup {None}, till : Nat]

TypeOK ==
  /\ now \in Nat /\ version \in Versions
  /\ replaced \in [Versions -> Nat \cup {None}]
  /\ local \in [Workers -> EntryType]
  /\ shared \in EntryType
  /\ req \in [Readers \cup Editors -> ReqType]

By(v, t, late) == v \in Versions /\ (replaced[v] # None => t <= replaced[v] + late)

History == \A v \in Versions : v >= version <=> replaced[v] = None

Fresh(e, late) ==
  e # Nothing => /\ now < e.till /\ e.till <= now + Ttl
                 /\ e.value <= version /\ By(e.value, e.till, late)

Prompt(r) ==
  LET q == req[r] IN
  q.at # "idle" =>
    /\ q.since <= now /\ now <= q.since + Lag
    /\ q.at \in {"get", "found", "load", "loaded", "store", "drop"} => q.on \in Workers
    /\ q.at \in {"loaded", "store"} => q.value <= version /\ By(q.value, q.since, 0)
    /\ q.at = "found" => q.value <= version /\ By(q.value, q.since, Ttl + Lag)

IInv ==
  /\ TypeOK /\ History
  /\ \A w \in Workers : Fresh(local[w], 2 * Ttl + 2 * Lag)
  /\ Fresh(shared, Ttl + Lag)
  /\ \A r \in Readers \cup Editors : Prompt(r)

CacheConstants ==
  /\ Ttl \in Nat \ {0} /\ Lag \in Nat /\ MaxTime \in Nat /\ MaxVersion \in Nat
  /\ None \notin Nat /\ None \notin Workers
=============================================================================
