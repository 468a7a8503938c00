------------------------------ MODULE Database ------------------------------
(***************************************************************************)
(* The database behind one API process: the warm-up probe of a database    *)
(* that was down at the start (app/db_connect.py, middleware/db_warmup.py, *)
(* lifespan.py) and the list requests, which count on a second connection  *)
(* of the same small pool and try again (app/services/pagination.py).      *)
(* Time advances only as far as the timeouts of the waits allow.           *)
(***************************************************************************)
EXTENDS Naturals, FiniteSets

CONSTANTS
  Requests,
  Pool,                   \* pool_size + max_overflow
  PoolTimeout, Command,   \* pool_timeout; the longest connect and statement
  Attempts,               \* tries of paginate_query
  Cooldown, Ping,         \* of DatabaseWarmup
  MaxTime, None

VARIABLES
  now,
  up,        \* the database answers
  ready,     \* app.state.db_ready
  probe,     \* DatabaseWarmup._lock: who probes, since when, with a connection?
  nextAt,    \* _next_attempt_at
  failed,    \* history: when the last probe failed
  req,       \* a list request: its step, its attempt, when it came
  data,      \* its session: "none", "wait", "held", since when
  count      \* the count task of every attempt, likewise

warm == <<ready, probe, nextAt, failed>>
vars == <<now, up, warm, req, data, count>>

None0  == [st |-> "none", since |-> 0]
Idle   == [at |-> "idle", attempt |-> 0, since |-> 0]
NoProbe == [by |-> None, since |-> 0, held |-> FALSE]
Tries  == 1..Attempts

(* lifespan: the first ping may have failed, and the server starts anyway. *)
Init ==
  /\ now = 0 /\ up \in BOOLEAN /\ ready \in {FALSE, up}
  /\ probe = NoProbe /\ nextAt = 0 /\ failed = None
  /\ req = [r \in Requests |-> Idle]
  /\ data = [r \in Requests |-> None0]
  /\ count = [r \in Requests |-> [k \in Tries |-> None0]]

Used ==
  Cardinality({r \in Requests : data[r].st = "held"})
  + Cardinality({c \in Requests \X Tries : count[c[1]][c[2]].st = "held"})
  + (IF probe.held THEN 1 ELSE 0)

(* Mutant: the pool lets them wait for ever.                               *)
NeverOver(w) == FALSE

WaitOver(w)  == w.st = "wait" /\ now - w.since >= PoolTimeout
QueryOver(w) == w.st = "held" /\ now - w.since >= Command
Due(w) == WaitOver(w) \/ QueryOver(w)

-----------------------------------------------------------------------------
(* What remains of the count tasks that nobody awaits.                     *)
Orphans(r) ==
  [k \in Tries |-> IF count[r][k].st \in {"wait", "held"} THEN count[r][k] ELSE None0]
Awaited(r, k) == req[r].at \in {"data", "count"} /\ req[r].attempt = k

Attempt(r, k) ==
  /\ req' = [req EXCEPT ![r] = [at |-> "data", attempt |-> k, since |-> IF k = 1 THEN now ELSE @.since]]
  /\ data' = [data EXCEPT ![r] = [st |-> "wait", since |-> now]]
  /\ count' = [count EXCEPT ![r] = [Orphans(r) EXCEPT ![k] = [st |-> "wait", since |-> now]]]

(* A request comes when the tasks of the last one of its name are over.    *)
Comes(r) == req[r].at = "idle" /\ \A k \in Tries : count[r][k] = None0

(* database_warmup_middleware: with a probe under way, or too soon after   *)
(* one that failed, the request goes on without.                           *)
Pass(r) ==
  /\ Comes(r)
  /\ ready \/ probe.by # None \/ now < nextAt
  /\ Attempt(r, 1)
  /\ UNCHANGED <<now, up, warm>>

StartProbe(r) ==
  /\ Comes(r)
  /\ ~ready /\ probe.by = None /\ now >= nextAt
  /\ probe' = [by |-> r, since |-> now, held |-> FALSE]
  /\ req' = [req EXCEPT ![r] = [at |-> "probe", attempt |-> 0, since |-> now]]
  /\ UNCHANGED <<now, up, ready, nextAt, failed, data, count>>

(* The ping needs a connection of the pool the requests use.               *)
ProbeConnects ==
  /\ probe.by # None /\ ~probe.held /\ up /\ Used < Pool
  /\ probe' = [probe EXCEPT !.held = TRUE]
  /\ UNCHANGED <<now, up, ready, nextAt, failed, req, data, count>>

ProbeAnswers ==
  /\ probe.held /\ up
  /\ ready' = TRUE /\ probe' = NoProbe
  /\ Attempt(probe.by, 1)
  /\ UNCHANGED <<now, up, nextAt, failed>>

(* Mutant: the pause is counted from the start of the probe.               *)
PauseFromStart == probe.since + Cooldown

PauseOver == now + Cooldown

ProbeFails ==
  /\ probe.by # None
  /\ ~up \/ now - probe.since >= Ping
  /\ nextAt' = PauseOver /\ failed' = now /\ probe' = NoProbe
  /\ Attempt(probe.by, 1)
  /\ UNCHANGED <<now, up, ready>>

-----------------------------------------------------------------------------
(* paginate_query: the data on the session of the request, the count in a  *)
(* task with a session of its own.                                         *)
TakeData(r) ==
  /\ data[r].st = "wait" /\ up /\ Used < Pool
  /\ data' = [data EXCEPT ![r] = [st |-> "held", since |-> now]]
  /\ UNCHANGED <<now, up, warm, req, count>>

TakeCount(r, k) ==
  /\ count[r][k].st = "wait" /\ up /\ Used < Pool
  /\ count' = [count EXCEPT ![r][k] = [st |-> "held", since |-> now]]
  /\ UNCHANGED <<now, up, warm, req, data>>

(* Rows have arrived; the session keeps its connection for the count.      *)
DataAnswers(r) ==
  /\ req[r].at = "data" /\ data[r].st = "held" /\ up
  /\ req' = [req EXCEPT ![r].at = "count"]
  /\ data' = [data EXCEPT ![r].since = 0]
  /\ UNCHANGED <<now, up, warm, count>>

Outcome(r, k, st) == IF Awaited(r, k) THEN [st |-> st, since |-> 0] ELSE None0

CountAnswers(r, k) ==
  /\ count[r][k].st = "held" /\ up
  /\ count' = [count EXCEPT ![r][k] = Outcome(r, k, "done")]
  /\ UNCHANGED <<now, up, warm, req, data>>

CountFails(r, k) ==
  /\ count[r][k].st \in {"wait", "held"} /\ (~up \/ Due(count[r][k]))
  /\ count' = [count EXCEPT ![r][k] = Outcome(r, k, "failed")]
  /\ UNCHANGED <<now, up, warm, req, data>>

End(r) ==
  /\ req' = [req EXCEPT ![r] = Idle]
  /\ data' = [data EXCEPT ![r] = None0]
  /\ count' = [count EXCEPT ![r] = Orphans(r)]

(* The count of an attempt that failed is not waited for, and the pause    *)
(* before the next attempt is short beside the timeouts.                   *)
Retry(r) ==
  IF req[r].attempt < Attempts
    THEN Attempt(r, req[r].attempt + 1)
    ELSE End(r)

DataFails(r) ==
  /\ req[r].at = "data" /\ (~up \/ Due(data[r]))
  /\ Retry(r)
  /\ UNCHANGED <<now, up, warm>>

Result(r) == count[r][req[r].attempt].st

CountRaised(r) ==
  /\ req[r].at = "count" /\ Result(r) = "failed"
  /\ Retry(r)
  /\ UNCHANGED <<now, up, warm>>

Respond(r) ==
  /\ req[r].at = "count" /\ Result(r) = "done"
  /\ End(r)
  /\ UNCHANGED <<now, up, warm>>

Outage ==
  /\ up' = ~up
  /\ UNCHANGED <<now, warm, req, data, count>>

(* A wait that is over raises, and what raised is handled, before time     *)
(* goes on.                                                                *)
Tick ==
  /\ now < MaxTime
  /\ \A r \in Requests :
       /\ req[r].at = "data" => ~Due(data[r])
       /\ req[r].at = "count" => Result(r) \notin {"done", "failed"}
       /\ \A k \in Tries : ~Due(count[r][k])
  /\ probe.by # None => now - probe.since < Ping
  /\ now' = now + 1
  /\ UNCHANGED <<up, warm, req, data, count>>

Next ==
  \/ Tick \/ Outage \/ ProbeConnects \/ ProbeAnswers \/ ProbeFails
  \/ \E r \in Requests :
       \/ Pass(r) \/ StartProbe(r) \/ TakeData(r) \/ DataAnswers(r) \/ DataFails(r)
       \/ CountRaised(r) \/ Respond(r)
       \/ \E k \in Tries : TakeCount(r, k) \/ CountAnswers(r, k) \/ CountFails(r, k)

Spec == Init /\ [][Next]_vars
-----------------------------------------------------------------------------
(* While the database is down, a burst of requests probes it one at a time *)
(* and never sooner than the pause after the last failure, however long    *)
(* the probe itself has waited (DatabaseWarmup.try_connect).               *)
ProbesSpaced ==
  probe.by # None /\ failed # None => probe.since >= failed + Cooldown

(* List requests that hold their rows and wait for each other's connection *)
(* block the pool, but not for long: every one of them ends within its     *)
(* probe and its attempts, each at most a wait and a statement long        *)
(* (paginate_query, sqlalchemy_engine_kwargs).                             *)
AnsweredInTime ==
  \A r \in Requests :
    req[r].at \in {"data", "count"} =>
      now <= req[r].since + Attempts * (PoolTimeout + Command)

-----------------------------------------------------------------------------
(* The inductive strengthening: no wait outlasts its timeout, and a pause  *)
(* follows the last failure.                                               *)
Waits == [st : {"none", "wait", "held", "done", "failed"}, since : Nat]

TypeOK ==
  /\ now \in Nat /\ nextAt \in Nat /\ failed \in Nat \cup {None}
  /\ probe \in [by : Requests \cup {None}, since : Nat, held : BOOLEAN]
  /\ req \in [Requests -> [at : {"idle", "probe", "data", "count"}, attempt : 0..Attempts,
                           since : Nat]]
  /\ data \in [Requests -> Waits]
  /\ count \in [Requests -> [Tries -> Waits]]

(* By when the attempt a request is at has begun.                          *)
Begun(r) == req[r].since + (req[r].attempt - 1) * (PoolTimeout + Command)

OnTime(w, t) ==
  /\ w.st = "wait" => w.since <= t /\ now <= w.since + PoolTimeout
  /\ w.st = "held" => w.since <= t + PoolTimeout /\ now <= w.since + Command

Timely(r) ==
  /\ req[r].attempt \in Tries
  /\ now <= Begun(r) + (PoolTimeout + Command)
  /\ count[r][req[r].attempt].st # "none" /\ OnTime(count[r][req[r].attempt], Begun(r))
  /\ req[r].at = "data" => data[r].st \in {"wait", "held"} /\ OnTime(data[r], Begun(r))

IInv ==
  /\ TypeOK /\ ProbesSpaced
  /\ failed # None => nextAt = failed + Cooldown
  /\ probe.held => probe.by # None
  /\ \A r \in Requests : req[r].at \in {"data", "count"} => Timely(r)

DatabaseConstants ==
  /\ None \notin Requests /\ None \notin Nat
  /\ PoolTimeout \in Nat /\ Command \in Nat /\ Cooldown \in Nat /\ Ping \in Nat
  /\ Attempts \in Nat \ {0}
=============================================================================
