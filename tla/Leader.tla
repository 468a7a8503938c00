------------------------------- MODULE Leader -------------------------------
(***************************************************************************)
(* One process runs a background loop: a key in Redis with a lifetime, or, *)
(* when Redis fails, a file lock per host elects it                        *)
(* (app/services/distributed_lock.py).  The loops of the Bakong sweeper,   *)
(* the health monitor and the publish sweeper start, refresh and stop alike*)
(* (bakong_sweeper.py, bakong_health_monitor.py, publish_sweeper.py).      *)
(***************************************************************************)
EXTENDS Naturals

CONSTANTS
  Processes, HostOf,    \* a container has its own /tmp
  Ttl, MaxTime, None

VARIABLES
  now,
  key,      \* the key in Redis: its holder, and when it expires
  file,     \* per host, who holds the file lock
  at,       \* what a process does: "wait" and "extend" are inside its loop
  lock,     \* its HeldLock: None, "redis" or "flock"
  since,    \* when it last set or prolonged the key
  excused   \* history: a process overstayed the lifetime, or Redis lost the key

vars == <<now, key, file, at, lock, since, excused>>

Hosts == {HostOf[p] : p \in Processes}
NoKey == [by |-> None, till |-> 0]

Init ==
  /\ now = 0 /\ key = NoKey /\ excused = FALSE
  /\ file = [h \in Hosts |-> None]
  /\ at = [p \in Processes |-> "off"]
  /\ lock = [p \in Processes |-> None]
  /\ since = [p \in Processes |-> 0]

Loops(p) == at[p] \in {"wait", "extend", "pass"}
Holds(p) == key.by = p

-----------------------------------------------------------------------------
(* Mutant: the key is set although another process has it.                 *)
Always == TRUE

KeyFree == key = NoKey

(* try_acquire, once when the process starts: a process that finds the lock*)
(* taken does not ask again.                                               *)
AcquireKey(p) ==
  /\ at[p] = "off"
  /\ IF KeyFree
       THEN /\ key' = [by |-> p, till |-> now + Ttl]
            /\ at' = [at EXCEPT ![p] = "wait"]
            /\ lock' = [lock EXCEPT ![p] = "redis"]
            /\ since' = [since EXCEPT ![p] = now]
       ELSE at' = [at EXCEPT ![p] = "idle"] /\ UNCHANGED <<key, lock, since>>
  /\ UNCHANGED <<now, file, excused>>

(* Redis does not answer.                                                  *)
AcquireFile(p) ==
  LET h == HostOf[p] IN
  /\ at[p] = "off"
  /\ IF file[h] = None
       THEN /\ file' = [file EXCEPT ![h] = p]
            /\ at' = [at EXCEPT ![p] = "wait"]
            /\ lock' = [lock EXCEPT ![p] = "flock"]
       ELSE at' = [at EXCEPT ![p] = "idle"] /\ UNCHANGED <<file, lock>>
  /\ UNCHANGED <<now, key, since, excused>>

(* HeldLock.refresh before a pass: GET, then EXPIRE.  A failure ends the   *)
(* loop for good, though the process keeps its HeldLock.                   *)
LookUp(p) ==
  /\ at[p] = "wait"
  /\ at' = [at EXCEPT ![p] = IF lock[p] = "flock" THEN "pass"
                             ELSE IF Holds(p) THEN "extend" ELSE "stopped"]
  /\ UNCHANGED <<now, key, file, lock, since, excused>>

Prolonged == IF key = NoKey THEN key ELSE [key EXCEPT !.till = now + Ttl]

Extend(p) ==
  /\ at[p] = "extend"
  /\ key' = Prolonged
  /\ since' = [since EXCEPT ![p] = now]
  /\ at' = [at EXCEPT ![p] = "pass"]
  /\ UNCHANGED <<now, file, lock, excused>>

RefreshFails(p) ==
  /\ at[p] \in {"wait", "extend"} /\ lock[p] = "redis"
  /\ at' = [at EXCEPT ![p] = "stopped"]
  /\ UNCHANGED <<now, key, file, lock, since, excused>>

(* The sweep, or what it raises, and the sleep.                            *)
EndPass(p) ==
  /\ at[p] = "pass"
  /\ at' = [at EXCEPT ![p] = "wait"]
  /\ UNCHANGED <<now, key, file, lock, since, excused>>

(* Shutdown cancels the task and releases the lock: GET, then DELETE.      *)
Stop(p) ==
  /\ Loops(p) \/ at[p] \in {"stopped", "idle"}
  /\ at' = [at EXCEPT ![p] = IF lock[p] = "redis" /\ Holds(p) THEN "drop" ELSE "off"]
  /\ lock' = [lock EXCEPT ![p] = IF at'[p] = "drop" THEN @ ELSE None]
  /\ file' = IF lock[p] = "flock" THEN [file EXCEPT ![HostOf[p]] = None] ELSE file
  /\ UNCHANGED <<now, key, since, excused>>

Drop(p) ==
  /\ at[p] = "drop"
  /\ key' \in {NoKey, key}
  /\ at' = [at EXCEPT ![p] = "off"] /\ lock' = [lock EXCEPT ![p] = None]
  /\ UNCHANGED <<now, file, since, excused>>

(* A killed process loses its file lock with its files, the key stays.     *)
Crash(p) ==
  /\ at[p] # "off"
  /\ at' = [at EXCEPT ![p] = "off"] /\ lock' = [lock EXCEPT ![p] = None]
  /\ file' = IF lock[p] = "flock" THEN [file EXCEPT ![HostOf[p]] = None] ELSE file
  /\ UNCHANGED <<now, key, since, excused>>

Forget ==
  /\ key # NoKey
  /\ key' = NoKey /\ excused' = TRUE
  /\ UNCHANGED <<now, file, at, lock, since>>

Overstays(p) == (Loops(p) \/ at[p] = "drop") /\ lock[p] = "redis" /\ now + 1 - since[p] >= Ttl

Tick ==
  /\ now < MaxTime /\ now' = now + 1
  /\ key' = IF now + 1 >= key.till THEN NoKey ELSE key
  /\ excused' = (excused \/ \E p \in Processes : Overstays(p))
  /\ UNCHANGED <<file, at, lock, since>>

Next ==
  \/ Tick \/ Forget
  \/ \E p \in Processes :
       \/ AcquireKey(p) \/ AcquireFile(p) \/ LookUp(p) \/ Extend(p) \/ RefreshFails(p)
       \/ EndPass(p) \/ Stop(p) \/ Drop(p) \/ Crash(p)

Spec == Init /\ [][Next]_vars
-----------------------------------------------------------------------------
(* Crashes, restarts, shutdowns and failed refreshes never leave two       *)
(* processes in their loops, as long as a pass with its sleep stays within *)
(* the lifetime of the key and Redis keeps it; only a lock of the other    *)
(* kind, or a file on another host, can be held beside it (try_acquire,    *)
(* HeldLock.refresh, HeldLock.release).                                    *)
OneLoop ==
  excused \/ \A p, q \in Processes : p # q /\ Loops(p) /\ Loops(q) =>
    lock[p] # lock[q] \/ (lock[p] = "flock" /\ HostOf[p] # HostOf[q])
=============================================================================
