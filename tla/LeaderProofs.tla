---------------------------- MODULE LeaderProofs ----------------------------
(***************************************************************************)
(* What Leader guarantees for every number of processes and hosts and      *)
(* every lifetime of the key: one process is in the loop.                  *)
(***************************************************************************)
EXTENDS Leader, TLAPS

(* None is neither a process nor a kind of lock.                           *)
LeaderConstants ==
  /\ None \notin Processes /\ None \notin {"redis", "flock"}
  /\ Ttl \in Nat \ {0}

Steps == {"off", "idle", "wait", "extend", "pass", "stopped", "drop"}

TypeOK ==
  /\ now \in Nat /\ excused \in BOOLEAN
  /\ key \in {NoKey} \cup [by : Processes, till : Nat]
  /\ file \in [Hosts -> Processes \cup {None}]
  /\ at \in [Processes -> Steps]
  /\ lock \in [Processes -> {None, "redis", "flock"}]
  /\ since \in [Processes -> Nat]

(* Who is in its loop has a lock; a process that does nothing has none.    *)
Locked(p) ==
  /\ Loops(p) => lock[p] # None
  /\ at[p] \in {"off", "idle"} => lock[p] = None
  /\ at[p] \in {"extend", "drop"} => lock[p] = "redis"
  /\ lock[p] = "flock" => file[HostOf[p]] = p

Relies(p) == (Loops(p) \/ at[p] = "drop") /\ lock[p] = "redis"

(* Unless somebody overstayed, the key is not over yet, its holder knows   *)
(* when it will be, and whoever goes by it holds it.                       *)
Kept ==
  /\ key # NoKey => now < key.till
  /\ \A p \in Processes : lock[p] = "redis" /\ Holds(p) => key.till = since[p] + Ttl
  /\ \A p \in Processes : Relies(p) => Holds(p)

(* The inductive strengthening of OneLoop.                                 *)
IInv ==
  /\ TypeOK
  /\ \A p \in Processes : Locked(p)
  /\ excused \/ Kept

LEMMA InitInv ==
  ASSUME LeaderConstants, Init
  PROVE  IInv
<1>1. TypeOK BY DEF Init, TypeOK, Steps, LeaderConstants
<1>2. \A p \in Processes : Locked(p) BY DEF Init, Locked, Loops, LeaderConstants
<1>3. Kept BY DEF Init, Kept, Relies, Loops, LeaderConstants
<1> QED BY <1>1, <1>2, <1>3 DEF IInv

LEMMA InvOne ==
  ASSUME LeaderConstants, IInv
  PROVE  OneLoop
<1> SUFFICES ASSUME ~excused, NEW p \in Processes, NEW q \in Processes, p # q, Loops(p), Loops(q),
                    lock[p] = lock[q]
             PROVE  lock[p] = "flock" /\ HostOf[p] # HostOf[q]
  BY DEF OneLoop
<1>1. lock[p] # "redis"
  <2> SUFFICES ASSUME lock[p] = "redis" PROVE FALSE OBVIOUS
  <2>1. Holds(p) /\ Holds(q) BY DEF IInv, Kept, Relies
  <2> QED BY <2>1 DEF Holds
<1>2. lock[p] = "flock" BY <1>1 DEF IInv, TypeOK, Locked
<1>3. file[HostOf[p]] = p /\ file[HostOf[q]] = q BY <1>2 DEF IInv, Locked
<1> QED BY <1>2, <1>3

(* The key is NoKey or somebody's.                                         *)
LEMMA KeyIs ==
  ASSUME LeaderConstants, TypeOK
  PROVE  /\ key # NoKey => key.by \in Processes /\ key.till \in Nat
         /\ \A p \in Processes : Holds(p) => key # NoKey
  BY DEF TypeOK, NoKey, Holds, LeaderConstants

(* A step of p that leaves the key as it is, and relies on it no more than *)
(* it may.                                                                 *)
LEMMA StepInv ==
  ASSUME LeaderConstants, IInv, NEW p \in Processes, NEW a \in Steps, NEW l \in {None, "redis", "flock"},
         at' = [at EXCEPT ![p] = a], lock' = [lock EXCEPT ![p] = l],
         UNCHANGED <<now, key, since, excused>>,
         file' \in [Hosts -> Processes \cup {None}], Locked(p)',
         \A q \in Processes \ {p} : file[HostOf[q]] = q => file'[HostOf[q]] = q,
         l = "redis" => lock[p] = "redis",
         Relies(p)' => Relies(p) \/ Holds(p)
  PROVE  IInv'
<1>1. /\ at'[p] = a /\ lock'[p] = l
      /\ \A q \in Processes \ {p} : at'[q] = at[q] /\ lock'[q] = lock[q]
  BY DEF IInv, TypeOK
<1>2. TypeOK' BY DEF IInv, TypeOK
<1>3. \A q \in Processes \ {p} : Locked(q)' BY <1>1 DEF IInv, Locked, Loops
<1>4. ASSUME Kept PROVE Kept'
  <2>1. \A q \in Processes \ {p} : Relies(q)' => Holds(q)'
    BY <1>1, <1>4 DEF Kept, Relies, Loops, Holds
  <2>2. Relies(p)' => Holds(p)' BY <1>4 DEF Kept, Holds
  <2>3. \A q \in Processes : lock'[q] = "redis" /\ Holds(q)' => key'.till = since'[q] + Ttl
    BY <1>1, <1>4 DEF Kept, Holds
  <2> QED BY <1>4, <2>1, <2>2, <2>3 DEF Kept
<1> QED BY <1>2, <1>3, <1>4 DEF IInv

-----------------------------------------------------------------------------
(* A key is set only where there is none, so nobody relied on one.         *)
LEMMA AcquireKeyInv ==
  ASSUME LeaderConstants, IInv, NEW p \in Processes, AcquireKey(p)
  PROVE  IInv'
<1>0. TypeOK /\ Locked(p) /\ at[p] = "off" /\ lock[p] = None BY DEF AcquireKey, IInv, Locked
<1>1. CASE KeyFree
  <2>1. /\ key = NoKey /\ key' = [by |-> p, till |-> now + Ttl]
        /\ at' = [at EXCEPT ![p] = "wait"] /\ lock' = [lock EXCEPT ![p] = "redis"]
        /\ since' = [since EXCEPT ![p] = now] /\ UNCHANGED <<now, file, excused>>
    BY <1>1 DEF AcquireKey, KeyFree
  <2>2. /\ at'[p] = "wait" /\ lock'[p] = "redis" /\ since'[p] = now
        /\ key'.by = p /\ key'.till = now + Ttl
        /\ \A q \in Processes \ {p} : at'[q] = at[q] /\ lock'[q] = lock[q] /\ since'[q] = since[q]
    BY <1>0, <2>1 DEF TypeOK
  <2>3. TypeOK' BY <1>0, <2>1 DEF TypeOK, Steps, LeaderConstants
  <2>4. \A q \in Processes : Locked(q)'
    BY <1>0, <2>1, <2>2 DEF IInv, Locked, Loops, LeaderConstants
  <2>5. ASSUME Kept PROVE Kept'
    <3>1. \A q \in Processes \ {p} : ~Relies(q) BY <1>0, <2>1, <2>5, KeyIs DEF Kept
    <3>2. \A q \in Processes \ {p} : ~Relies(q)' BY <2>2, <3>1 DEF Relies, Loops
    <3>3. now < now + Ttl BY <1>0 DEF TypeOK, LeaderConstants
    <3> QED BY <2>1, <2>2, <3>2, <3>3 DEF Kept, Holds
  <2> QED BY <2>1, <2>3, <2>4, <2>5 DEF IInv
<1>2. CASE ~KeyFree
  <2>1. /\ at' = [at EXCEPT ![p] = "idle"] /\ lock' = [lock EXCEPT ![p] = None]
        /\ UNCHANGED <<now, key, since, excused, file>>
    BY <1>0, <1>2 DEF AcquireKey, TypeOK
  <2>2. at'[p] = "idle" /\ lock'[p] = None BY <1>0, <2>1 DEF TypeOK
  <2>3. Locked(p)' /\ ~Relies(p)' BY <2>2 DEF Locked, Relies, Loops, LeaderConstants
  <2> QED BY <1>0, <2>1, <2>3, StepInv DEF Steps, TypeOK, LeaderConstants
<1> QED BY <1>1, <1>2

LEMMA AcquireFileInv ==
  ASSUME LeaderConstants, IInv, NEW p \in Processes, AcquireFile(p)
  PROVE  IInv'
<1> DEFINE h == HostOf[p]
<1>0. TypeOK /\ Locked(p) /\ at[p] = "off" /\ lock[p] = None /\ h \in Hosts
  BY DEF AcquireFile, IInv, Locked, Hosts
<1>1. CASE file[h] = None
  <2>1. /\ at' = [at EXCEPT ![p] = "wait"] /\ lock' = [lock EXCEPT ![p] = "flock"]
        /\ file' = [file EXCEPT ![h] = p] /\ UNCHANGED <<now, key, since, excused>>
    BY <1>1 DEF AcquireFile
  <2>2. /\ at'[p] = "wait" /\ lock'[p] = "flock" /\ file'[HostOf[p]] = p
        /\ file' \in [Hosts -> Processes \cup {None}]
    BY <1>0, <2>1 DEF TypeOK
  <2>3. Locked(p)' /\ ~Relies(p)' BY <2>2 DEF Locked, Relies, Loops, LeaderConstants
  <2>4. ASSUME NEW q \in Processes \ {p}, file[HostOf[q]] = q PROVE file'[HostOf[q]] = q
    <3>1. HostOf[q] # h BY <1>1, <2>4 DEF LeaderConstants
    <3> QED BY <1>0, <2>1, <2>4, <3>1 DEF TypeOK, Hosts
  <2> QED BY <2>1, <2>2, <2>3, <2>4, StepInv DEF Steps
<1>2. CASE file[h] # None
  <2>1. /\ at' = [at EXCEPT ![p] = "idle"] /\ lock' = [lock EXCEPT ![p] = None]
        /\ UNCHANGED <<now, key, since, excused, file>>
    BY <1>0, <1>2 DEF AcquireFile, TypeOK
  <2>2. at'[p] = "idle" /\ lock'[p] = None BY <1>0, <2>1 DEF TypeOK
  <2>3. Locked(p)' /\ ~Relies(p)' BY <2>2 DEF Locked, Relies, Loops, LeaderConstants
  <2> QED BY <1>0, <2>1, <2>3, StepInv DEF Steps, TypeOK, LeaderConstants
<1> QED BY <1>1, <1>2

(* Within the loop: what a refresh finds, and the pass after it.           *)
LEMMA LoopInv ==
  ASSUME LeaderConstants, IInv, NEW p \in Processes, LookUp(p) \/ RefreshFails(p) \/ EndPass(p)
  PROVE  IInv'
<1>0. TypeOK /\ Locked(p) BY DEF IInv
<1>1. PICK a \in Steps :
        /\ at' = [at EXCEPT ![p] = a] /\ UNCHANGED <<now, key, file, lock, since, excused>>
        /\ Loops(p) /\ a \in {"wait", "extend", "pass", "stopped"}
        /\ a = "extend" => lock[p] = "redis"
  BY <1>0 DEF LookUp, RefreshFails, EndPass, Loops, Steps, Locked, TypeOK
<1>2. at'[p] = a /\ lock' = [lock EXCEPT ![p] = lock[p]] /\ lock[p] \in {None, "redis", "flock"}
  BY <1>0, <1>1 DEF TypeOK
<1>3. Locked(p)' BY <1>0, <1>1, <1>2 DEF Locked, Loops
<1>4. Relies(p)' => Relies(p) BY <1>1 DEF Relies
<1> QED BY <1>0, <1>1, <1>2, <1>3, <1>4, StepInv DEF TypeOK

(* EXPIRE prolongs the key of whoever holds it; unless somebody overstayed *)
(* that is the process that asked.                                         *)
LEMMA ExtendInv ==
  ASSUME LeaderConstants, IInv, NEW p \in Processes, Extend(p)
  PROVE  IInv'
<1>0. TypeOK /\ Locked(p) /\ at[p] = "extend" /\ lock[p] = "redis" BY DEF Extend, IInv, Locked
<1>1. /\ at' = [at EXCEPT ![p] = "pass"] /\ since' = [since EXCEPT ![p] = now]
      /\ key' = Prolonged /\ UNCHANGED <<now, file, lock, excused>>
  BY DEF Extend
<1>2. /\ at'[p] = "pass" /\ since'[p] = now
      /\ \A q \in Processes \ {p} : at'[q] = at[q] /\ since'[q] = since[q]
  BY <1>0, <1>1 DEF TypeOK
<1>3. key # NoKey => key'.by = key.by /\ key'.till = now + Ttl /\ key' \in [by : Processes, till : Nat]
  BY <1>0, <1>1 DEF Prolonged, TypeOK, LeaderConstants
<1>4. key = NoKey => key' = NoKey BY <1>1 DEF Prolonged
<1>5. TypeOK' BY <1>0, <1>1, <1>3, <1>4 DEF TypeOK, Steps
<1>6. \A q \in Processes : Locked(q)' BY <1>0, <1>1, <1>2 DEF IInv, Locked, Loops
<1>7. ASSUME Kept PROVE Kept'
  <2>1. Holds(p) /\ key # NoKey BY <1>0, <1>7, KeyIs DEF Kept, Relies, Loops
  <2>2. now < now + Ttl BY <1>0 DEF TypeOK, LeaderConstants
  <2>3. \A q \in Processes : Holds(q)' => q = p BY <1>3, <2>1 DEF Holds
  <2>4. \A q \in Processes \ {p} : ~Relies(q)'
    BY <1>1, <1>2, <1>7, <2>1 DEF Kept, Relies, Loops, Holds
  <2> QED BY <1>1, <1>2, <1>3, <2>1, <2>2, <2>3, <2>4 DEF Kept, Holds
<1> QED BY <1>1, <1>5, <1>6, <1>7 DEF IInv

(* A process that goes lets its own file lock go and nobody else's; if it  *)
(* still has the key, deleting that is a step of its own.                  *)
LEMMA LetGo ==
  ASSUME LeaderConstants, IInv, NEW p \in Processes,
         file' = IF lock[p] = "flock" THEN [file EXCEPT ![HostOf[p]] = None] ELSE file
  PROVE  /\ file' \in [Hosts -> Processes \cup {None}]
         /\ \A q \in Processes \ {p} : file[HostOf[q]] = q => file'[HostOf[q]] = q
<1>1. file \in [Hosts -> Processes \cup {None}] /\ HostOf[p] \in Hosts BY DEF IInv, TypeOK, Hosts
<1>2. lock[p] = "flock" => file[HostOf[p]] = p BY DEF IInv, Locked
<1>3. ASSUME NEW q \in Processes \ {p}, file[HostOf[q]] = q PROVE file'[HostOf[q]] = q
  <2>1. HostOf[q] \in Hosts BY DEF Hosts
  <2>2. lock[p] = "flock" => HostOf[q] # HostOf[p] BY <1>2, <1>3
  <2> QED BY <1>1, <1>3, <2>1, <2>2
<1> QED BY <1>1, <1>3

LEMMA StopInv ==
  ASSUME LeaderConstants, IInv, NEW p \in Processes, Stop(p)
  PROVE  IInv'
<1>0. TypeOK /\ Locked(p) BY DEF IInv
<1>1. /\ file' \in [Hosts -> Processes \cup {None}]
      /\ \A q \in Processes \ {p} : file[HostOf[q]] = q => file'[HostOf[q]] = q
  BY LetGo DEF Stop
<1>2. UNCHANGED <<now, key, since, excused>> BY DEF Stop
<1>3. CASE lock[p] = "redis" /\ Holds(p)
  <2>1. at' = [at EXCEPT ![p] = "drop"] BY <1>3 DEF Stop
  <2>2. at'[p] = "drop" BY <1>0, <2>1 DEF TypeOK
  <2>3. lock' = [lock EXCEPT ![p] = "redis"] BY <1>3, <2>2 DEF Stop
  <2>4. lock'[p] = "redis" BY <1>0, <2>3 DEF TypeOK
  <2>5. Locked(p)' BY <2>2, <2>4 DEF Locked, Loops, LeaderConstants
  <2> QED BY <1>1, <1>2, <1>3, <2>1, <2>3, <2>5, StepInv DEF Steps
<1>4. CASE ~(lock[p] = "redis" /\ Holds(p))
  <2>1. at' = [at EXCEPT ![p] = "off"] BY <1>4 DEF Stop
  <2>2. at'[p] = "off" BY <1>0, <2>1 DEF TypeOK
  <2>3. lock' = [lock EXCEPT ![p] = None] BY <2>2 DEF Stop
  <2>4. lock'[p] = None BY <1>0, <2>3 DEF TypeOK
  <2>5. Locked(p)' /\ ~Relies(p)' BY <2>2, <2>4 DEF Locked, Relies, Loops, LeaderConstants
  <2> QED BY <1>1, <1>2, <2>1, <2>3, <2>5, StepInv DEF Steps, LeaderConstants
<1> QED BY <1>3, <1>4

LEMMA CrashInv ==
  ASSUME LeaderConstants, IInv, NEW p \in Processes, Crash(p)
  PROVE  IInv'
<1>0. TypeOK BY DEF IInv
<1>1. /\ file' \in [Hosts -> Processes \cup {None}]
      /\ \A q \in Processes \ {p} : file[HostOf[q]] = q => file'[HostOf[q]] = q
  BY LetGo DEF Crash
<1>2. /\ at' = [at EXCEPT ![p] = "off"] /\ lock' = [lock EXCEPT ![p] = None]
      /\ UNCHANGED <<now, key, since, excused>>
  BY DEF Crash
<1>3. at'[p] = "off" /\ lock'[p] = None BY <1>0, <1>2 DEF TypeOK
<1>4. Locked(p)' /\ ~Relies(p)' BY <1>3 DEF Locked, Relies, Loops, LeaderConstants
<1> QED BY <1>1, <1>2, <1>4, StepInv DEF Steps, LeaderConstants

(* DELETE removes whatever key is there; unless somebody overstayed, it is *)
(* the one of the process that asked, and nobody relied on it but that one.*)
LEMMA DropInv ==
  ASSUME LeaderConstants, IInv, NEW p \in Processes, Drop(p)
  PROVE  IInv'
<1>0. TypeOK /\ Locked(p) /\ at[p] = "drop" /\ lock[p] = "redis" BY DEF Drop, IInv, Locked
<1>1. /\ at' = [at EXCEPT ![p] = "off"] /\ lock' = [lock EXCEPT ![p] = None]
      /\ key' \in {NoKey, key} /\ UNCHANGED <<now, file, since, excused>>
  BY DEF Drop
<1>2. /\ at'[p] = "off" /\ lock'[p] = None
      /\ \A q \in Processes \ {p} : at'[q] = at[q] /\ lock'[q] = lock[q]
  BY <1>0, <1>1 DEF TypeOK
<1>3. TypeOK' BY <1>0, <1>1 DEF TypeOK, Steps
<1>4. \A q \in Processes : Locked(q)'
  BY <1>0, <1>1, <1>2 DEF IInv, Locked, Loops, LeaderConstants
<1>5. ASSUME Kept PROVE Kept'
  <2>1. \A q \in Processes \ {p} : ~Relies(q) BY <1>0, <1>5 DEF Kept, Relies, Holds
  <2>2. \A q \in Processes : ~Relies(q)'
    BY <1>2, <2>1 DEF Relies, Loops, LeaderConstants
  <2>3. \A q \in Processes : lock'[q] = "redis" /\ Holds(q)' => key'.till = since'[q] + Ttl
    BY <1>1, <1>2, <1>5 DEF Kept, Holds, NoKey, LeaderConstants
  <2> QED BY <1>1, <1>5, <2>2, <2>3 DEF Kept
<1> QED BY <1>1, <1>3, <1>4, <1>5 DEF IInv

(* A key that Redis lost excuses everything after it.                      *)
LEMMA ForgetInv ==
  ASSUME LeaderConstants, IInv, Forget
  PROVE  IInv'
<1>1. TypeOK' BY DEF Forget, IInv, TypeOK
<1>2. \A p \in Processes : Locked(p)' BY DEF Forget, IInv, Locked, Loops
<1> QED BY <1>1, <1>2 DEF Forget, IInv

(* The clock takes a key away at its time; who relies on it is still       *)
(* within its lifetime, or overstays.                                      *)
LEMMA TickInv ==
  ASSUME LeaderConstants, IInv, Tick
  PROVE  IInv'
<1>0. TypeOK BY DEF IInv
<1>1. /\ now' = now + 1 /\ UNCHANGED <<file, at, lock, since>>
      /\ key' = IF now + 1 >= key.till THEN NoKey ELSE key
      /\ excused' = (excused \/ \E p \in Processes : Overstays(p))
  BY DEF Tick
<1>2. TypeOK'
  <2>1. excused' \in BOOLEAN BY <1>0, <1>1 DEF TypeOK
  <2> QED BY <1>0, <1>1, <2>1 DEF TypeOK
<1>3. \A p \in Processes : Locked(p)' BY <1>1 DEF IInv, Locked, Loops
<1>4. ASSUME ~excused' PROVE Kept'
  <2>1. Kept /\ \A p \in Processes : ~Overstays(p) BY <1>1, <1>4 DEF IInv
  <2>2. key' # NoKey => now' < key'.till BY <1>0, <1>1, KeyIs DEF TypeOK
  <2>3. ASSUME NEW p \in Processes, Relies(p) PROVE Holds(p)'
    <3>1. Holds(p) /\ key.till = since[p] + Ttl /\ now < key.till /\ key # NoKey
      BY <1>0, <2>1, <2>3, KeyIs DEF Kept, Relies
    <3>2. now + 1 - since[p] < Ttl
      BY <1>0, <2>1, <2>3 DEF Overstays, Relies, TypeOK, LeaderConstants
    <3>3. now + 1 < key.till BY <1>0, <3>1, <3>2 DEF TypeOK, LeaderConstants
    <3>4. key' = key BY <1>0, <1>1, <3>1, <3>3, KeyIs DEF TypeOK
    <3> QED BY <3>1, <3>4 DEF Holds
  <2>4. \A p \in Processes : Relies(p)' => Holds(p)' BY <1>1, <2>3 DEF Relies, Loops
  <2>5. \A p \in Processes : lock'[p] = "redis" /\ Holds(p)' => key'.till = since'[p] + Ttl
    BY <1>1, <2>1 DEF Kept, Holds, NoKey, LeaderConstants
  <2> QED BY <2>2, <2>4, <2>5 DEF Kept
<1> QED BY <1>2, <1>3, <1>4 DEF IInv

(* IInv is inductive.                                                      *)
LEMMA NextInv ==
  ASSUME LeaderConstants, IInv, [Next]_vars
  PROVE  IInv'
<1>1. CASE UNCHANGED vars
  BY <1>1 DEF IInv, TypeOK, Locked, Kept, Relies, Loops, Holds, vars
<1>2. CASE Next
  BY <1>2, TickInv, ForgetInv, AcquireKeyInv, AcquireFileInv, LoopInv, ExtendInv, StopInv, DropInv,
     CrashInv
  DEF Next
<1> QED BY <1>1, <1>2

(* One process is in the loop (distributed_lock.py), for any number of     *)
(* them on any hosts: what a HeldLock believes is true as long as its pass *)
(* stays within the lifetime of the key and Redis keeps it.                *)
THEOREM OneLeader == ASSUME LeaderConstants PROVE Spec => []OneLoop
<1>1. Init => IInv BY InitInv
<1>2. IInv /\ [Next]_vars => IInv' BY NextInv
<1>3. IInv => OneLoop BY InvOne
<1> QED BY <1>1, <1>2, <1>3, PTL DEF Spec
=============================================================================
