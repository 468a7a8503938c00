------------------------------- MODULE Probes -------------------------------
(***************************************************************************)
(* When NBC is asked whether a code is paid (app/billing/bakong.py,        *)
(* bakong_check_cache.py, bakong_quota.py, bakong_sweeper.py): the answers *)
(* are cached, an intent has a budget of checks per window, and a circuit  *)
(* breaker shared through Redis keeps everybody quiet after an error.  A   *)
(* call that is told of the day's limit alerts the operators first, and    *)
(* closes the breaker when Telegram has answered.  The module follows one  *)
(* worker process; `shared` is what Redis holds, written by the other      *)
(* workers too.  Checkout models what callers do with answers.             *)
(***************************************************************************)
EXTENDS Integers, FiniteSets, FiniteSetsExt

CONSTANTS
  Codes, IntentOf,              \* md5 of a QR, and its intent
  Buyers, Sweeper,              \* concurrent calls
  UnpaidTtl, UnknownTtl, PaidTtl,
  Quota, Brief,                 \* the two cooldowns
  Lag,                          \* how long Telegram may take
  MaxChecks, Window,            \* the budget
  HasRedis,                     \* REDIS_URL is set
  MaxTime, MaxResets, None      \* bounds of the model

Intents == {IntentOf[c] : c \in Codes}
Calls == Buyers \cup {Sweeper}

VARIABLES
  now, paid,
  cache,     \* per code: status and expiry
  blocked,   \* this process's deadline
  shared,    \* the deadline in Redis
  pause,     \* _rate_limit_until of the sweeper
  used,      \* per intent: checks of the window, and its start
  call,      \* the code a call asks NBC about, and whether it was paid then;
             \* what it heard before it alerted, and when
  batch,     \* codes the sweeper's pass has yet to check
  heard,     \* history: when NBC asked this process for silence
  asks,      \* history: the times of each intent's checks by buyers
  resets     \* history: when its budget was emptied for a new code

vars == <<now, paid, cache, blocked, shared, pause, used, call, batch, heard, asks, resets>>

Quiet == [c |-> None, was |-> FALSE, told |-> "no", at |-> 0]

Init ==
  /\ now = 0 /\ paid = {} /\ blocked = 0 /\ shared = 0 /\ pause = 0 /\ heard = {}
  /\ cache = [c \in Codes |-> [s |-> None, till |-> 0]]
  /\ used = [i \in Intents |-> [n |-> 0, since |-> 0]]
  /\ call = [p \in Calls |-> Quiet] /\ batch = {}
  /\ asks = [i \in Intents |-> {}] /\ resets = [i \in Intents |-> {}]

-----------------------------------------------------------------------------
Cached(c) == IF now < cache[c].till THEN cache[c].s ELSE None
Ttl(s) == CASE s = "paid" -> PaidTtl [] s = "unpaid" -> UnpaidTtl [] OTHER -> UnknownTtl
Remembered(c, s) == [cache EXCEPT ![c] = [s |-> s, till |-> now + Ttl(s)]]

Blocked == now < shared \/ now < blocked

(* Mutant: the later error decides, however short its cooldown.            *)
Replaced(deadline, cooldown) == now + cooldown

Longer(deadline, cooldown) == Max({deadline, now + cooldown})

Block(cooldown) ==
  /\ blocked' = Longer(blocked, cooldown)
  /\ shared' = IF HasRedis THEN Longer(shared, cooldown) ELSE 0

Running(i) == used[i].n > 0 /\ now - used[i].since < Window

(* Mutant: a check too many.                                               *)
RoomPlus(i) == ~Running(i) \/ used[i].n <= MaxChecks

Room(i) == ~Running(i) \/ used[i].n < MaxChecks
Consumed(i) ==
  [used EXCEPT ![i] = IF Running(i) THEN [used[i] EXCEPT !.n = @ + 1] ELSE [n |-> 1, since |-> now]]

-----------------------------------------------------------------------------
(* The caller gets status s.  The sweeper ends its pass on "unknown" and   *)
(* is then silent for the long cooldown, and everybody with it.            *)
Got(p, c, s) ==
  /\ call' = [call EXCEPT ![p] = Quiet]
  /\ IF p = Sweeper /\ s = "unknown"
       THEN batch' = {} /\ pause' = now + Quota
       ELSE batch' = (IF p = Sweeper THEN batch \ {c} ELSE batch) /\ UNCHANGED pause

(* probe_khqr_status up to its first await.                                *)
MayCall(p, c) == call[p].c = None /\ (p = Sweeper => c \in batch)

Hit(p, c) ==
  /\ MayCall(p, c) /\ Cached(c) # None
  /\ Got(p, c, Cached(c))
  /\ IF p = Sweeper /\ Cached(c) = "unknown" THEN Block(Quota) ELSE UNCHANGED <<blocked, shared>>
  /\ UNCHANGED <<now, paid, cache, used, heard, asks, resets>>

Refuse(p, c) ==
  /\ MayCall(p, c) /\ Cached(c) = None
  /\ Blocked \/ (p # Sweeper /\ ~Room(IntentOf[c]))
  /\ cache' = Remembered(c, "unknown")
  /\ Got(p, c, "unknown")
  /\ IF p = Sweeper THEN Block(Quota) ELSE UNCHANGED <<blocked, shared>>
  /\ UNCHANGED <<now, paid, used, heard, asks, resets>>

(* The sweeper does not name the intent, so it has no budget.              *)
Ask(p, c) ==
  LET i == IntentOf[c] IN
  /\ MayCall(p, c) /\ Cached(c) = None /\ ~Blocked
  /\ IF p = Sweeper
       THEN UNCHANGED <<used, asks>>
       ELSE /\ Room(i) /\ used' = Consumed(i)
            /\ asks' = [asks EXCEPT ![i] = @ \cup {<<now, Cardinality(@)>>}]
  /\ call' = [call EXCEPT ![p] = [c |-> c, was |-> c \in paid, told |-> "no", at |-> 0]]
  /\ UNCHANGED <<now, paid, cache, blocked, shared, pause, batch, heard, resets>>

(* A paid answer closes the breaker again.                                 *)
Settled(p) ==
  /\ cache' = Remembered(call[p].c, "paid") /\ Got(p, call[p].c, "paid")
  /\ blocked' = 0 /\ shared' = 0 /\ heard' = {}

Limited(p) ==
  /\ cache' = Remembered(call[p].c, "unknown") /\ Got(p, call[p].c, "unknown")
  /\ Block(Quota)

(* The answer, given at any time since the call: paid, unpaid, a rate limit*)
(* or the day's limit when its alert has been sent, or anything else that  *)
(* is inconclusive.                                                        *)
Answer(p) ==
  LET c == call[p].c IN
  /\ c # None /\ call[p].told = "no"
  /\ \/ c \in paid /\ Settled(p)
     \/ /\ ~call[p].was
        /\ cache' = Remembered(c, "unpaid") /\ Got(p, c, "unpaid")
        /\ UNCHANGED <<blocked, shared, heard>>
     \/ Limited(p) /\ heard' = heard \cup {now}
     \/ /\ cache' = Remembered(c, "unknown") /\ Got(p, c, "unknown")
        /\ Block(IF p = Sweeper THEN Quota ELSE Brief)
        /\ UNCHANGED heard
  /\ UNCHANGED <<now, paid, used, asks, resets>>

(* The day's first answer that the limit is reached: the call awaits the   *)
(* alert with the answer, paid or not, in hand, and the others go on.      *)
Alert(p) ==
  /\ call[p].c # None /\ call[p].told = "no"
  /\ \E s \in {"unknown"} \cup (IF call[p].c \in paid THEN {"paid"} ELSE {}) :
       call' = [call EXCEPT ![p].told = s, ![p].at = now]
  /\ heard' = heard \cup {now}
  /\ UNCHANGED <<now, paid, cache, blocked, shared, pause, used, batch, asks, resets>>

Told(p) ==
  /\ \/ call[p].told = "paid" /\ Settled(p)
     \/ call[p].told = "unknown" /\ Limited(p) /\ UNCHANGED heard
  /\ UNCHANGED <<now, paid, used, asks, resets>>

-----------------------------------------------------------------------------
(* The sweeper takes the codes of a few recent pending intents.            *)
StartPass(cs) ==
  /\ batch = {} /\ cs # {} /\ now >= pause /\ ~Blocked
  /\ batch' = cs
  /\ UNCHANGED <<now, paid, cache, blocked, shared, pause, used, call, heard, asks, resets>>

(* Between two intents it looks at the breaker again.                      *)
StopPass ==
  /\ batch # {} /\ call[Sweeper].c = None /\ Blocked
  /\ batch' = {} /\ pause' = now + Quota /\ Block(Quota)
  /\ UNCHANGED <<now, paid, cache, used, call, heard, asks, resets>>

(* A regenerated QR gives its intent a full budget, of which the checks of *)
(* the code it replaces take their part.                                   *)
Regenerate(i) ==
  /\ used[i].n > 0 /\ Cardinality(resets[i]) < MaxResets
  /\ used' = [used EXCEPT ![i] = [n |-> 0, since |-> 0]]
  /\ resets' = [resets EXCEPT ![i] = @ \cup {<<now, Cardinality(@)>>}]
  /\ UNCHANGED <<now, paid, cache, blocked, shared, pause, call, batch, heard, asks>>

Pay(c) ==
  /\ paid' = paid \cup {c}
  /\ UNCHANGED <<now, cache, blocked, shared, pause, used, call, batch, heard, asks, resets>>

(* Other workers block, unblock, or overwrite the key in Redis; it is lost.*)
Others ==
  /\ HasRedis
  /\ shared' \in {0, now + Brief, now + Quota}
  /\ UNCHANGED <<now, paid, cache, blocked, pause, used, call, batch, heard, asks, resets>>

(* Telegram answers in time.  What has expired is forgotten.               *)
Tick ==
  /\ now < MaxTime /\ now' = now + 1
  /\ \A p \in Calls : call[p].told # "no" => now < call[p].at + Lag
  /\ cache' = [c \in Codes |-> IF now' < cache[c].till THEN cache[c] ELSE [s |-> None, till |-> 0]]
  /\ heard' = {d \in heard : now' < d + Quota}
  /\ UNCHANGED <<paid, blocked, shared, pause, used, call, batch, asks, resets>>

Next ==
  \/ Tick \/ Others \/ StopPass
  \/ \E c \in Codes : Pay(c)
  \/ \E cs \in SUBSET Codes : StartPass(cs)
  \/ \E i \in Intents : Regenerate(i)
  \/ \E p \in Calls : Answer(p) \/ Alert(p) \/ Told(p) \/ \E c \in Codes : Hit(p, c) \/ Refuse(p, c) \/ Ask(p, c)

Spec == Init /\ [][Next]_vars
-----------------------------------------------------------------------------
Telling(d) == \E p \in Calls : call[p].told # "no" /\ call[p].at = d

(* Once NBC asked this process to be silent, no further check leaves it    *)
(* before the long cooldown has passed or a paid answer has shown NBC well *)
(* again: not through an error that came later with a short cooldown, nor  *)
(* through another worker's writes to the shared key.  The checks that do  *)
(* leave are those of the moment in which the operators are alerted, which *)
(* is as long as Telegram takes.                                           *)
Silent ==
  \A p \in Calls, c \in Codes : Ask(p, c) =>
    \A d \in heard : now >= d + Quota \/ (Telling(d) /\ now <= d + Lag)
QuotaHeard == [][Silent]_vars

(* Buyers' checks of one intent, of its code and of the one before, that   *)
(* fall into any stretch of the length of a window stay below two budgets, *)
(* though the windows of the code are fixed, and one more for each new     *)
(* code of the stretch.                                                    *)
Since(set, t) == {a \in set : a[1] > t}
ChecksBounded ==
  \A i \in Intents :
    Cardinality(Since(asks[i], now - Window))
      < MaxChecks * (2 + Cardinality(Since(resets[i], now - Window)))

(* The documented claim below does not hold: the sweeper takes any unknown *)
(* answer for an exhausted quota.                                          *)

(* "Transient connectivity failures use a short cooldown so one timeout    *)
(* cannot suspend every buyer for an hour." (bakong_quota.py:8)            *)
TimeoutIsBrief == heard = {} => blocked <= now + Brief
-----------------------------------------------------------------------------
(* What the proofs assume of the constants, and use besides the above.     *)
ProbesConstants ==
  /\ Quota \in Nat /\ Brief \in Nat /\ Lag \in Nat
  /\ MaxChecks \in Nat \ {0} /\ Window \in Nat \ {0}

CallRec ==
  [c : Codes \cup {None}, was : BOOLEAN, told : {"no", "unknown", "paid"}, at : Nat]
CallType == [Calls -> CallRec]

TypeOK ==
  /\ now \in Nat /\ blocked \in Nat /\ shared \in Nat /\ heard \in SUBSET Nat
  /\ used \in [Intents -> [n : Nat, since : Nat]]
  /\ asks \in [Intents -> SUBSET (Nat \X Nat)]
  /\ resets \in [Intents -> SUBSET (Nat \X Nat)]
  /\ call \in CallType

(* What NBC asked for is noted, or about to be.                            *)
Noted ==
  /\ \A d \in heard : blocked >= d + Quota \/ Telling(d)
  /\ \A p \in Calls : call[p].told # "no" =>
       call[p].c # None /\ call[p].at <= now /\ now <= call[p].at + Lag

Listed(set) ==
  IsFiniteSet(set) /\ \A a \in set : a[1] <= now /\ a[2] < Cardinality(set)

(* In any stretch that is still of interest, the checks of a window that   *)
(* began in it are all counted, and of a window under way all but one; the *)
(* windows before them gave a budget for each new code, and less than one. *)
Within(i, t) ==
  LET n == Cardinality(Since(asks[i], t))
      whole == MaxChecks * Cardinality(Since(resets[i], t)) IN
  IF used[i].n > 0 /\ used[i].since <= t THEN n < whole + used[i].n
  ELSE n < whole + used[i].n + MaxChecks

Counted(i) ==
  /\ Listed(asks[i]) /\ Listed(resets[i])
  /\ used[i].n <= MaxChecks /\ used[i].since <= now
  /\ \A t \in Int : now - Window <= t /\ t <= now => Within(i, t)

IInv == TypeOK /\ Noted /\ \A i \in Intents : Counted(i)
=============================================================================
