------------------------------ MODULE Notices ------------------------------
(***************************************************************************)
(* What the ops chat is told of payments and of NBC's limits               *)
(* (app/services/telegram.py, app/billing/bakong_health_monitor.py): a     *)
(* settlement queues its message on the session of the request, which sends*)
(* the queue after its commit; an alert about NBC is claimed for the day in*)
(* a file that all workers lock.                                           *)
(***************************************************************************)
EXTENDS Naturals, Sequences, Functions

CONSTANTS
  Requests, Intents,        \* transactions that settle payments
  Callers, Alarms,          \* calls, in any worker, that find NBC's limit or health bad
  MaxDay, None

VARIABLES
  status,   \* payment_intents.status
  lock,     \* the row locks of the intents
  req,      \* a request: route, step, pending_telegram_alerts
  told,     \* history: how often the chat was told that an intent was paid
  untold,   \* history: paid intents of which the message was lost
  day,      \* the date in Cambodia
  stamp,    \* per alarm: the date in its file
  call,     \* a call: its step, its alarm and the date it read
  sent,     \* history: messages, by alarm and claimed date
  failed,   \* history: claimed alerts that were lost
  late      \* history: alarms that a call claimed for a day gone by

payments == <<status, lock, req, told, untold>>
alarms == <<day, stamp, call, sent, failed, late>>
vars == <<payments, alarms>>

Routes == {"poll", "sweep", "admin", "play"}
Quiet == [at |-> "idle", route |-> None, queue |-> << >>]
Calm  == [at |-> "idle", alarm |-> None, day |-> 0]

Init ==
  /\ status = [i \in Intents |-> "pending"] /\ lock = [i \in Intents |-> None]
  /\ req = [r \in Requests |-> Quiet]
  /\ told = [i \in Intents |-> 0] /\ untold = {}
  /\ day = 1 /\ stamp = [a \in Alarms |-> 0] /\ call = [c \in Callers |-> Calm]
  /\ sent = [a \in Alarms |-> [d \in 1 .. MaxDay |-> 0]] /\ failed = {} /\ late = {}

-----------------------------------------------------------------------------
Queued(r) == Range(req[r].queue)
Holding(r) == {i \in Intents : lock[i] = r}
Release(r) == lock' = [i \in Intents |-> IF lock[i] = r THEN None ELSE lock[i]]

Begin(r, route) ==
  /\ req[r] = Quiet
  /\ req' = [req EXCEPT ![r].at = "open", ![r].route = route]
  /\ UNCHANGED <<status, lock, told, untold, alarms>>

(* Mutant: the message is sent while the transaction is open.              *)
TellNow(r, i) ==
  /\ told' = [told EXCEPT ![i] = @ + 1]
  /\ UNCHANGED req

(* notify_payment_succeeded, at the end of fulfill_payment_intent.         *)
Queue(r, i) ==
  /\ req' = [req EXCEPT ![r].queue = Append(@, i)]
  /\ UNCHANGED told

(* The operator fulfils one intent, the others may find several paid; the  *)
(* row is read again under its lock.                                       *)
Fulfil(r, i) ==
  /\ req[r].at = "open" /\ lock[i] = None /\ status[i] = "pending"
  /\ req[r].route = "admin" => Holding(r) = {}
  /\ lock' = [lock EXCEPT ![i] = r]
  /\ Queue(r, i)
  /\ UNCHANGED <<status, untold, alarms>>

(* No plan: fulfill_payment_intent raises after it set the status, and the  *)
(* sweeper goes on with its batch.                                         *)
FulfilFails(r, i) ==
  /\ req[r].at = "open" /\ lock[i] = None /\ status[i] = "pending"
  /\ req[r].route = "sweep"
  /\ lock' = [lock EXCEPT ![i] = r]
  /\ UNCHANGED <<status, req, told, untold, alarms>>

Commits(r) ==
  /\ req[r].at = "open" /\ Queued(r) # {}
  /\ status' = [i \in Intents |-> IF i \in Holding(r) THEN "succeeded" ELSE status[i]]
  /\ Release(r)

(* commit_with_telegram takes the queue off the session.                   *)
CommitWithTelegram(r) ==
  /\ req[r].route # "play" /\ Commits(r)
  /\ untold' = untold \cup (Holding(r) \ Queued(r))
  /\ req' = [req EXCEPT ![r].at = "flush"]
  /\ UNCHANGED <<told, alarms>>

(* Playback commits and never looks at the queue.                          *)
CommitPlayback(r) ==
  /\ req[r].route = "play" /\ Commits(r)
  /\ untold' = untold \cup Holding(r)
  /\ req' = [req EXCEPT ![r] = Quiet]
  /\ UNCHANGED <<told, alarms>>

(* send_telegram_message hides the failure of Telegram.                    *)
Flush(r, ok) ==
  LET i == Head(req[r].queue) IN
  /\ req[r].at = "flush" /\ req[r].queue # << >>
  /\ told' = IF ok THEN [told EXCEPT ![i] = @ + 1] ELSE told
  /\ untold' = IF ok THEN untold ELSE untold \cup {i}
  /\ req' = [req EXCEPT ![r] = IF Len(@.queue) = 1 THEN Quiet
                                  ELSE [req[r] EXCEPT !.queue = Tail(@)]]
  /\ UNCHANGED <<status, lock, alarms>>

(* An error, a rollback or the end of the worker.                          *)
End(r) ==
  /\ req[r] # Quiet /\ Release(r)
  /\ untold' = IF req[r].at = "flush" THEN untold \cup Queued(r) ELSE untold
  /\ req' = [req EXCEPT ![r] = Quiet]
  /\ UNCHANGED <<status, told, alarms>>

-----------------------------------------------------------------------------
(* _alert_if_daily_limit and check_once_and_alert: the date is read before *)
(* the file is locked.                                                     *)
Notice(c, a) ==
  /\ call[c] = Calm
  /\ call' = [call EXCEPT ![c] = [at |-> "claim", alarm |-> a, day |-> day]]
  /\ UNCHANGED <<payments, day, stamp, sent, failed, late>>

(* Mutant: the file is written, but not looked at first.                   *)
AlwaysFirst(c) == TRUE

First(c) == stamp[call[c].alarm] # call[c].day

Belated(c) == late' = IF First(c) /\ call[c].day < day THEN late \cup {call[c].alarm} ELSE late

(* claim_bakong_daily_limit_alert, claim_bakong_checks_unavailable_alert.  *)
Claim(c) ==
  LET a == call[c].alarm IN
  /\ call[c].at = "claim"
  /\ stamp' = [stamp EXCEPT ![a] = call[c].day]
  /\ Belated(c)
  /\ call' = [call EXCEPT ![c] = IF First(c) THEN [@ EXCEPT !.at = "send"] ELSE Calm]
  /\ UNCHANGED <<payments, day, sent, failed>>

Send(c, ok) ==
  LET a == call[c].alarm
      d == call[c].day
  IN
  /\ call[c].at = "send"
  /\ sent' = IF ok THEN [sent EXCEPT ![a][d] = @ + 1] ELSE sent
  /\ failed' = IF ok THEN failed ELSE failed \cup {<<a, d>>}
  /\ call' = [call EXCEPT ![c] = Calm]
  /\ UNCHANGED <<payments, day, stamp, late>>

(* A worker that dies while it writes leaves the file empty.               *)
Die(c) ==
  /\ call[c].at = "claim" /\ First(c)
  /\ stamp' = [stamp EXCEPT ![call[c].alarm] = 0]
  /\ Belated(c)
  /\ call' = [call EXCEPT ![c] = Calm]
  /\ UNCHANGED <<payments, day, sent, failed>>

Midnight ==
  /\ day < MaxDay /\ day' = day + 1
  /\ UNCHANGED <<payments, stamp, call, sent, failed, late>>

Next ==
  \/ \E r \in Requests :
       \/ \E route \in Routes : Begin(r, route)
       \/ \E i \in Intents : Fulfil(r, i) \/ FulfilFails(r, i)
       \/ CommitWithTelegram(r) \/ CommitPlayback(r) \/ End(r)
       \/ \E ok \in BOOLEAN : Flush(r, ok)
  \/ \E c \in Callers :
       \/ \E a \in Alarms : Notice(c, a)
       \/ Claim(c) \/ Die(c)
       \/ \E ok \in BOOLEAN : Send(c, ok)
  \/ Midnight

Spec == Init /\ [][Next]_vars
-----------------------------------------------------------------------------
(* "we never announce success for a rolled-back payment" (telegram.py:147):*)
(* a payment is announced once, and only if it is settled; one that is     *)
(* settled is announced, unless playback settled it, it has no plan, or    *)
(* Telegram or the worker failed (commit_with_telegram).                   *)
PaymentsTold ==
  \A i \in Intents :
    IF status[i] = "succeeded"
      THEN LET waiting == \E r \in Requests : req[r].at = "flush" /\ i \in Queued(r)
           IN  IF waiting \/ i \in untold THEN told[i] = 0 ELSE told[i] = 1
      ELSE told[i] = 0

(* "At most one message per ICT day" (telegram.py:190), among all workers: *)
(* but for an alarm that a call claimed after midnight for the date it had *)
(* read before; and a day that is claimed is not lost in silence.          *)
OnceADay ==
  \A a \in Alarms \ late : \A d \in 1 .. MaxDay :
    /\ sent[a][d] <= 1
    /\ stamp[a] = d =>
         sent[a][d] = 1 \/ <<a, d>> \in failed \/
         \E c \in Callers : call[c] = [at |-> "send", alarm |-> a, day |-> d]
-----------------------------------------------------------------------------
(* What the proofs assume of the constants, and use besides the above.     *)
NoticesConstants == MaxDay \in Nat \ {0} /\ None \notin Requests

Waits(r, i) == req[r].at = "flush" /\ i \in Queued(r)

(* A request queues what it holds, each intent once; what it is to tell    *)
(* after its commit nobody has told, lost or is to tell.                   *)
Draft(r) ==
  /\ IsInjective(req[r].queue)
  /\ req[r].at = "idle" => req[r] = Quiet
  /\ req[r].at # "open" => Holding(r) = {}
  /\ req[r].at = "open" => Queued(r) \subseteq Holding(r)
  /\ req[r].at = "flush" => req[r].queue # << >>
  /\ \A i \in Intents : Waits(r, i) =>
       /\ status[i] = "succeeded" /\ i \notin untold
       /\ \A o \in Requests : Waits(o, i) => o = r

Open(i) == /\ lock[i] # None => status[i] = "pending"
           /\ status[i] = "pending" => i \notin untold

Sends(c, a, d) == call[c].at = "send" /\ call[c].alarm = a /\ call[c].day = d

Claims(c) ==
  IF call[c].at = "idle" THEN call[c] = Calm
  ELSE call[c].alarm \in Alarms /\ call[c].day \in 1 .. day

(* A day was claimed by one call, and today's claim is in the file.        *)
Claimed(a, d) ==
  /\ \A c, o \in Callers : Sends(c, a, d) => sent[a][d] = 0 /\ (Sends(o, a, d) => o = c)
  /\ sent[a][d] # 0 \/ (\E c \in Callers : Sends(c, a, d)) =>
       d < day \/ (d = day /\ stamp[a] = d)

(* A claimed day is not lost in silence, said with Sends.                  *)
Kept(a, d) ==
  /\ sent[a][d] <= 1
  /\ stamp[a] = d =>
       sent[a][d] = 1 \/ <<a, d>> \in failed \/ \E c \in Callers : Sends(c, a, d)

ReqType == [at : {"idle", "open", "flush"}, route : Routes \cup {None}, queue : Seq(Intents)]
CallType == [at : {"idle", "claim", "send"}, alarm : Alarms \cup {None}, day : 0 .. MaxDay]

PaymentsInv ==
  /\ status \in [Intents -> {"pending", "succeeded"}]
  /\ lock \in [Intents -> Requests \cup {None}]
  /\ req \in [Requests -> ReqType]
  /\ told \in [Intents -> Nat] /\ untold \in SUBSET Intents
  /\ PaymentsTold
  /\ \A r \in Requests : Draft(r)
  /\ \A i \in Intents : Open(i)

AlarmsInv ==
  /\ day \in 1 .. MaxDay /\ stamp \in [Alarms -> 0 .. MaxDay]
  /\ call \in [Callers -> CallType]
  /\ sent \in [Alarms -> [1 .. MaxDay -> Nat]]
  /\ OnceADay
  /\ \A a \in Alarms : stamp[a] <= day
  /\ \A c \in Callers : Claims(c)
  /\ \A a \in Alarms \ late : \A d \in 1 .. MaxDay : Claimed(a, d)

IInv == PaymentsInv /\ AlarmsInv
=============================================================================
