------------------------------- MODULE Alerts -------------------------------
(***************************************************************************)
(* Ops alerts: the watchdog of a host and the error handler of an API      *)
(* process report to a relay, which folds repeats and limits the rate in   *)
(* front of one Telegram chat (ops/watchdog/watchdog.py,                   *)
(* app/services/error_alerts.py, ops/alert_relay/main.py).                 *)
(* A report is one at a time per source; anything on its way may get lost. *)
(***************************************************************************)
EXTENDS Naturals, Sequences, FiniteSets

CONSTANTS
  Conditions,   \* what the watchdog of a host checks; its own fingerprint
  Needed,       \* Condition.needed, per condition
  Errors,       \* fingerprints of errors logged by an API process
  Dedup, Minute, PerMinute,   \* DEDUP_SECONDS, 60 s, per_minute
  Throttle, QueueSize,        \* of AlertRelayHandler
  MaxTime, MaxReports,        \* bounds: time, reports that reach the relay
  None

VARIABLES
  now,
  bad,      \* the condition really holds on the host
  streak,   \* Condition.bad_streak, active
  active,
  last,     \* AlertRelayHandler._last_sent
  queue,    \* AlertRelayHandler._queue
  post,     \* per source, the report on its way: to the relay, then the chat
  seen,     \* Relay._seen: when sent, how many held
  sent,     \* Relay._sent: times of the slots taken
  dropped,  \* Relay._dropped
  told,     \* history: the chat was last told that the condition holds
  missed,   \* history: the last report of the condition went missing
  arrived, counted, lost   \* history: alerts the relay got, told of, lost

relay   == <<seen, sent, dropped>>
sources == <<bad, streak, active, last, queue>>
chat    == <<told, missed, arrived, counted, lost>>
vars    == <<now, sources, post, relay, chat>>

Sources == Conditions \cup {"api"}
Unseen  == [at |-> None, held |-> 0]
NoPost  == [at |-> "none", f |-> None, level |-> "none", count |-> 0]
Report(f, level) == [at |-> "sent", f |-> f, level |-> level, count |-> 0]

Init ==
  /\ now = 0
  /\ bad = [c \in Conditions |-> FALSE] /\ active = [c \in Conditions |-> FALSE]
  /\ streak = [c \in Conditions |-> 0]
  /\ last = [e \in Errors |-> None] /\ queue = <<>>
  /\ post = [s \in Sources |-> NoPost]
  /\ seen = [f \in Conditions \cup Errors |-> Unseen] /\ sent = <<>> /\ dropped = 0
  /\ told = [c \in Conditions |-> FALSE] /\ missed = [c \in Conditions |-> FALSE]
  /\ arrived = 0 /\ counted = 0 /\ lost = 0

-----------------------------------------------------------------------------
Changes(c) ==
  /\ bad' = [bad EXCEPT ![c] = ~@]
  /\ UNCHANGED <<now, streak, active, last, queue, post, relay, chat>>

(* Condition.update and report: the state changes before the report leaves.*)
Check(c) ==
  /\ post[c] = NoPost
  /\ LET run  == IF bad[c] THEN IF streak[c] < Needed[c] THEN streak[c] + 1 ELSE Needed[c] ELSE 0
         fire == bad[c] /\ ~active[c] /\ run >= Needed[c]
         ends == ~bad[c] /\ active[c]
     IN /\ streak' = [streak EXCEPT ![c] = run]
        /\ active' = [active EXCEPT ![c] = fire \/ (@ /\ ~ends)]
        /\ post' = [post EXCEPT ![c] = IF fire THEN Report(c, "error")
                                       ELSE IF ends THEN Report(c, "resolved") ELSE NoPost]
  /\ UNCHANGED <<now, bad, last, queue, relay, chat>>

(* A new watchdog process knows of no problem.                             *)
RestartWatchdog(c) ==
  /\ active[c] /\ post[c] = NoPost
  /\ active' = [active EXCEPT ![c] = FALSE] /\ streak' = [streak EXCEPT ![c] = 0]
  /\ missed' = [missed EXCEPT ![c] = TRUE]
  /\ UNCHANGED <<now, bad, last, queue, post, relay, told, arrived, counted, lost>>

Throttled(e) == last[e] # None /\ now - last[e] < Throttle

(* emit: the throttle starts although a full queue discards the alert.     *)
Log(e) ==
  /\ ~Throttled(e)
  /\ last' = [last EXCEPT ![e] = now]
  /\ queue' = IF Len(queue) < QueueSize THEN Append(queue, e) ELSE queue
  /\ UNCHANGED <<now, bad, streak, active, post, relay, chat>>

(* _drain, one alert at a time.                                            *)
Drain ==
  /\ queue # <<>> /\ post["api"] = NoPost
  /\ post' = [post EXCEPT !["api"] = Report(Head(queue), "error")]
  /\ queue' = Tail(queue)
  /\ UNCHANGED <<now, bad, streak, active, last, relay, chat>>

-----------------------------------------------------------------------------
Missed(f) == [c \in Conditions |-> c = f \/ missed[c]]
Window == SelectSeq(sent, LAMBDA t : now - t < Minute)

(* Mutant: repeats that have been reported stay in the count.              *)
KeepHeld(f) == seen[f].held

HeldAfter(f) == 0

(* Mutant: a cleared problem is still remembered as sent.                  *)
Remembered(f, level) == [at |-> now, held |-> HeldAfter(f)]

Recorded(f, level) == IF level = "resolved" THEN Unseen ELSE [at |-> now, held |-> HeldAfter(f)]

Repeats(s, f) ==
  seen[f].at # None /\ post[s].level # "resolved" /\ now - seen[f].at < Dedup

(* Relay.admit and take_dropped, in one step of the relay's process.       *)
Hold(s, f) ==
  /\ Repeats(s, f)
  /\ seen' = [seen EXCEPT ![f].held = @ + 1]
  /\ post' = [post EXCEPT ![s] = NoPost]
  /\ UNCHANGED <<sent, dropped, missed>>
DropReport(s, f) ==
  /\ ~Repeats(s, f)
  /\ Len(Window) >= PerMinute
  /\ dropped' = dropped + 1 /\ sent' = Window
  /\ missed' = Missed(f)
  /\ post' = [post EXCEPT ![s] = NoPost]
  /\ UNCHANGED seen
Admit(s, f) ==
  /\ ~Repeats(s, f)
  /\ Len(Window) < PerMinute
  /\ sent' = Append(Window, now)
  /\ seen' = [seen EXCEPT ![f] = Recorded(f, post[s].level)]
  /\ dropped' = 0
  /\ post' = [post EXCEPT ![s].at = "admitted", ![s].count = 1 + seen[f].held + dropped]
  /\ UNCHANGED missed

Arrive(s) ==
  /\ post[s].at = "sent" /\ arrived < MaxReports
  /\ arrived' = arrived + 1
  /\ Hold(s, post[s].f) \/ DropReport(s, post[s].f) \/ Admit(s, post[s].f)
  /\ UNCHANGED <<now, sources, told, counted, lost>>

(* deliver: Telegram takes the message,                                    *)
Deliver(s) ==
  /\ post[s].at = "admitted"
  /\ told' = [c \in Conditions |-> IF c = s THEN post[s].level = "error" ELSE told[c]]
  /\ missed' = [c \in Conditions |-> c # s /\ missed[c]]
  /\ counted' = counted + post[s].count
  /\ post' = [post EXCEPT ![s] = NoPost]
  /\ UNCHANGED <<now, sources, relay, arrived, lost>>

(* or the post or the message fails: nobody tries again.                   *)
Lose(s) ==
  /\ post[s] # NoPost
  /\ missed' = Missed(post[s].f)
  /\ lost' = lost + post[s].count
  /\ post' = [post EXCEPT ![s] = NoPost]
  /\ UNCHANGED <<now, sources, relay, told, arrived, counted>>

(* Alerts a new relay process knows nothing of: held back, or on the way.  *)
Pieces(count) == UNION {{x} \X (1 .. count[x]) : x \in DOMAIN count}
Total(count) == Cardinality(Pieces(count))
Held   == Total([f \in DOMAIN seen |-> seen[f].held])
Flying == Total([s \in Sources |-> post[s].count])

RestartRelay ==
  /\ seen' = [f \in DOMAIN seen |-> Unseen] /\ sent' = <<>> /\ dropped' = 0
  /\ lost' = lost + Held + dropped + Flying
  /\ missed' = [c \in Conditions |-> missed[c] \/ post[c].at = "admitted"]
  /\ post' = [s \in Sources |-> IF post[s].at = "admitted" THEN NoPost ELSE post[s]]
  /\ UNCHANGED <<now, sources, told, arrived, counted>>

Tick ==
  /\ now < MaxTime /\ now' = now + 1
  /\ UNCHANGED <<sources, post, relay, chat>>

Next ==
  \/ Tick \/ Drain \/ RestartRelay
  \/ \E c \in Conditions : Changes(c) \/ Check(c) \/ RestartWatchdog(c)
  \/ \E e \in Errors : Log(e)
  \/ \E s \in Sources : Arrive(s) \/ Deliver(s) \/ Lose(s)

Spec == Init /\ [][Next]_vars
-----------------------------------------------------------------------------
(* Between reports the chat shows the state the watchdog knows, whatever   *)
(* the relay has folded, however the problem comes and goes within the     *)
(* folding time and even if the relay starts afresh; only a report that    *)
(* was dropped by the rate limit or got lost, and a restart of the         *)
(* watchdog, leave them apart until the next report (Condition.update,     *)
(* Relay.admit).                                                           *)
ChatAgrees ==
  \A c \in Conditions : post[c] = NoPost /\ ~missed[c] => told[c] = active[c]

(* Every alert the relay gets is told, counted in a message as held back   *)
(* or dropped, waits to be, or went down with a failed message or a        *)
(* restart; none is counted twice (admit, take_dropped, deliver).          *)
Accounted == arrived = counted + lost + dropped + Held + Flying
-----------------------------------------------------------------------------
(* What the proofs assume of the constants, and use besides the above.     *)
AlertsConstants ==
  /\ IsFiniteSet(Conditions) /\ IsFiniteSet(Errors) /\ Conditions \cap Errors = {}
  /\ "api" \notin Conditions
  /\ Needed \in [Conditions -> Nat]

(* A report says what the watchdog found; what the API's handler reports   *)
(* is of one of its errors.                                                *)
Says(c) ==
  post[c] # NoPost => post[c].f = c /\ post[c].level = IF active[c] THEN "error" ELSE "resolved"

Counts(s) == post[s].at # "admitted" => post[s].count = 0

(* A problem that the relay remembers has been told to the chat or is on   *)
(* its way; one that it told to be over is forgotten.                      *)
Remembers(c) ==
  /\ seen[c].at # None /\ ~missed[c] /\ post[c].at # "admitted" => told[c]
  /\ post[c].at = "admitted" /\ post[c].level = "resolved" => seen[c].at = None

(* What the chat, the watchdog and the relay know of one condition.        *)
Chat(c) ==
  /\ post[c] = NoPost /\ ~missed[c] => told[c] = active[c]
  /\ Says(c) /\ Remembers(c)

PostType == [at : {"none", "sent", "admitted"}, f : Conditions \cup Errors \cup {None},
             level : {"none", "error", "resolved"}, count : Nat]
SeenType == [at : Nat \cup {None}, held : Nat]

AlertTypes ==
  /\ now \in Nat
  /\ active \in [Conditions -> BOOLEAN] /\ streak \in [Conditions -> Nat]
  /\ bad \in [Conditions -> BOOLEAN] /\ queue \in Seq(Errors)
  /\ post \in [Sources -> PostType] /\ seen \in [Conditions \cup Errors -> SeenType]
  /\ dropped \in Nat /\ arrived \in Nat /\ counted \in Nat /\ lost \in Nat
  /\ told \in [Conditions -> BOOLEAN] /\ missed \in [Conditions -> BOOLEAN]

IInv ==
  /\ AlertTypes /\ Accounted
  /\ \A s \in Sources : Counts(s)
  /\ post["api"] # NoPost => post["api"].f \in Errors
  /\ \A c \in Conditions : Chat(c)
=============================================================================
