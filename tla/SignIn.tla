------------------------------- MODULE SignIn -------------------------------
(***************************************************************************)
(* One-time credentials (app/services): TV pairing codes, Telegram bot     *)
(* logins, Telegram widget nonces and password reset links.  Each is a row *)
(* that a handler finds with FOR UPDATE, judges by its status and expiry,  *)
(* and writes back in the same transaction; handlers of one code overlap   *)
(* (a poll repeated by an impatient app, an update Telegram redelivers, a  *)
(* link opened twice), and any of them may die before it commits.          *)
(***************************************************************************)
EXTENDS Naturals, FiniteSets

CONSTANTS
  Handlers,   \* transactions that may overlap
  Codes,      \* rows, of any of the four tables
  KindOf,     \* which table: "pairing", "bot", "nonce" or "reset"
  People,     \* Telegram users, or the accounts of phones and mailboxes
  None

VARIABLES
  row,      \* status, and the person it is bound to
  lapsed,   \* codes past expires_at
  rowLock,  \* FOR UPDATE on a row
  handler,  \* what each handler does, on which code, for whom
  opened,   \* history: per code, the sessions (or new passwords) it led to
  handed,   \* history: per code, how often its session token was sent out
  agreed    \* history: <<code, person>> of every approval that was accepted

vars == <<row, lapsed, rowLock, handler, opened, handed, agreed>>

Status == {"absent", "pending", "started", "confirmed", "used", "expired", "gone"}
Ops == {"confirm", "handout", "tap", "approve", "cancel", "poll", "widget", "reset", "relink"}
Resting == [op |-> "none", c |-> None, by |-> None, held |-> FALSE]

Init ==
  /\ row = [c \in Codes |-> [status |-> "absent", who |-> None]]
  /\ lapsed = {} /\ agreed = {}
  /\ rowLock = [c \in Codes |-> None]
  /\ handler = [h \in Handlers |-> Resting]
  /\ opened = [c \in Codes |-> 0] /\ handed = [c \in Codes |-> 0]

Kind(k) == {c \in Codes : KindOf[c] = k}

(* What each handler may do next, once it has the row.                     *)
OpsOn(c) ==
  CASE KindOf[c] = "pairing" -> {"confirm", "handout"}
    [] KindOf[c] = "bot"     -> {"tap", "approve", "cancel", "poll"}
    [] KindOf[c] = "nonce"   -> {"widget"}
    [] KindOf[c] = "reset"   -> {"reset"}

-----------------------------------------------------------------------------
(* A new row.  A reset link is bound to its mailbox; the handler first     *)
(* deletes the links it can see ("only the newest link works").            *)
Start(c) ==
  /\ KindOf[c] # "reset" /\ row[c].status = "absent"
  /\ row' = [row EXCEPT ![c].status = "pending"]
  /\ UNCHANGED <<lapsed, rowLock, handler, opened, handed, agreed>>

Links(p) == {c \in Kind("reset") : row[c].status \in {"pending", "used"} /\ row[c].who = p}

(* The DELETE waits for a link that is being used.                         *)
DropLinks(h, p) ==
  /\ handler[h].op = "none" /\ Kind("reset") # {}
  /\ \A c \in Links(p) : rowLock[c] = None
  /\ rowLock' = [c \in Codes |-> IF c \in Links(p) THEN h ELSE rowLock[c]]
  /\ handler' = [handler EXCEPT ![h] = [Resting EXCEPT !.op = "relink", !.by = p]]
  /\ UNCHANGED <<row, lapsed, opened, handed, agreed>>

NewLink(h, c) ==
  LET p == handler[h].by IN
  /\ handler[h].op = "relink"
  /\ c \in Kind("reset") /\ row[c].status = "absent"
  /\ row' = [d \in Codes |->
       IF d = c THEN [status |-> "pending", who |-> p]
       ELSE IF rowLock[d] = h THEN [status |-> "gone", who |-> None] ELSE row[d]]
  /\ rowLock' = [d \in Codes |-> IF rowLock[d] = h THEN None ELSE rowLock[d]]
  /\ handler' = [handler EXCEPT ![h] = Resting]
  /\ UNCHANGED <<lapsed, opened, handed, agreed>>

-----------------------------------------------------------------------------
(* A handler sends its SELECT ... FOR UPDATE for the code it was given ... *)
Ask(h, c, op, p) ==
  /\ handler[h].op = "none" /\ row[c].status # "absent" /\ op \in OpsOn(c)
  /\ op \in {"handout", "poll"} => p = None
  /\ op \notin {"handout", "poll"} => p # None
  /\ handler' = [handler EXCEPT ![h] = [op |-> op, c |-> c, by |-> p, held |-> FALSE]]
  /\ UNCHANGED <<row, lapsed, rowLock, opened, handed, agreed>>

(* ... and, when it has the row, reads the clock and decides.              *)
AnySender(h, c) == TRUE   \* Mutant: anyone's tap on Confirm counts.
SameSender(h, c) == row[c].who = handler[h].by

Accepts(h) ==
  LET c == handler[h].c
      s == row[c].status
  IN  /\ c \notin lapsed
      /\ CASE handler[h].op = "confirm" -> s = "pending"
           [] handler[h].op = "handout" -> s = "confirmed"
           [] handler[h].op = "tap" ->
                s = "pending" \/ (s = "started" /\ SameSender(h, c))
           [] handler[h].op \in {"approve", "cancel"} ->
                s = "started" /\ SameSender(h, c)
           [] handler[h].op = "poll" -> s = "confirmed"
           [] handler[h].op \in {"widget", "reset"} -> s = "pending"

\* Mutant: the row is found without FOR UPDATE.
NotTaken(h, c) == rowLock

Taken(h, c) == [rowLock EXCEPT ![c] = h]

Find(h) ==
  LET c == handler[h].c IN
  /\ handler[h].op \in Ops \ {"relink"} /\ ~handler[h].held
  /\ rowLock[c] = None
  /\ IF Accepts(h)
       THEN /\ handler' = [handler EXCEPT ![h].held = TRUE]
            /\ rowLock' = Taken(h, c)
       ELSE /\ handler' = [handler EXCEPT ![h] = Resting]
            /\ UNCHANGED rowLock
  /\ UNCHANGED <<row, lapsed, opened, handed, agreed>>

(* Writes and commit.  A pairing opens the session when the phone confirms *)
(* and the TV only collects its token; a bot login opens it when the app   *)
(* polls; the answer that carries the token may be lost.                   *)
Outcome(h) ==
  LET r == row[handler[h].c] IN
  CASE handler[h].op = "confirm" -> [status |-> "confirmed", who |-> handler[h].by]
    [] handler[h].op = "handout" -> [r EXCEPT !.status = "expired"]
    [] handler[h].op = "tap"     -> [status |-> "started", who |-> handler[h].by]
    [] handler[h].op = "approve" -> [r EXCEPT !.status = "confirmed"]
    [] handler[h].op = "cancel"  -> [r EXCEPT !.status = "expired"]
    [] handler[h].op \in {"poll", "widget", "reset"} -> [r EXCEPT !.status = "used"]

Opens(h) == handler[h].op \in {"confirm", "poll", "widget", "reset"}
Hands(h) == handler[h].op \in {"handout", "poll", "widget"}
One(yes) == IF yes THEN 1 ELSE 0

Finish(h) ==
  LET c == handler[h].c IN
  /\ handler[h].held
  /\ row' = [row EXCEPT ![c] = Outcome(h)]
  /\ opened' = [opened EXCEPT ![c] = @ + One(Opens(h))]
  /\ handed' = [handed EXCEPT ![c] = @ + One(Hands(h))]
  /\ agreed' = IF handler[h].op = "approve" THEN agreed \cup {<<c, handler[h].by>>} ELSE agreed
  /\ rowLock' = [rowLock EXCEPT ![c] = None]
  /\ handler' = [handler EXCEPT ![h] = Resting]
  /\ UNCHANGED lapsed

(* The handler dies or is refused later on (device limit, a disabled       *)
(* account): nothing of it was committed.                                  *)
Abort(h) ==
  /\ handler[h].op # "none"
  /\ rowLock' = [c \in Codes |-> IF rowLock[c] = h THEN None ELSE rowLock[c]]
  /\ handler' = [handler EXCEPT ![h] = Resting]
  /\ UNCHANGED <<row, lapsed, opened, handed, agreed>>

Lapse(c) ==
  /\ row[c].status # "absent" /\ c \notin lapsed
  /\ lapsed' = lapsed \cup {c}
  /\ UNCHANGED <<row, rowLock, handler, opened, handed, agreed>>

Next ==
  \/ \E c \in Codes : Start(c) \/ Lapse(c)
  \/ \E h \in Handlers :
       \/ Find(h) \/ Finish(h) \/ Abort(h)
       \/ \E p \in People : DropLinks(h, p)
       \/ \E c \in Codes : NewLink(h, c)
       \/ \E c \in Codes, op \in Ops, p \in People \cup {None} : Ask(h, c, op, p)

Spec == Init /\ [][Next]_vars
-----------------------------------------------------------------------------
(* A code is good once: however its handlers overlap, it opens one session *)
(* (or sets one password) and its token leaves the server once, never      *)
(* before that session exists ("so the token can't be replayed",           *)
(* device_pairing.py:67; "handed out once", telegram_bot_login.py:7).      *)
GoodOnce == \A c \in Codes : opened[c] <= 1 /\ handed[c] <= opened[c]

(* "Only the person who tapped Start may approve it"                       *)
(* (telegram_bot_login.py:204): a bot login signs in the one person who    *)
(* confirmed it, although anyone with the link can tap Start and the app   *)
(* polls while they do.                                                    *)
SignedInByConsent ==
  \A c \in Kind("bot") : opened[c] > 0 => {p \in People : <<c, p>> \in agreed} = {row[c].who}

(* The documented claim below does not hold: two requests delete before    *)
(* either inserts.                                                         *)

(* "Drop any outstanding tokens so only the newest link works"             *)
(* (auth.py:402).                                                          *)
OneLinkWorks ==
  \A p \in People : Cardinality({c \in Links(p) : row[c].status = "pending"}) <= 1
=============================================================================
