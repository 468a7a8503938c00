------------------------------ MODULE Checkout ------------------------------
(***************************************************************************)
(* Bakong checkout: payment intents, the KHQR codes issued for them, the   *)
(* buyers who pay those codes, and the requests that turn a payment into a *)
(* receipt (app/billing).  Every request is a database transaction of a    *)
(* few steps: an unlocked read, a call to NBC, a row lock, a commit.  What *)
(* a request writes stays in its own record until it commits.              *)
(*                                                                         *)
(* Postgres runs at READ COMMITTED: a statement sees what is committed     *)
(* when it starts, and a row lock is held until the transaction ends.      *)
(***************************************************************************)
EXTENDS Integers, FiniteSets

CONSTANTS
  Requests,        \* concurrent transactions (web requests, the sweeper)
  Buyers,          \* buyer identities: accounts and guest cookies
  Users,           \* the buyers that have an account, so a row in users
  Movies, Serials, Plans,   \* what can be bought
  Intents,         \* primary keys of payment_intents
  BuyerOf, ItemOf, \* who an intent belongs to and what it is for
  MaxQr,           \* bound: KHQR codes issued for one intent
  Batch,           \* bakong_sweeper_batch_size
  NoRequest, NoIntent

Items  == Movies \cup Serials \cup Plans
Titles == Movies \cup Serials
QrNos  == 1..MaxQr
Status == {"absent", "pending", "succeeded", "superseded"}

ASSUME CheckoutConstants ==
  /\ Users \subseteq Buyers
  /\ Movies \cap Serials = {} /\ Titles \cap Plans = {}
  /\ BuyerOf \in [Intents -> Buyers]
  /\ ItemOf \in [Intents -> Items]
  /\ \A i \in Intents : ItemOf[i] \in Plans => BuyerOf[i] \in Users
  /\ NoRequest \notin Requests /\ NoIntent \notin Intents
  /\ MaxQr \in Nat \ {0} /\ Batch \in Nat \ {0}

VARIABLES
  status,     \* payment_intents.status, "absent" before the row is inserted
  cur, prev,  \* bakong_md5 and bakong_prev_md5, by issue number, 0 for NULL
  stale,      \* intents whose current QR is past bakong_qr_ttl_minutes
  grants,     \* receipts per intent: purchase rows, or extensions of a period
  approvals,  \* payment_approvals.intent_id
  plansOn,    \* some subscription plan is active
  paid,       \* <<intent, qr>> pairs NBC would report paid
  fresh,      \* payments younger than the cached "unpaid" answers
  onTime,     \* history: payments of the QR that was current when paid
  intentLock, \* FOR UPDATE on a payment_intents row
  userLock,   \* FOR UPDATE on a users row
  userShare,  \* KEY SHARE on a users row, taken by foreign key checks
  req         \* what each request is doing, with its uncommitted writes

rows  == <<status, cur, prev, stale, grants, approvals>>
world == <<plansOn, paid, fresh, onTime>>
locks == <<intentLock, userLock, userShare>>
vars  == <<rows, world, locks, req>>

Labels == {"idle", "buyer", "find", "take", "insert", "retry", "reuse", "confirm",
           "regen", "owned", "probe", "ask", "lock", "grant", "sweep", "close",
           "closeOwn", "approve", "commit"}
Ops == {"none", "create", "poll", "play", "admin", "sweep"}

Request == [op: Ops, at: Labels, b: Buyers \cup {NoIntent}, t: Items \cup {NoIntent},
            i: Intents \cup {NoIntent}, own: Intents \cup {NoIntent},
            qrs: SUBSET QrNos, left: SUBSET Intents,
            won: SUBSET Intents, gave: SUBSET Intents]

Idle == [op |-> "none", at |-> "idle", b |-> NoIntent, t |-> NoIntent,
         i |-> NoIntent, own |-> NoIntent, qrs |-> {}, left |-> {},
         won |-> {}, gave |-> {}]

Init ==
  /\ status = [i \in Intents |-> "absent"]
  /\ cur = [i \in Intents |-> 0] /\ prev = [i \in Intents |-> 0]
  /\ stale = {} /\ grants = [i \in Intents |-> 0] /\ approvals = {}
  /\ plansOn = TRUE
  /\ paid = {} /\ fresh = {} /\ onTime = {}
  /\ intentLock = [i \in Intents |-> NoRequest]
  /\ userLock = [b \in Buyers |-> NoRequest]
  /\ userShare = [b \in Buyers |-> {}]
  /\ req = [r \in Requests |-> Idle]

-----------------------------------------------------------------------------
(* Reading the tables, and what NBC answers.                               *)

Of(b, t)   == {i \in Intents : BuyerOf[i] = b /\ ItemOf[i] = t}
Pending(b, t) == {i \in Of(b, t) : status[i] = "pending"}
Absent(b, t)  == {i \in Of(b, t) : status[i] = "absent"}
Owned(b, t) == t \in Titles /\ \E i \in Of(b, t) : grants[i] > 0
OwnedBy(i)  == Owned(BuyerOf[i], ItemOf[i])

\* Mutants: a NULL code taken for a code; the previous code never probed.
TrackedWithNull(i) == {cur[i], prev[i]}
TrackedCurrent(i)  == {cur[i]} \cap QrNos

Tracked(i)  == {cur[i], prev[i]} \cap QrNos

(* "Paid" is only ever answered for a paid code.  "Unpaid" can be a cached *)
(* answer a few seconds old.  No answer (quota, error) is always possible, *)
(* so is the caller's not-paid branch.                                     *)
\* Mutant: an answer NBC did not give counts as "paid".
AnswersPaidOrUnknown(i, qs) == qs # {}

AnswersPaid(i, qs)   == \E n \in qs : <<i, n>> \in paid
AnswersUnpaid(i, qs) == \A n \in qs : <<i, n>> \notin paid \ fresh

-----------------------------------------------------------------------------
(* Row locks and the end of a transaction.                                 *)

At(r, l) == req[r].at = l
Goto(r, l) == req' = [req EXCEPT ![r].at = l]

Free(i, r) == intentLock[i] \in {NoRequest, r}
LockIntent(i, r) == intentLock' = [intentLock EXCEPT ![i] = r]
CanLockUser(b, r)  == userLock[b] \in {NoRequest, r} /\ userShare[b] \subseteq {r}
CanShareUser(b, r) == userLock[b] \in {NoRequest, r}

Release(r) ==
  /\ intentLock' = [i \in Intents |-> IF intentLock[i] = r THEN NoRequest ELSE intentLock[i]]
  /\ userLock' = [b \in Buyers |-> IF userLock[b] = r THEN NoRequest ELSE userLock[b]]
  /\ userShare' = [b \in Buyers |-> userShare[b] \ {r}]

(* The transaction ends without having written: a response, an exception,  *)
(* or a rollback that throws its writes away.                              *)
End(r) == Release(r) /\ req' = [req EXCEPT ![r] = Idle] /\ UNCHANGED <<rows, world>>

Succeed(r) == [i \in Intents |-> IF i \in req[r].won THEN "succeeded" ELSE status[i]]
Grant(r)   == [i \in Intents |-> grants[i] + (IF i \in req[r].gave THEN 1 ELSE 0)]

-----------------------------------------------------------------------------
(* POST .../bakong-intent: create or reuse the pending intent of an item.  *)

(* An owned title is refused before any lock is taken; a subscription      *)
(* needs an active plan.  (The series refusal for subscribers depends on   *)
(* the time left, so either outcome is possible: the refusal is a stutter.)*)
StartCreate(r, b, t) ==
  /\ At(r, "idle") /\ Of(b, t) # {}
  /\ ~Owned(b, t)
  /\ t \in Plans => plansOn
  /\ req' = [req EXCEPT ![r] = [Idle EXCEPT
       !.op = "create", !.b = b, !.t = t, !.at = IF b \in Users THEN "buyer" ELSE "find"]]
  /\ UNCHANGED <<rows, world, locks>>

LockBuyer(r) ==
  /\ At(r, "buyer") /\ CanLockUser(req[r].b, r)
  /\ userLock' = [userLock EXCEPT ![req[r].b] = r]
  /\ Goto(r, "find")
  /\ UNCHANGED <<rows, world, intentLock, userShare>>

(* The pending lookup is FOR UPDATE: its snapshot picks the row, ...       *)
FindPending(r) ==
  /\ At(r, "find")
  /\ \/ /\ Pending(req[r].b, req[r].t) = {}
        /\ Goto(r, "insert")
     \/ \E i \in Pending(req[r].b, req[r].t) :
          req' = [req EXCEPT ![r].i = i, ![r].at = "take"]
  /\ UNCHANGED <<rows, world, locks>>

(* ... and once it holds the lock it looks at the row again: one that was  *)
(* resolved meanwhile drops out of the result, though it stays locked.     *)
TakePending(r) ==
  LET i == req[r].i IN
  /\ At(r, "take") /\ Free(i, r)
  /\ LockIntent(i, r)
  /\ IF status[i] = "pending"
       THEN req' = [req EXCEPT ![r].at = "reuse", ![r].qrs = Tracked(i)]
       ELSE req' = [req EXCEPT ![r].at = "insert", ![r].i = NoIntent]
  /\ UNCHANGED <<rows, world, userLock, userShare>>

(* Bound: once every key of Intents is used the request gives up, as it    *)
(* does when no KHQR can be generated.                                     *)
InsertIntent(r) ==
  /\ At(r, "insert") /\ Pending(req[r].b, req[r].t) = {}
  /\ \/ /\ Absent(req[r].b, req[r].t) = {}
        /\ End(r)
     \/ /\ \E i \in Absent(req[r].b, req[r].t) :
             /\ status' = [status EXCEPT ![i] = "pending"]
             /\ cur' = [cur EXCEPT ![i] = 1]
        /\ Release(r) /\ req' = [req EXCEPT ![r] = Idle]
        /\ UNCHANGED <<prev, stale, grants, approvals, world>>

(* uq_pending_bakong_*: the insert fails, the transaction is rolled back,  *)
(* and the lookup runs again, this time without a lock.                    *)
InsertConflict(r) ==
  /\ At(r, "insert") /\ Pending(req[r].b, req[r].t) # {}
  /\ Release(r) /\ Goto(r, "retry")
  /\ UNCHANGED <<rows, world>>

RetryLookup(r) ==
  /\ At(r, "retry")
  /\ \/ /\ Pending(req[r].b, req[r].t) = {}
        /\ End(r)
     \/ /\ \E i \in Pending(req[r].b, req[r].t) :
             req' = [req EXCEPT ![r].i = i, ![r].at = "reuse", ![r].qrs = Tracked(i)]
        /\ UNCHANGED <<rows, world, locks>>

(* A fresh QR is handed out again, a stale one is settled, closed or       *)
(* replaced.                                                               *)
ReusePending(r) ==
  LET i == req[r].i IN
  /\ At(r, "reuse")
  /\ \/ /\ i \notin stale /\ ~OwnedBy(i)
        /\ End(r)
     \/ /\ i \in stale /\ AnswersPaid(i, req[r].qrs)
        /\ Goto(r, "lock") /\ UNCHANGED <<rows, world, locks>>
     \/ /\ OwnedBy(i)
        /\ Goto(r, "close") /\ UNCHANGED <<rows, world, locks>>
     \/ /\ i \in stale /\ ~OwnedBy(i)
        /\ Goto(r, "confirm") /\ UNCHANGED <<rows, world, locks>>

(* The codes are probed again: only a confirmed "unpaid" for each of them  *)
(* lets the request ask for a new one.                                     *)
ConfirmWaits(r) ==   \* Mutant: asks again until the answer is "unpaid".
  /\ At(r, "confirm") /\ AnswersUnpaid(req[r].i, req[r].qrs)
  /\ Goto(r, "regen") /\ UNCHANGED <<rows, world, locks>>

ConfirmUnpaid(r) ==
  LET i == req[r].i IN
  /\ At(r, "confirm")
  /\ \/ End(r)
     \/ /\ AnswersUnpaid(i, req[r].qrs)
        /\ Goto(r, "regen") /\ UNCHANGED <<rows, world, locks>>

(* Bound: after MaxQr codes the request gives up, as when no KHQR can be   *)
(* generated.                                                              *)
RegenerateForgets(r) ==   \* Mutant: bakong_prev_md5 is not written.
  LET i == req[r].i IN
  /\ At(r, "regen") /\ Free(i, r) /\ cur[i] < MaxQr
  /\ cur' = [cur EXCEPT ![i] = cur[i] + 1]
  /\ stale' = stale \ {i}
  /\ Release(r) /\ req' = [req EXCEPT ![r] = Idle]
  /\ UNCHANGED <<status, prev, grants, approvals, world>>

Regenerate(r) ==
  LET i == req[r].i IN
  /\ At(r, "regen") /\ Free(i, r)
  /\ \/ /\ cur[i] >= MaxQr /\ End(r)
     \/ /\ cur[i] < MaxQr
        /\ prev' = [prev EXCEPT ![i] = cur[i]]
        /\ cur' = [cur EXCEPT ![i] = cur[i] + 1]
        /\ stale' = stale \ {i}
        /\ Release(r) /\ req' = [req EXCEPT ![r] = Idle]
        /\ UNCHANGED <<status, grants, approvals, world>>

(* mark_succeeded_if_already_purchased: the row object was loaded earlier  *)
(* and is written without another look at its status.                      *)
CloseOwned(r) ==
  LET i == req[r].i IN
  /\ At(r, "close") /\ Free(i, r)
  /\ status' = [status EXCEPT ![i] = "superseded"]
  /\ Release(r) /\ req' = [req EXCEPT ![r] = Idle]
  /\ UNCHANGED <<cur, prev, stale, grants, approvals, world>>

-----------------------------------------------------------------------------
(* GET /payments/intents/{id}: the open checkout polls its intent.         *)

StartPoll(r, i) ==
  /\ At(r, "idle") /\ status[i] = "pending"
  /\ req' = [req EXCEPT ![r] = [Idle EXCEPT
       !.op = "poll", !.at = "owned", !.i = i, !.own = i, !.qrs = Tracked(i)]]
  /\ UNCHANGED <<rows, world, locks>>

PollCloses(r) ==   \* Mutant: the answer of the ownership query is not looked at.
  /\ At(r, "owned")
  /\ \E l \in {"close", "probe"} : Goto(r, l)
  /\ UNCHANGED <<rows, world, locks>>

PollOwned(r) ==
  /\ At(r, "owned")
  /\ Goto(r, IF OwnedBy(req[r].i) THEN "close" ELSE "probe")
  /\ UNCHANGED <<rows, world, locks>>

(* A poll of a movie whose own code is not paid tries another pending      *)
(* intent of the same buyer and movie.                                     *)
PollProbe(r) ==
  LET i == req[r].i
      siblings == Pending(BuyerOf[i], ItemOf[i]) \ {i} IN
  /\ At(r, "probe")
  /\ \/ End(r)
     \/ /\ AnswersPaid(i, req[r].qrs)
        /\ Goto(r, "lock") /\ UNCHANGED <<rows, world, locks>>
     \/ /\ ItemOf[i] \in Movies
        /\ \E j \in siblings :
             req' = [req EXCEPT ![r].i = j, ![r].qrs = Tracked(j), ![r].at = "ask"]
        /\ UNCHANGED <<rows, world, locks>>

(* GET /playback/{id}/authorize: a buyer without access gets one try to    *)
(* settle a pending intent of the movie.                                   *)
StartPlay(r, i) ==
  /\ At(r, "idle") /\ ItemOf[i] \in Movies /\ status[i] = "pending" /\ ~OwnedBy(i)
  /\ req' = [req EXCEPT ![r] = [Idle EXCEPT
       !.op = "play", !.at = "ask", !.i = i, !.qrs = Tracked(i)]]
  /\ UNCHANGED <<rows, world, locks>>

AskBank(r) ==
  /\ At(r, "ask")
  /\ \/ End(r)
     \/ /\ AnswersPaid(req[r].i, req[r].qrs)
        /\ Goto(r, "lock") /\ UNCHANGED <<rows, world, locks>>

(* POST /admin/payments/{id}/fulfill: an operator saw the bank receipt.    *)
StartAdmin(r, i) ==
  /\ At(r, "idle") /\ status[i] = "pending"
  /\ req' = [req EXCEPT ![r] = [Idle EXCEPT !.op = "admin", !.at = "lock", !.i = i]]
  /\ UNCHANGED <<rows, world, locks>>

-----------------------------------------------------------------------------
(* fulfill_payment_intent, run inside the caller's transaction.            *)

(* Where the caller goes on once the intent in its hands is fulfilled.     *)
After(r) ==
  CASE req[r].op = "sweep" -> "sweep"
    [] req[r].op = "admin" -> "approve"
    [] req[r].op = "poll" /\ req[r].i # req[r].own -> "closeOwn"
    [] OTHER -> "commit"

(* The row is locked and loaded again; a succeeded one is left alone.      *)
FulfillUnlocked(r) ==   \* Mutant: the row is loaded again, but not locked.
  /\ At(r, "lock")
  /\ IF status[req[r].i] = "succeeded"
       THEN Goto(r, After(r))
       ELSE req' = [req EXCEPT ![r].won = @ \cup {req[r].i}, ![r].at = "grant"]
  /\ UNCHANGED <<rows, world, locks>>

FulfillPending(r) ==   \* Mutant: anything but a pending row is left alone.
  LET i == req[r].i IN
  /\ At(r, "lock") /\ Free(i, r)
  /\ LockIntent(i, r)
  /\ IF status[i] # "pending"
       THEN Goto(r, After(r))
       ELSE req' = [req EXCEPT ![r].won = @ \cup {i}, ![r].at = "grant"]
  /\ UNCHANGED <<rows, world, userLock, userShare>>

FulfillLock(r) ==
  LET i == req[r].i IN
  /\ At(r, "lock") /\ Free(i, r)
  /\ LockIntent(i, r)
  /\ IF status[i] = "succeeded"
       THEN Goto(r, After(r))
       ELSE req' = [req EXCEPT ![r].won = @ \cup {i}, ![r].at = "grant"]
  /\ UNCHANGED <<rows, world, userLock, userShare>>

(* An intent that already has its receipt gets no second one.              *)
GrantOwned(r) ==   \* Mutant: a buyer who has the title gets no second receipt.
  /\ At(r, "grant") /\ OwnedBy(req[r].i)
  /\ Goto(r, After(r))
  /\ UNCHANGED <<rows, world, locks>>

GrantExisting(r) ==
  /\ At(r, "grant") /\ grants[req[r].i] > 0
  /\ Goto(r, After(r))
  /\ UNCHANGED <<rows, world, locks>>

GiveReceipt(r) == req' = [req EXCEPT ![r].gave = @ \cup {req[r].i}, ![r].at = After(r)]

(* The purchase row's foreign key shares the lock on the buyer's account.  *)
GrantTitle(r) ==
  LET i == req[r].i IN
  /\ At(r, "grant") /\ grants[i] = 0 /\ ItemOf[i] \in Titles
  /\ IF BuyerOf[i] \in Users
       THEN /\ CanShareUser(BuyerOf[i], r)
            /\ userShare' = [userShare EXCEPT ![BuyerOf[i]] = @ \cup {r}]
       ELSE UNCHANGED userShare
  /\ GiveReceipt(r)
  /\ UNCHANGED <<rows, world, intentLock, userLock>>

(* A subscription is extended under the lock on the account.               *)
GrantPeriod(r) ==
  LET i == req[r].i IN
  /\ At(r, "grant") /\ grants[i] = 0 /\ ItemOf[i] \in Plans
  /\ CanLockUser(BuyerOf[i], r) /\ plansOn
  /\ userLock' = [userLock EXCEPT ![BuyerOf[i]] = r]
  /\ GiveReceipt(r)
  /\ UNCHANGED <<rows, world, intentLock, userShare>>

(* No active plan: the exception ends a web request.  The sweeper logs it  *)
(* and goes on, the status it already wrote still in its transaction.      *)
GrantFails(r) ==
  LET i == req[r].i IN
  /\ At(r, "grant") /\ grants[i] = 0 /\ ItemOf[i] \in Plans
  /\ CanLockUser(BuyerOf[i], r) /\ ~plansOn
  /\ IF req[r].op = "sweep"
       THEN /\ userLock' = [userLock EXCEPT ![BuyerOf[i]] = r]
            /\ Goto(r, "sweep")
            /\ UNCHANGED <<rows, world, intentLock, userShare>>
       ELSE End(r)

-----------------------------------------------------------------------------
(* Commits.                                                                *)

CommitReceipts(r) ==   \* Mutant: the new status is not flushed.
  /\ grants' = Grant(r) /\ UNCHANGED status
  /\ Release(r) /\ req' = [req EXCEPT ![r] = Idle]

CommitWrites(r) ==
  /\ status' = Succeed(r)
  /\ grants' = Grant(r)
  /\ Release(r) /\ req' = [req EXCEPT ![r] = Idle]

Commit(r) ==
  /\ At(r, "commit")
  /\ CommitWrites(r)
  /\ UNCHANGED <<cur, prev, stale, approvals, world>>

(* The poll of an intent whose sibling was the paid one closes its own.    *)
CommitSibling(r) ==
  LET own == req[r].own IN
  /\ At(r, "closeOwn") /\ Free(own, r)
  /\ status' = [Succeed(r) EXCEPT ![own] = "superseded"]
  /\ grants' = Grant(r)
  /\ Release(r) /\ req' = [req EXCEPT ![r] = Idle]
  /\ UNCHANGED <<cur, prev, stale, approvals, world>>

(* One approval per intent: a second one fails and is rolled back.         *)
CommitApproval(r) ==
  LET i == req[r].i IN
  /\ At(r, "approve")
  /\ \/ /\ i \in approvals /\ End(r)
     \/ /\ i \notin approvals
        /\ approvals' = approvals \cup {i}
        /\ CommitWrites(r)
        /\ UNCHANGED <<cur, prev, stale, world>>

-----------------------------------------------------------------------------
(* sweep_pending_bakong_intents: a small batch in one transaction.         *)

StartSweep(r, B) ==
  /\ At(r, "idle") /\ B # {} /\ Cardinality(B) <= Batch
  /\ \A i \in B : status[i] = "pending" /\ intentLock[i] = NoRequest
  /\ intentLock' = [i \in Intents |-> IF i \in B THEN r ELSE intentLock[i]]
  /\ req' = [req EXCEPT ![r] = [Idle EXCEPT !.op = "sweep", !.at = "sweep", !.left = B]]
  /\ UNCHANGED <<rows, world, userLock, userShare>>

SweepNext(r) ==
  /\ At(r, "sweep")
  /\ \E i \in req[r].left :
       \/ req' = [req EXCEPT ![r].left = @ \ {i}]
       \/ /\ AnswersPaid(i, Tracked(i))
          /\ req' = [req EXCEPT ![r].left = @ \ {i}, ![r].i = i, ![r].at = "lock"]
  /\ UNCHANGED <<rows, world, locks>>

(* The batch is done, or NBC gave no answer.  Intents whose fulfilment     *)
(* raised do not count as settled.                                         *)
Settled(r) == {i \in req[r].won : i \in req[r].gave \/ grants[i] > 0}

SweepEnd(r) ==
  /\ At(r, "sweep")
  /\ \/ /\ Settled(r) # {}
        /\ CommitWrites(r)
        /\ UNCHANGED <<cur, prev, stale, approvals, world>>
     \/ /\ Settled(r) = {} /\ End(r)

-----------------------------------------------------------------------------
(* Failures, and the world outside.                                        *)

(* A request dies: an error, a lost connection, a killed worker.           *)
Abort(r) == ~At(r, "idle") /\ End(r)

(* What a request is waiting for, if anything.                             *)
Blockers(r) ==
  LET i == req[r].i IN
  ( CASE req[r].at = "buyer" -> {userLock[req[r].b]} \cup userShare[req[r].b]
      [] req[r].at \in {"take", "lock", "regen", "close"} -> {intentLock[i]}
      [] req[r].at = "closeOwn" -> {intentLock[req[r].own]}
      [] req[r].at = "grant" /\ grants[i] = 0 /\ BuyerOf[i] \in Users ->
           {userLock[BuyerOf[i]]} \cup
             (IF ItemOf[i] \in Plans THEN userShare[BuyerOf[i]] ELSE {})
      [] OTHER -> {} ) \ {NoRequest, r}

(* Requests that wait for each other in a circle.                          *)
Deadlocked(r) ==
  \E S \in SUBSET Requests :
    r \in S /\ \A q \in S : /\ Blockers(q) \cap S # {}
                            /\ \E o \in S : q \in Blockers(o)

(* Postgres' deadlock detector picks a victim.                             *)
DeadlockAbort(r) == Deadlocked(r) /\ End(r)

(* A KHQR stays payable for a day, so after its intent was resolved too.   *)
Pay(i, n) ==
  /\ n <= cur[i] /\ <<i, n>> \notin paid
  /\ paid' = paid \cup {<<i, n>>} /\ fresh' = fresh \cup {<<i, n>>}
  /\ onTime' = IF n = cur[i] THEN onTime \cup {<<i, n>>} ELSE onTime
  /\ UNCHANGED <<rows, plansOn, locks, req>>

(* The cached "unpaid" answers run out.                                    *)
CacheExpires ==
  /\ fresh # {} /\ fresh' = {}
  /\ UNCHANGED <<rows, plansOn, paid, onTime, locks, req>>

(* Ten minutes pass: longer than the cached answers live, and longer than  *)
(* a request takes from its first lookup, which did not see this intent,   *)
(* to its second one, which does.                                          *)
QrExpires(i) ==
  /\ status[i] = "pending" /\ i \notin stale
  /\ \A n \in QrNos : <<i, n>> \notin fresh
  /\ \A r \in Requests :
       req[r].op = "create" /\ req[r].b = BuyerOf[i] /\ req[r].t = ItemOf[i]
         => /\ req[r].at \notin {"insert", "retry"} /\ (At(r, "take") => req[r].i = i)
            /\ At(r, "reuse") => intentLock[i] = r
  /\ stale' = stale \cup {i}
  /\ UNCHANGED <<status, cur, prev, grants, approvals, world, locks, req>>

(* An admin switches the last active plan off, or one back on.             *)
TogglePlans ==
  /\ Plans # {} /\ plansOn' = ~plansOn
  /\ UNCHANGED <<rows, paid, fresh, onTime, locks, req>>

-----------------------------------------------------------------------------
Start(r) ==
  \/ \E b \in Buyers, t \in Items : StartCreate(r, b, t)
  \/ \E i \in Intents : StartPoll(r, i) \/ StartPlay(r, i) \/ StartAdmin(r, i)
  \/ \E B \in SUBSET Intents : StartSweep(r, B)

Step(r) ==
  \/ LockBuyer(r) \/ FindPending(r) \/ TakePending(r)
  \/ InsertIntent(r) \/ InsertConflict(r) \/ RetryLookup(r)
  \/ ReusePending(r) \/ ConfirmUnpaid(r) \/ Regenerate(r) \/ CloseOwned(r)
  \/ PollOwned(r) \/ PollProbe(r) \/ AskBank(r)
  \/ FulfillLock(r) \/ GrantExisting(r) \/ GrantTitle(r) \/ GrantPeriod(r) \/ GrantFails(r)
  \/ Commit(r) \/ CommitSibling(r) \/ CommitApproval(r)
  \/ SweepNext(r) \/ SweepEnd(r)

Outside ==
  \/ \E i \in Intents : QrExpires(i) \/ \E n \in QrNos : Pay(i, n)
  \/ CacheExpires \/ TogglePlans

Next ==
  \/ \E r \in Requests : Start(r) \/ Step(r) \/ Abort(r) \/ DeadlockAbort(r)
  \/ Outside

Spec == Init /\ [][Next]_vars
-----------------------------------------------------------------------------
(* Correctness.                                                            *)

PaidIntent(i) == \E n \in QrNos : <<i, n>> \in paid
Resolved(i)   == status[i] \in {"succeeded", "superseded"}

(* Type invariant of the tables, the locks and the request records.        *)
TypeOK ==
  /\ status \in [Intents -> Status]
  /\ cur \in [Intents -> 0..MaxQr] /\ prev \in [Intents -> 0..MaxQr]
  /\ stale \subseteq Intents /\ grants \in [Intents -> Nat] /\ approvals \subseteq Intents
  /\ plansOn \in BOOLEAN
  /\ paid \subseteq Intents \X QrNos /\ fresh \subseteq paid /\ onTime \subseteq paid
  /\ intentLock \in [Intents -> Requests \cup {NoRequest}]
  /\ userLock \in [Buyers -> Requests \cup {NoRequest}]
  /\ userShare \in [Buyers -> SUBSET Requests]
  /\ req \in [Requests -> Request]

(* No receipt without money: whoever fulfils an intent, and however the    *)
(* polls, the sweeper, playback and the operators overlap, its purchase or *)
(* period exists only if NBC has one of its codes paid or an approval row  *)
(* was committed with it (settle_bakong_intent_if_paid, admin fulfil).     *)
GrantBacked == \A i \in Intents : grants[i] > 0 => PaidIntent(i) \/ i \in approvals

(* One payment, one receipt: "concurrent fulfillers cannot double-grant"   *)
(* (app/billing/fulfillment.py:3).  For a plan a second grant would extend *)
(* the period twice: ON CONFLICT only spares the payment row.              *)
GrantOnce == \A i \in Intents : grants[i] <= 1

(* A title marked succeeded has been delivered: status and receipt are     *)
(* committed together, whichever request dies in between.                  *)
SucceededDelivered ==
  \A i \in Intents : status[i] = "succeeded" /\ ItemOf[i] \in Titles => grants[i] > 0

(* Closing a checkout as superseded never leaves the buyer without the     *)
(* title, although the row is written from a stale copy.                   *)
SupersededOwned ==
  \A i \in Intents : status[i] = "superseded" =>
    \E j \in Of(BuyerOf[i], ItemOf[i]) : grants[j] > 0

(* An intent with a receipt is never offered for payment again.            *)
DeliveredIsClosed == \A i \in Intents : grants[i] > 0 => Resolved(i)

(* An approval row always stands beside a receipt, also when NBC settled   *)
(* the intent while the operator's request waited for the row lock.        *)
ApprovalDelivered ==
  \A i \in Intents : i \in approvals /\ ItemOf[i] \in Titles => grants[i] > 0

(* A code paid while it was the current one is still probed for as long as *)
(* the intent is pending, even if it was replaced between the last "unpaid"*)
(* answer and the commit of the new code (regenerate_bakong_qr).           *)
PaidCodeKept ==
  \A i \in Intents, n \in QrNos :
    <<i, n>> \in onTime /\ status[i] = "pending" => n \in Tracked(i)

-----------------------------------------------------------------------------
(* The inductive strengthening of GrantBacked and GrantOnce.               *)

WithIntent == {"take", "reuse", "confirm", "regen", "close", "owned", "probe", "ask",
               "lock", "grant", "approve"}
Writing    == {"lock", "grant", "sweep", "closeOwn", "approve", "commit"}

(* What a request has not committed yet: each intent it marked is locked,  *)
(* a receipt it holds is the first of its intent, and was asked for with a *)
(* paid code in hand or is about to be committed with its approval.        *)
Draft(r) ==
  /\ req[r].at \in WithIntent => req[r].i \in Intents
  /\ req[r].at \notin Writing => req[r].won = {}
  /\ req[r].op = "admin" => req[r].at \in {"lock", "grant", "approve"}
  /\ req[r].at = "grant" => req[r].i \in req[r].won
  /\ req[r].at \in {"lock", "grant"} =>
       IF req[r].op = "admin" THEN req[r].gave = {} ELSE PaidIntent(req[r].i)
  /\ req[r].gave \subseteq req[r].won
  /\ \A i \in req[r].won : intentLock[i] = r
  /\ \A i \in req[r].gave :
       /\ grants[i] = 0
       /\ PaidIntent(i) \/ (req[r].at = "approve" /\ i = req[r].i)

(* Each receipt is single and backed, committed or not: what no step can   *)
(* break, the drafts of all requests taken together.                       *)
IInv == TypeOK /\ GrantOnce /\ GrantBacked /\ \A r \in Requests : Draft(r)

(* The documented claims below do not hold; the README tells what happens. *)

(* "Access already granted via another receipt" (app/billing/ownership.py: *)
(* 18): a superseded intent has no receipt of its own.                     *)
SupersededHasNoReceipt == \A i \in Intents : status[i] = "superseded" => grants[i] = 0

(* "Mark intent succeeded and create purchase/subscription side effects"   *)
(* (fulfillment.py:95): a plan intent marked succeeded extended a period.  *)
SucceededPlanExtended ==
  \A i \in Intents : status[i] = "succeeded" /\ ItemOf[i] \in Plans => grants[i] > 0

-----------------------------------------------------------------------------
(* Checkout implements Receipts: money is a paid code or an approval.      *)

Due == {i \in Intents : PaidIntent(i)} \cup approvals

Ledger == INSTANCE Receipts WITH due <- Due, receipts <- grants

(* Every run of the requests is a run of the ledger: at most one receipt   *)
(* per intent, issued at or after its payment, never taken back.           *)
ImplementsReceipts == Ledger!Spec

-----------------------------------------------------------------------------
(* Liveness.  Postgres queues lock waiters and aborts one request of a     *)
(* deadlock; every handler runs on while its worker lives.                 *)

Running ==
  \A r \in Requests : SF_vars(Step(r)) /\ WF_vars(DeadlockAbort(r))

(* The buyer keeps the checkout page open, NBC is not silent for ever, and *)
(* there is a last deadlock.                                               *)
PaidAnswer(i) ==
  \E r \in Requests :
    req[r].i = i /\ req[r].at = "probe" /\ PollProbe(r) /\ req'[r].at = "lock"

KeepsPolling ==
  /\ \A i \in Intents : SF_vars(\E r \in Requests : StartPoll(r, i)) /\ SF_vars(PaidAnswer(i))
  /\ <>[][\A r \in Requests : ~DeadlockAbort(r)]_vars

(* No request dies except as the victim of a deadlock.                     *)
CalmNext ==
  \/ \E r \in Requests : Start(r) \/ Step(r) \/ DeadlockAbort(r)
  \/ Outside

CalmSpec == Init /\ [][CalmNext]_vars /\ Running

(* No request waits for ever, although checkout locks account then intent  *)
(* and fulfilment locks intent then account.                               *)
RequestEnds == \A r \in Requests : req[r].at # "idle" ~> req[r].at = "idle"

(* A payment of a code the intent remembers settles the intent, or the     *)
(* intent forgets the code, if the buyer keeps polling.                    *)
PaidSettles ==
  KeepsPolling =>
    \A i \in Intents :
      LET Waiting == status[i] = "pending" /\ \E n \in {cur[i], prev[i]} : <<i, n>> \in paid
      IN  Waiting ~> ~Waiting
=============================================================================
