--------------------------- MODULE CheckoutProofs ---------------------------
(***************************************************************************)
(* What Checkout guarantees for every set of buyers, intents and requests: *)
(* its types, that a receipt is backed by money or an approval, that there *)
(* is at most one per intent, that it implements Receipts; and what a buyer*)
(* gets: a title paid for or approved is delivered, a checkout is closed   *)
(* only when it is, and a code paid in time is not forgotten while its     *)
(* intent is pending.                                                      *)
(***************************************************************************)
EXTENDS Checkout, TLAPS

USE CheckoutConstants

(* The request r, and no other, moves on; what it has not committed stays. *)
Moved(r) ==
  /\ req' \in [Requests -> Request] /\ \A s \in Requests \ {r} : req'[s] = req[s]
  /\ req'[r].won = req[r].won /\ req'[r].gave = req[r].gave
  /\ req'[r].at \notin {"idle", "grant"}
  /\ req'[r].at \notin Writing => req'[r].won = {}
  /\ req'[r].at \in WithIntent => req'[r].i \in Intents
  /\ req'[r].op = "admin" => req'[r].at \in {"lock", "grant", "approve"}
  /\ req'[r].at = "lock" =>
       IF req'[r].op = "admin" THEN req'[r].gave = {} ELSE PaidIntent(req'[r].i)
  /\ \A i \in req'[r].gave : PaidIntent(i) \/ (req'[r].at = "approve" /\ i = req'[r].i)

(* Locks only ever go from free to the request that steps.                 *)
LocksOf(r) ==
  /\ intentLock' \in [Intents -> Requests \cup {NoRequest}]
  /\ userLock' \in [Buyers -> Requests \cup {NoRequest}]
  /\ userShare' \in [Buyers -> SUBSET Requests]
  /\ \A i \in Intents : intentLock[i] \in Requests \ {r} => intentLock'[i] = intentLock[i]
  /\ \A i \in Intents : intentLock[i] = r => intentLock'[i] = r

LEMMA InitInv == Init => IInv
<1> SUFFICES ASSUME Init PROVE IInv OBVIOUS
<1>1. Idle \in Request BY DEF Idle, Request, Labels, Ops
<1>2. TypeOK BY <1>1 DEF Init, TypeOK, Status
<1>3. GrantOnce /\ GrantBacked BY DEF Init, GrantOnce, GrantBacked
<1>4. \A r \in Requests : Draft(r)
  BY DEF Init, Draft, Idle, WithIntent, Writing
<1> QED BY <1>2, <1>3, <1>4 DEF IInv

(* A request that does not move keeps its draft if its locks stay and no   *)
(* other writes the receipts it is about to write.                         *)
LEMMA DraftSame ==
  ASSUME NEW s \in Requests, Draft(s), req'[s] = req[s], paid' = paid,
         \A i \in req[s].won : intentLock'[i] = s,
         \A i \in req[s].gave : grants'[i] = grants[i]
  PROVE  Draft(s)'
<1>2. ASSUME NEW i PROVE PaidIntent(i)' <=> PaidIntent(i) BY DEF PaidIntent
<1>3. (req[s].at \in WithIntent => req[s].i \in Intents)' BY DEF Draft
<1>4. (req[s].at \notin Writing => req[s].won = {})' BY DEF Draft
<1>5. (req[s].op = "admin" => req[s].at \in {"lock", "grant", "approve"})'
  BY DEF Draft
<1>6. (req[s].at = "grant" => req[s].i \in req[s].won)' BY DEF Draft
<1>7. (req[s].at \in {"lock", "grant"} =>
         IF req[s].op = "admin" THEN req[s].gave = {} ELSE PaidIntent(req[s].i))'
  <2>1. PaidIntent(req[s].i)' <=> PaidIntent(req[s].i) BY DEF PaidIntent
  <2> QED BY <2>1 DEF Draft
<1>8. (req[s].gave \subseteq req[s].won)' BY DEF Draft
<1>9. (\A i \in req[s].won : intentLock[i] = s)' OBVIOUS
<1>10. ASSUME NEW i \in req'[s].gave
       PROVE  /\ grants'[i] = 0
              /\ PaidIntent(i)' \/ (req'[s].at = "approve" /\ i = req'[s].i)
  BY <1>2 DEF Draft
<1> QED BY <1>3, <1>4, <1>5, <1>6, <1>7, <1>8, <1>9, <1>10 DEF Draft

(* A step that writes no table and keeps the request's drafts.             *)
LEMMA MoveInv ==
  ASSUME IInv, NEW r \in Requests, Moved(r), LocksOf(r), UNCHANGED <<rows, world>>
  PROVE  IInv'
<1>1. TypeOK'
  BY DEF IInv, TypeOK, Moved, LocksOf, rows, world
<1>2. GrantOnce' /\ GrantBacked'
  BY DEF IInv, GrantOnce, GrantBacked, PaidIntent, rows, world
<1>3. ASSUME NEW s \in Requests PROVE Draft(s)'
  <2>0. grants' = grants /\ paid' = paid /\ req[s] \in Request /\ Draft(s)
    BY DEF IInv, TypeOK, rows, world
  <2>1. CASE s = r
    <3>1. req'[s].won = req[s].won /\ req'[s].gave = req[s].gave BY <2>1 DEF Moved
    <3>2. \A i \in req'[s].won : intentLock'[i] = s
      BY <2>0, <2>1, <3>1 DEF Draft, LocksOf, Request
    <3>3. req'[s].gave \subseteq req'[s].won /\ \A i \in req'[s].gave : grants'[i] = 0
      BY <2>0, <3>1 DEF Draft
    <3>4. \A i \in req'[s].gave : PaidIntent(i)' \/ (req'[s].at = "approve" /\ i = req'[s].i)
      BY <2>0, <2>1 DEF Moved, PaidIntent
    <3> QED BY <2>0, <2>1, <3>2, <3>3, <3>4 DEF Draft, Moved, PaidIntent
  <2>2. CASE s # r
    <3>1. req'[s] = req[s] BY <2>2 DEF Moved
    <3>2. \A i \in req[s].won : intentLock'[i] = s
      BY <2>0, <2>2 DEF Draft, LocksOf, Request
    <3> QED BY <2>0, <3>1, <3>2, DraftSame
  <2> QED BY <2>1, <2>2
<1> QED BY <1>1, <1>2, <1>3 DEF IInv

(* Releasing the locks of r leaves those of the others alone.              *)
LEMMA ReleaseOthers ==
  ASSUME IInv, NEW r \in Requests, Release(r)
  PROVE  /\ intentLock' \in [Intents -> Requests \cup {NoRequest}]
         /\ userLock' \in [Buyers -> Requests \cup {NoRequest}]
         /\ userShare' \in [Buyers -> SUBSET Requests]
         /\ \A i \in Intents : intentLock[i] # r => intentLock'[i] = intentLock[i]
  BY DEF IInv, TypeOK, Release

(* The end of the transaction of r: the drafts of the others stand as long *)
(* as their intents keep their grants.                                     *)
LEMMA OthersKeep ==
  ASSUME IInv, NEW r \in Requests, Release(r), req' = [req EXCEPT ![r] = Idle],
         UNCHANGED paid,
         \A i \in Intents : intentLock[i] # r => grants'[i] = grants[i]
  PROVE  req' \in [Requests -> Request] /\ \A s \in Requests : Draft(s)'
<1>0. Idle \in Request BY DEF Idle, Request, Labels, Ops
<1>1. req' \in [Requests -> Request] BY <1>0 DEF IInv, TypeOK
<1>2. ASSUME NEW s \in Requests PROVE Draft(s)'
  <2>1. CASE s = r
    <3>1. req'[s] = Idle BY <2>1 DEF IInv, TypeOK
    <3> QED BY <3>1 DEF Idle, Draft, WithIntent, Writing
  <2>2. CASE s # r
    <3>1. req'[s] = req[s] /\ req[s] \in Request BY <2>2 DEF IInv, TypeOK
    <3>2. Draft(s) /\ req[s].won \subseteq Intents /\ req[s].gave \subseteq Intents
      BY <3>1 DEF IInv, Request
    <3>3. \A i \in req[s].won : intentLock'[i] = s
      BY <2>2, <3>2, ReleaseOthers DEF Draft
    <3>4. \A i \in req[s].gave : grants'[i] = grants[i]
      BY <2>2, <3>2 DEF Draft
    <3> QED BY <2>2, <3>1, <3>2, <3>3, <3>4, DraftSame
  <2> QED BY <2>1, <2>2
<1> QED BY <1>1, <1>2

LEMMA EndInv ==
  ASSUME IInv, NEW r \in Requests, End(r)
  PROVE  IInv'
<1>1. req' \in [Requests -> Request] /\ \A s \in Requests : Draft(s)'
  BY OthersKeep DEF End, rows, world
<1>2. TypeOK'
  BY <1>1, ReleaseOthers DEF IInv, TypeOK, End, rows, world
<1>3. GrantOnce' /\ GrantBacked'
  BY DEF IInv, GrantOnce, GrantBacked, PaidIntent, End, rows, world
<1> QED BY <1>1, <1>2, <1>3 DEF IInv

(* A commit turns the drafts of r into rows.                               *)
LEMMA CommitInv ==
  ASSUME IInv, NEW r \in Requests, Release(r), req' = [req EXCEPT ![r] = Idle],
         grants' = Grant(r), status' \in [Intents -> Status],
         UNCHANGED <<cur, prev, stale, world>>,
         approvals \subseteq approvals', approvals' \subseteq Intents,
         \A i \in req[r].gave : PaidIntent(i) \/ i \in approvals'
  PROVE  IInv'
<1>0. req[r] \in Request /\ Draft(r) /\ TypeOK BY DEF IInv, TypeOK
<1>1. \A i \in Intents : intentLock[i] # r => grants'[i] = grants[i]
  BY <1>0 DEF Grant, Draft, TypeOK
<1>2. req' \in [Requests -> Request] /\ \A s \in Requests : Draft(s)'
  BY <1>1, OthersKeep DEF world
<1>3. grants' \in [Intents -> Nat]
  BY <1>0 DEF Grant, TypeOK
<1>4. TypeOK'
  BY <1>0, <1>2, <1>3, ReleaseOthers DEF TypeOK, world
<1>5. GrantOnce'
  BY <1>0 DEF IInv, GrantOnce, Grant, Draft, TypeOK
<1>6. GrantBacked'
  <2> SUFFICES ASSUME NEW i \in Intents, grants'[i] > 0
               PROVE  PaidIntent(i)' \/ i \in approvals'
    BY DEF GrantBacked
  <2>1. PaidIntent(i)' <=> PaidIntent(i) BY DEF PaidIntent, world
  <2>2. CASE i \in req[r].gave BY <2>1, <2>2
  <2>3. CASE i \notin req[r].gave
    <3>1. grants[i] > 0 BY <1>0, <2>3 DEF Grant, TypeOK
    <3> QED BY <2>1, <3>1 DEF IInv, GrantBacked
  <2> QED BY <2>2, <2>3
<1> QED BY <1>2, <1>4, <1>5, <1>6 DEF IInv

-----------------------------------------------------------------------------
(* A move to another label, nothing else of the record changing.           *)
LEMMA GotoMoved ==
  ASSUME IInv, NEW r \in Requests, NEW l \in Labels \ {"idle", "grant", "lock"}, Goto(r, l),
         l \in WithIntent => req[r].i \in Intents, req[r].at # "approve",
         req[r].op = "admin" => l = "approve",
         l \in Writing \/ req[r].at \notin Writing
  PROVE  Moved(r)
<1>1. req \in [Requests -> Request] /\ Draft(r) BY DEF IInv, TypeOK
<1>l. l \in Labels OBVIOUS
<1>2. /\ req' \in [Requests -> Request] /\ \A s \in Requests \ {r} : req'[s] = req[s]
      /\ req'[r].won = req[r].won /\ req'[r].gave = req[r].gave
      /\ req'[r].at = l /\ req'[r].i = req[r].i /\ req'[r].op = req[r].op
  BY <1>1, <1>l DEF Goto, Request, Labels, Ops
<1>3. \A i \in req[r].gave : PaidIntent(i) BY <1>1 DEF Draft
<1>4. req[r].at \notin Writing => req[r].won = {} BY <1>1 DEF Draft
<1> QED BY <1>2, <1>3, <1>4 DEF Moved

(* The same move to "lock", with a paid code in hand.                      *)
LEMMA GotoLock ==
  ASSUME IInv, NEW r \in Requests, req[r].i \in Intents, req[r].at # "approve",
         req[r].op # "admin", NEW qs \in SUBSET QrNos, AnswersPaid(req[r].i, qs),
         Goto(r, "lock")
  PROVE  Moved(r)
<1>1. req \in [Requests -> Request] /\ Draft(r) BY DEF IInv, TypeOK
<1>2. PaidIntent(req[r].i) BY DEF AnswersPaid, PaidIntent
<1>3. /\ req' \in [Requests -> Request] /\ \A s \in Requests \ {r} : req'[s] = req[s]
      /\ req'[r].won = req[r].won /\ req'[r].gave = req[r].gave
      /\ req'[r].at = "lock" /\ req'[r].i = req[r].i /\ req'[r].op = req[r].op
  BY <1>1 DEF Goto, Request, Labels, Ops
<1>4. \A i \in req[r].gave : PaidIntent(i) BY <1>1 DEF Draft
<1>5. "lock" \in Writing BY DEF Writing
<1> QED BY <1>2, <1>3, <1>4, <1>5 DEF Moved

(* Locking an intent that is free, or nothing at all.                      *)
LEMMA LockOne ==
  ASSUME IInv, NEW r \in Requests, NEW i, Free(i, r), LockIntent(i, r),
         UNCHANGED <<userLock, userShare>>
  PROVE  LocksOf(r)
  BY DEF IInv, TypeOK, LocksOf, Free, LockIntent

LEMMA LockNone ==
  ASSUME IInv, NEW r \in Requests, UNCHANGED locks
  PROVE  LocksOf(r)
  BY DEF IInv, TypeOK, LocksOf, locks

-----------------------------------------------------------------------------
(* The requests' first steps.                                              *)
LEMMA StartInv ==
  ASSUME IInv, NEW r \in Requests, Start(r)
  PROVE  IInv'
<1>0. req \in [Requests -> Request] /\ Draft(r) BY DEF IInv, TypeOK
<1>t. \A i \in Intents : Tracked(i) \in SUBSET QrNos BY DEF Tracked
<1>i. ASSUME At(r, "idle") PROVE req[r].won = {} /\ req[r].gave = {}
  BY <1>0, <1>i DEF Draft, At, Request, Writing
<1>1. ASSUME NEW b \in Buyers, NEW t \in Items, StartCreate(r, b, t) PROVE IInv'
  <2>1. Moved(r)
    BY <1>0, <1>1, <1>i DEF StartCreate, Moved, Idle, Request, Labels, Ops, WithIntent
  <2>2. LocksOf(r) BY <1>1, LockNone DEF StartCreate
  <2> QED BY <1>1, <2>1, <2>2, MoveInv DEF StartCreate
<1>2. ASSUME NEW i \in Intents, StartPoll(r, i) PROVE IInv'
  <2>1. Moved(r)
    BY <1>0, <1>2, <1>t, <1>i DEF StartPoll, Moved, Idle, Request, Labels, Ops
  <2>2. LocksOf(r) BY <1>2, LockNone DEF StartPoll
  <2> QED BY <1>2, <2>1, <2>2, MoveInv DEF StartPoll
<1>3. ASSUME NEW i \in Intents, StartPlay(r, i) PROVE IInv'
  <2>1. Moved(r)
    BY <1>0, <1>3, <1>t, <1>i DEF StartPlay, Moved, Idle, Request, Labels, Ops
  <2>2. LocksOf(r) BY <1>3, LockNone DEF StartPlay
  <2> QED BY <1>3, <2>1, <2>2, MoveInv DEF StartPlay
<1>4. ASSUME NEW i \in Intents, StartAdmin(r, i) PROVE IInv'
  <2>1. Moved(r)
    BY <1>0, <1>4, <1>i DEF StartAdmin, Moved, Idle, Request, Labels, Ops
  <2>2. LocksOf(r) BY <1>4, LockNone DEF StartAdmin
  <2> QED BY <1>4, <2>1, <2>2, MoveInv DEF StartAdmin
<1>5. ASSUME NEW B \in SUBSET Intents, StartSweep(r, B) PROVE IInv'
  <2>1. Moved(r)
    BY <1>0, <1>5, <1>i DEF StartSweep, Moved, Idle, Request, Labels, Ops, WithIntent
  <2>2. LocksOf(r)
    BY <1>5 DEF StartSweep, IInv, TypeOK, LocksOf
  <2> QED BY <1>5, <2>1, <2>2, MoveInv DEF StartSweep
<1> QED BY <1>1, <1>2, <1>3, <1>4, <1>5 DEF Start

-----------------------------------------------------------------------------
(* What holds of a request between two steps: it is typed, its intent is   *)
(* one, and an operator's request has no business outside fulfilment.      *)
LEMMA Here ==
  ASSUME IInv, NEW r \in Requests
  PROVE  /\ req \in [Requests -> Request] /\ req[r] \in Request /\ Draft(r)
         /\ \A l : At(r, l) /\ l \notin {"lock", "grant", "approve"} =>
              /\ req[r].op # "admin" /\ req[r].at # "approve"
              /\ l \in WithIntent => req[r].i \in Intents
              /\ req[r].at = l
  BY DEF IInv, TypeOK, Draft, At

(* Request r goes to a label, its writes and the other requests untouched. *)
Stepped(r, l) ==
  /\ req' \in [Requests -> Request] /\ \A s \in Requests \ {r} : req'[s] = req[s]
  /\ req'[r].won = req[r].won /\ req'[r].gave = req[r].gave /\ req'[r].op = req[r].op
  /\ req'[r].at = l

(* A move that changes more of the record than its label.                  *)
LEMMA Moves ==
  ASSUME IInv, NEW r \in Requests, NEW l \in Labels \ {"idle", "grant", "approve"},
         Stepped(r, l), req[r].op # "admin", req[r].at # "approve",
         l \in WithIntent => req'[r].i \in Intents,
         l = "lock" => PaidIntent(req'[r].i),
         l \in Writing \/ req[r].at \notin Writing
  PROVE  Moved(r)
<1>1. \A i \in req[r].gave : PaidIntent(i) BY Here DEF Draft
<1>2. req[r].at \notin Writing => req[r].won = {} BY Here DEF Draft
<1> QED BY <1>1, <1>2 DEF Moved, Stepped

(* The create request up to its insert.                                    *)
LEMMA FindInv ==
  ASSUME IInv, NEW r \in Requests,
         LockBuyer(r) \/ FindPending(r) \/ TakePending(r) \/ RetryLookup(r)
  PROVE  IInv'
<1>0. /\ req \in [Requests -> Request] /\ req[r] \in Request /\ Draft(r) BY Here
<1>t. \A i \in Intents : Tracked(i) \in SUBSET QrNos BY DEF Tracked
<1>p. \A b, t : Pending(b, t) \subseteq Intents BY DEF Pending, Of
<1>a. req[r].at \notin Writing /\ req[r].op # "admin" /\ req[r].at # "approve"
  BY Here DEF LockBuyer, FindPending, TakePending, RetryLookup, At, Writing
<1>1. CASE LockBuyer(r)
  <2>1. Moved(r)
    BY <1>1, <1>a, GotoMoved DEF LockBuyer, Labels, WithIntent
  <2>2. LocksOf(r) BY <1>1, <1>0 DEF LockBuyer, LocksOf, IInv, TypeOK
  <2> QED BY <1>1, <2>1, <2>2, MoveInv DEF LockBuyer
<1>2. CASE FindPending(r)
  <2>1. CASE Goto(r, "insert")
    BY <1>2, <1>a, <2>1, GotoMoved, LockNone, MoveInv DEF FindPending, Labels, WithIntent
  <2>2. ASSUME NEW i \in Pending(req[r].b, req[r].t),
               req' = [req EXCEPT ![r].i = i, ![r].at = "take"]
        PROVE  IInv'
    <3>0. i \in Intents BY <1>p, <2>2
    <3>1. Stepped(r, "take") /\ req'[r].i = i
      BY <1>0, <2>2, <3>0 DEF Stepped, Request, Labels, Ops
    <3>2. Moved(r) BY <1>a, <3>0, <3>1, Moves DEF Labels
    <3> QED BY <1>2, <3>2, LockNone, MoveInv DEF FindPending
  <2> QED BY <1>2, <2>1, <2>2 DEF FindPending
<1>3. CASE TakePending(r)
  <2>0. req[r].i \in Intents
    BY <1>3, Here DEF TakePending, WithIntent
  <2>1. Moved(r)
    <3>1. CASE req' = [req EXCEPT ![r].at = "reuse", ![r].qrs = Tracked(req[r].i)]
      <4>1. Stepped(r, "reuse") /\ req'[r].i = req[r].i
        BY <1>0, <1>t, <2>0, <3>1 DEF Stepped, Request, Labels, Ops
      <4> QED BY <1>a, <2>0, <4>1, Moves DEF Labels
    <3>2. CASE req' = [req EXCEPT ![r].at = "insert", ![r].i = NoIntent]
      <4>1. Stepped(r, "insert")
        BY <1>0, <3>2 DEF Stepped, Request, Labels, Ops
      <4> QED BY <1>a, <2>0, <4>1, Moves DEF Labels, WithIntent
    <3> QED BY <1>3, <3>1, <3>2 DEF TakePending
  <2>2. LocksOf(r) BY <1>3, LockOne DEF TakePending
  <2> QED BY <1>3, <2>1, <2>2, MoveInv DEF TakePending
<1>4. CASE RetryLookup(r)
  <2>1. CASE End(r) BY <2>1, EndInv
  <2>2. ASSUME NEW i \in Pending(req[r].b, req[r].t), UNCHANGED <<rows, world, locks>>,
               req' = [req EXCEPT ![r].i = i, ![r].at = "reuse", ![r].qrs = Tracked(i)]
        PROVE  IInv'
    <3>0. i \in Intents BY <1>p, <2>2
    <3>1. Stepped(r, "reuse") /\ req'[r].i = i
      BY <1>0, <1>t, <2>2, <3>0 DEF Stepped, Request, Labels, Ops
    <3>2. Moved(r) BY <1>a, <3>0, <3>1, Moves DEF Labels
    <3> QED BY <2>2, <3>2, LockNone, MoveInv
  <2> QED BY <1>4, <2>1, <2>2 DEF RetryLookup
<1> QED BY <1>1, <1>2, <1>3, <1>4

(* A transaction that writes the intents' rows, issues nothing, and ends.  *)
LEMMA RowsInv ==
  ASSUME IInv, NEW r \in Requests, Release(r), req' = [req EXCEPT ![r] = Idle],
         status' \in [Intents -> Status], cur' \in [Intents -> 0..MaxQr],
         prev' \in [Intents -> 0..MaxQr], stale' \subseteq Intents,
         UNCHANGED <<grants, approvals, world>>
  PROVE  IInv'
<1>1. req' \in [Requests -> Request] /\ \A s \in Requests : Draft(s)'
  BY OthersKeep DEF world
<1>2. TypeOK' BY <1>1, ReleaseOthers DEF IInv, TypeOK, world
<1>3. GrantOnce' /\ GrantBacked'
  BY DEF IInv, GrantOnce, GrantBacked, PaidIntent, world
<1> QED BY <1>1, <1>2, <1>3 DEF IInv

(* The insert, and the unique index that may refuse it.                    *)
LEMMA InsertInv ==
  ASSUME IInv, NEW r \in Requests, InsertIntent(r) \/ InsertConflict(r)
  PROVE  IInv'
<1>0. /\ req \in [Requests -> Request] /\ req[r] \in Request /\ Draft(r) BY Here
<1>t. TypeOK BY DEF IInv
<1>a. req[r].at \notin Writing /\ req[r].op # "admin" /\ req[r].at # "approve"
  BY Here DEF InsertIntent, InsertConflict, At, Writing
<1>1. CASE InsertIntent(r)
  <2>1. CASE End(r) BY <2>1, EndInv
  <2>2. ASSUME NEW i \in Intents, status' = [status EXCEPT ![i] = "pending"],
               cur' = [cur EXCEPT ![i] = 1], Release(r), req' = [req EXCEPT ![r] = Idle],
               UNCHANGED <<prev, stale, grants, approvals, world>>
        PROVE  IInv'
    <3>1. status' \in [Intents -> Status] BY <1>t, <2>2 DEF TypeOK, Status
    <3>2. cur' \in [Intents -> 0..MaxQr] BY <1>t, <2>2 DEF TypeOK
    <3>3. prev' \in [Intents -> 0..MaxQr] /\ stale' \subseteq Intents
      BY <1>t, <2>2 DEF TypeOK
    <3> QED BY <2>2, <3>1, <3>2, <3>3, RowsInv
  <2> QED BY <1>1, <2>1, <2>2 DEF InsertIntent, Absent, Of
<1>2. CASE InsertConflict(r)
  <2>1. Goto(r, "retry") /\ Release(r) /\ UNCHANGED <<rows, world>> BY <1>2 DEF InsertConflict
  <2>2. Moved(r) BY <1>a, <2>1, GotoMoved DEF Labels, WithIntent
  <2>3. req[r].won = {} /\ req[r].gave = {} BY <1>0, <1>a DEF Draft, Request
  <2>4. TypeOK'
    BY <1>t, <2>1, <2>2, ReleaseOthers DEF TypeOK, Moved, rows, world
  <2>5. GrantOnce' /\ GrantBacked'
    BY <2>1 DEF IInv, GrantOnce, GrantBacked, PaidIntent, rows, world
  <2>6. ASSUME NEW s \in Requests PROVE Draft(s)'
    <3>1. CASE s = r
      <4>1. req'[s].at = "retry" /\ req'[s].won = {} /\ req'[s].gave = {}
            /\ req'[s].op # "admin"
        BY <1>0, <1>a, <2>1, <2>3, <3>1 DEF Goto, Request
      <4> QED BY <4>1 DEF Draft, WithIntent
    <3>2. CASE s # r
      <4>1. req'[s] = req[s] /\ req[s] \in Request /\ Draft(s) BY <1>0, <2>2, <3>2, Here DEF Moved
      <4>2. grants' = grants /\ paid' = paid BY <2>1 DEF rows, world
      <4>3. \A i \in req[s].won : intentLock'[i] = s
        BY <2>1, <3>2, <4>1, ReleaseOthers DEF Draft, Request
      <4> QED BY <4>1, <4>2, <4>3 DEF Draft, PaidIntent
    <3> QED BY <3>1, <3>2
  <2> QED BY <2>4, <2>5, <2>6 DEF IInv
<1> QED BY <1>1, <1>2

(* A pending intent handed out, settled, closed or given a new code.       *)
LEMMA ReuseInv ==
  ASSUME IInv, NEW r \in Requests,
         ReusePending(r) \/ ConfirmUnpaid(r) \/ Regenerate(r) \/ CloseOwned(r)
  PROVE  IInv'
<1>0. req \in [Requests -> Request] /\ req[r] \in Request BY Here
<1>t. TypeOK BY DEF IInv
<1>q. req[r].qrs \in SUBSET QrNos BY <1>0 DEF Request
<1>i. req[r].i \in Intents
  BY Here DEF ReusePending, ConfirmUnpaid, Regenerate, CloseOwned, WithIntent
<1>a. req[r].at \notin Writing /\ req[r].op # "admin" /\ req[r].at # "approve"
  BY Here DEF ReusePending, ConfirmUnpaid, Regenerate, CloseOwned, At, Writing
<1>g. ASSUME NEW l \in {"close", "confirm", "regen"}, Goto(r, l), UNCHANGED <<rows, world, locks>>
      PROVE  IInv'
  <2>1. Moved(r) BY <1>a, <1>g, <1>i, GotoMoved DEF Labels
  <2> QED BY <1>g, <2>1, LockNone, MoveInv
<1>l. ASSUME Goto(r, "lock"), AnswersPaid(req[r].i, req[r].qrs), UNCHANGED <<rows, world, locks>>
      PROVE  IInv'
  <2>1. Moved(r) BY <1>a, <1>i, <1>l, <1>q, GotoLock
  <2> QED BY <1>l, <2>1, LockNone, MoveInv
<1>1. CASE ReusePending(r)
  BY <1>1, <1>g, <1>l, EndInv DEF ReusePending
<1>2. CASE ConfirmUnpaid(r)
  BY <1>2, <1>g, EndInv DEF ConfirmUnpaid
<1>3. CASE Regenerate(r)
  <2> DEFINE i == req[r].i
  <2>1. CASE End(r) BY <2>1, EndInv
  <2>2. ASSUME cur[i] < MaxQr, prev' = [prev EXCEPT ![i] = cur[i]],
               cur' = [cur EXCEPT ![i] = cur[i] + 1], stale' = stale \ {i},
               Release(r), req' = [req EXCEPT ![r] = Idle],
               UNCHANGED <<status, grants, approvals, world>>
        PROVE  IInv'
    <3>1. cur' \in [Intents -> 0..MaxQr] BY <1>i, <1>t, <2>2 DEF TypeOK
    <3>2. prev' \in [Intents -> 0..MaxQr] BY <1>i, <1>t, <2>2 DEF TypeOK
    <3>3. status' \in [Intents -> Status] /\ stale' \subseteq Intents
      BY <1>t, <2>2 DEF TypeOK
    <3> QED BY <2>2, <3>1, <3>2, <3>3, RowsInv
  <2> QED BY <1>3, <2>1, <2>2 DEF Regenerate
<1>4. CASE CloseOwned(r)
  <2>1. status' \in [Intents -> Status] BY <1>4, <1>i, <1>t DEF CloseOwned, TypeOK, Status
  <2>2. /\ cur' \in [Intents -> 0..MaxQr] /\ prev' \in [Intents -> 0..MaxQr]
        /\ stale' \subseteq Intents
    BY <1>4, <1>t DEF CloseOwned, TypeOK
  <2> QED BY <1>4, <2>1, <2>2, RowsInv DEF CloseOwned
<1> QED BY <1>1, <1>2, <1>3, <1>4

(* The open checkout, and playback, ask NBC.                               *)
LEMMA PollInv ==
  ASSUME IInv, NEW r \in Requests, PollOwned(r) \/ PollProbe(r) \/ AskBank(r)
  PROVE  IInv'
<1>0. req \in [Requests -> Request] /\ req[r] \in Request BY Here
<1>q. req[r].qrs \in SUBSET QrNos BY <1>0 DEF Request
<1>t. \A i \in Intents : Tracked(i) \in SUBSET QrNos BY DEF Tracked
<1>i. req[r].i \in Intents BY Here DEF PollOwned, PollProbe, AskBank, WithIntent
<1>a. req[r].at \notin Writing /\ req[r].op # "admin" /\ req[r].at # "approve"
  BY Here DEF PollOwned, PollProbe, AskBank, At, Writing
<1>l. ASSUME Goto(r, "lock"), AnswersPaid(req[r].i, req[r].qrs), UNCHANGED <<rows, world, locks>>
      PROVE  IInv'
  <2>1. Moved(r) BY <1>a, <1>i, <1>l, <1>q, GotoLock
  <2> QED BY <1>l, <2>1, LockNone, MoveInv
<1>1. CASE PollOwned(r)
  <2>1. ASSUME NEW l \in {"close", "probe"}, Goto(r, l) PROVE IInv'
    <3>1. Moved(r) BY <1>a, <1>i, <2>1, GotoMoved DEF Labels
    <3> QED BY <1>1, <3>1, LockNone, MoveInv DEF PollOwned
  <2> QED BY <1>1, <2>1 DEF PollOwned
<1>2. CASE PollProbe(r)
  <2>1. ASSUME NEW j \in Intents, UNCHANGED <<rows, world, locks>>,
               req' = [req EXCEPT ![r].i = j, ![r].qrs = Tracked(j), ![r].at = "ask"]
        PROVE  IInv'
    <3>1. Stepped(r, "ask") /\ req'[r].i = j
      BY <1>0, <1>t, <2>1 DEF Stepped, Request, Labels, Ops
    <3>2. Moved(r) BY <1>a, <3>1, Moves DEF Labels
    <3> QED BY <2>1, <3>2, LockNone, MoveInv
  <2> QED BY <1>2, <1>l, <2>1, EndInv DEF PollProbe, Pending, Of
<1>3. CASE AskBank(r)
  BY <1>3, <1>l, EndInv DEF AskBank
<1> QED BY <1>1, <1>2, <1>3

-----------------------------------------------------------------------------
(* A step inside fulfilment, which adds to the drafts of r.                *)
LEMMA DraftInv ==
  ASSUME IInv, NEW r \in Requests, LocksOf(r), UNCHANGED <<rows, world>>,
         req' \in [Requests -> Request], \A s \in Requests \ {r} : req'[s] = req[s],
         Draft(r)'
  PROVE  IInv'
<1>1. TypeOK' BY DEF IInv, TypeOK, LocksOf, rows, world
<1>2. GrantOnce' /\ GrantBacked'
  BY DEF IInv, GrantOnce, GrantBacked, PaidIntent, rows, world
<1>3. ASSUME NEW s \in Requests, s # r PROVE Draft(s)'
  <2>1. req'[s] = req[s] /\ req[s] \in Request /\ Draft(s) BY <1>3, Here
  <2>2. grants' = grants /\ paid' = paid BY DEF rows, world
  <2>3. \A i \in req[s].won : intentLock'[i] = s
    BY <1>3, <2>1 DEF Draft, LocksOf, Request
  <2> QED BY <2>1, <2>2, <2>3 DEF Draft, PaidIntent
<1> QED BY <1>1, <1>2, <1>3 DEF IInv

(* Fulfilment ends in the sweep's loop, an approval or a commit.           *)
LEMMA AfterLabel ==
  ASSUME NEW r \in Requests
  PROVE  /\ After(r) \in {"sweep", "approve", "closeOwn", "commit"}
         /\ req[r].op = "admin" => After(r) = "approve"
  BY DEF After

(* The row lock, and the mark the request puts on the row.                 *)
LEMMA FulfillLockInv ==
  ASSUME IInv, NEW r \in Requests, FulfillLock(r)
  PROVE  IInv'
<1> DEFINE i == req[r].i
<1>0. /\ req \in [Requests -> Request] /\ req[r] \in Request /\ Draft(r) BY Here
<1>1. i \in Intents /\ req[r].at = "lock" BY <1>0 DEF FulfillLock, At, Draft, WithIntent
<1>2. LocksOf(r) BY LockOne DEF FulfillLock
<1>3. CASE Goto(r, After(r))
  <2>1. Moved(r)
    BY <1>1, <1>3, AfterLabel, GotoMoved DEF Labels, Writing
  <2> QED BY <1>2, <2>1, MoveInv DEF FulfillLock
<1>4. CASE req' = [req EXCEPT ![r].won = @ \cup {i}, ![r].at = "grant"]
  <2>1. /\ req' \in [Requests -> Request] /\ \A s \in Requests \ {r} : req'[s] = req[s]
        /\ req'[r].won = req[r].won \cup {i} /\ req'[r].gave = req[r].gave
        /\ req'[r].op = req[r].op /\ req'[r].i = i /\ req'[r].at = "grant"
    BY <1>0, <1>1, <1>4 DEF Request, Labels, Ops
  <2>2. \A j \in req'[r].won : intentLock'[j] = r
    <3>1. intentLock'[i] = r BY <1>1 DEF FulfillLock, LockIntent, IInv, TypeOK
    <3>2. \A j \in req[r].won : intentLock'[j] = r
      BY <1>0, <1>2 DEF Draft, LocksOf, Request
    <3> QED BY <2>1, <3>1, <3>2
  <2>3. grants' = grants /\ paid' = paid BY DEF FulfillLock, rows, world
  <2>4. \A j \in req[r].gave : grants[j] = 0 /\ PaidIntent(j) BY <1>0, <1>1 DEF Draft
  <2>5. /\ req[r].gave \subseteq req[r].won
        /\ IF req[r].op = "admin" THEN req[r].gave = {} ELSE PaidIntent(i)
    BY <1>0, <1>1 DEF Draft
  <2>6. Draft(r)'
    BY <1>1, <2>1, <2>2, <2>3, <2>4, <2>5 DEF Draft, PaidIntent, Writing
  <2> QED BY <1>2, <2>1, <2>6, DraftInv DEF FulfillLock
<1> QED BY <1>3, <1>4 DEF FulfillLock

(* A receipt joins the drafts of a request that holds the intent's row.    *)
LEMMA GiveInv ==
  ASSUME IInv, NEW r \in Requests, At(r, "grant"), grants[req[r].i] = 0, GiveReceipt(r),
         LocksOf(r), UNCHANGED <<rows, world>>
  PROVE  IInv'
<1> DEFINE i == req[r].i
<1>0. /\ req \in [Requests -> Request] /\ req[r] \in Request /\ Draft(r) BY Here
<1>1. i \in Intents /\ req[r].at = "grant" /\ i \in req[r].won
  BY <1>0 DEF At, Draft, WithIntent
<1>2. After(r) \in Labels BY AfterLabel DEF Labels
<1>3. /\ req' \in [Requests -> Request] /\ \A s \in Requests \ {r} : req'[s] = req[s]
      /\ req'[r].won = req[r].won /\ req'[r].gave = req[r].gave \cup {i}
      /\ req'[r].op = req[r].op /\ req'[r].i = i /\ req'[r].at = After(r)
  <2>1. req[r].gave \cup {i} \in SUBSET Intents BY <1>0, <1>1 DEF Request
  <2>2. req' = [req EXCEPT ![r].gave = req[r].gave \cup {i}, ![r].at = After(r)]
    BY <1>0 DEF GiveReceipt
  <2> QED BY <1>0, <1>2, <2>1, <2>2 DEF Request
<1>4. \A j \in req[r].won : intentLock'[j] = r
  BY <1>0 DEF Draft, LocksOf, Request
<1>5. grants' = grants /\ paid' = paid BY DEF rows, world
<1>6. \A j \in req[r].gave : grants[j] = 0 /\ PaidIntent(j) BY <1>0, <1>1 DEF Draft
<1>7. /\ req[r].gave \subseteq req[r].won
      /\ IF req[r].op = "admin" THEN req[r].gave = {} ELSE PaidIntent(i)
  BY <1>0, <1>1 DEF Draft
<1>8. After(r) \in Writing /\ After(r) \notin {"lock", "grant"} BY AfterLabel DEF Writing
<1>9. \A j \in req'[r].gave : PaidIntent(j) \/ (After(r) = "approve" /\ j = i)
  BY <1>3, <1>6, <1>7, AfterLabel
<1>10. Draft(r)'
  BY <1>1, <1>3, <1>4, <1>5, <1>6, <1>7, <1>8, <1>9, AfterLabel DEF Draft, PaidIntent
<1> QED BY <1>3, <1>10, DraftInv

(* The side effects of fulfilment, under the lock on the intent.           *)
LEMMA GrantInv ==
  ASSUME IInv, NEW r \in Requests,
         GrantExisting(r) \/ GrantTitle(r) \/ GrantPeriod(r) \/ GrantFails(r)
  PROVE  IInv'
<1>0. /\ req \in [Requests -> Request] /\ req[r] \in Request /\ Draft(r) BY Here
<1>1. req[r].i \in Intents /\ req[r].at = "grant"
  BY <1>0 DEF GrantExisting, GrantTitle, GrantPeriod, GrantFails, At, Draft, WithIntent
<1>2. CASE GrantExisting(r)
  <2>1. Moved(r)
    BY <1>1, <1>2, AfterLabel, GotoMoved DEF GrantExisting, Labels, Writing
  <2> QED BY <1>2, <2>1, LockNone, MoveInv DEF GrantExisting
<1>3. CASE GrantTitle(r)
  <2>1. LocksOf(r) BY <1>3 DEF GrantTitle, LocksOf, IInv, TypeOK
  <2> QED BY <1>3, <2>1, GiveInv DEF GrantTitle
<1>4. CASE GrantPeriod(r)
  <2>1. LocksOf(r) BY <1>4 DEF GrantPeriod, LocksOf, IInv, TypeOK
  <2> QED BY <1>4, <2>1, GiveInv DEF GrantPeriod
<1>5. CASE GrantFails(r)
  <2>1. CASE End(r) BY <2>1, EndInv
  <2>2. CASE req[r].op = "sweep"
    <3>1. LocksOf(r) BY <1>5, <2>2 DEF GrantFails, LocksOf, IInv, TypeOK
    <3>2. Moved(r)
      BY <1>1, <1>5, <2>2, GotoMoved DEF GrantFails, Labels, Writing, WithIntent
    <3> QED BY <1>5, <2>2, <3>1, <3>2, MoveInv DEF GrantFails
  <2> QED BY <1>5, <2>1, <2>2 DEF GrantFails
<1> QED BY <1>2, <1>3, <1>4, <1>5

-----------------------------------------------------------------------------
(* The commits: what the request held in its hands becomes rows.           *)
LEMMA CommitsInv ==
  ASSUME IInv, NEW r \in Requests,
         Commit(r) \/ CommitSibling(r) \/ CommitApproval(r) \/ SweepEnd(r)
  PROVE  IInv'
<1>0. /\ req[r] \in Request /\ Draft(r) BY Here
<1>t. TypeOK BY DEF IInv
<1>s. Succeed(r) \in [Intents -> Status] BY <1>t DEF Succeed, TypeOK, Status
<1>g. req[r].at # "approve" => \A i \in req[r].gave : PaidIntent(i) BY <1>0 DEF Draft
<1>1. CASE Commit(r)
  BY <1>0, <1>1, <1>s, <1>g, <1>t, CommitInv DEF Commit, CommitWrites, At, TypeOK
<1>2. CASE CommitSibling(r)
  <2>1. status' \in [Intents -> Status]
    <3> HIDE DEF Status
    <3>1. "superseded" \in Status BY DEF Status
    <3> QED BY <1>2, <1>s, <3>1 DEF CommitSibling
  <2> QED BY <1>0, <1>2, <1>g, <1>t, <2>1, CommitInv DEF CommitSibling, At, TypeOK
<1>3. CASE CommitApproval(r)
  <2>1. CASE End(r) BY <2>1, EndInv
  <2>2. CASE CommitWrites(r) /\ approvals' = approvals \cup {req[r].i}
             /\ UNCHANGED <<cur, prev, stale, world>>
    <3>1. \A i \in req[r].gave : PaidIntent(i) \/ i \in approvals'
      BY <1>0, <1>3, <2>2 DEF Draft, CommitApproval, At
    <3>2. approvals \subseteq approvals' /\ approvals' \subseteq Intents
      BY <1>0, <1>3, <1>t, <2>2 DEF Draft, CommitApproval, At, TypeOK, WithIntent
    <3>3. status' \in [Intents -> Status] BY <1>s, <2>2 DEF CommitWrites
    <3> QED BY <2>2, <3>1, <3>2, <3>3, CommitInv DEF CommitWrites
  <2> QED BY <1>3, <2>1, <2>2 DEF CommitApproval
<1>4. CASE SweepEnd(r)
  <2>1. CASE End(r) BY <2>1, EndInv
  <2>2. CASE CommitWrites(r) /\ UNCHANGED <<cur, prev, stale, approvals, world>>
    BY <1>0, <1>4, <1>s, <1>g, <1>t, <2>2, CommitInv
      DEF SweepEnd, CommitWrites, At, TypeOK
  <2> QED BY <1>4, <2>1, <2>2 DEF SweepEnd
<1> QED BY <1>1, <1>2, <1>3, <1>4

(* The sweeper's loop over its batch.                                      *)
LEMMA SweepInv ==
  ASSUME IInv, NEW r \in Requests, SweepNext(r)
  PROVE  IInv'
<1>0. /\ req \in [Requests -> Request] /\ req[r] \in Request BY Here
<1>1. req[r].op # "admin" /\ req[r].at = "sweep" BY Here DEF SweepNext
<1>t. \A i \in Intents : Tracked(i) \in SUBSET QrNos BY DEF Tracked
<1>2. PICK i \in req[r].left :
        \/ req' = [req EXCEPT ![r].left = @ \ {i}]
        \/ /\ AnswersPaid(i, Tracked(i))
           /\ req' = [req EXCEPT ![r].left = @ \ {i}, ![r].i = i, ![r].at = "lock"]
  BY DEF SweepNext
<1>3. i \in Intents /\ req[r].left \ {i} \in SUBSET Intents BY <1>0 DEF Request
<1>4. Moved(r)
  <2>1. CASE req' = [req EXCEPT ![r].left = @ \ {i}]
    <3>1. Stepped(r, "sweep") BY <1>0, <1>1, <1>3, <2>1 DEF Stepped, Request
    <3> QED BY <1>1, <3>1, Moves DEF Labels, Writing, WithIntent
  <2>2. CASE /\ AnswersPaid(i, Tracked(i))
             /\ req' = [req EXCEPT ![r].left = @ \ {i}, ![r].i = i, ![r].at = "lock"]
    <3>1. Stepped(r, "lock") /\ req'[r].i = i
      BY <1>0, <1>3, <2>2 DEF Stepped, Request, Labels
    <3>2. PaidIntent(i) BY <1>3, <1>t, <2>2 DEF AnswersPaid, PaidIntent
    <3> QED BY <1>1, <1>3, <3>1, <3>2, Moves DEF Labels, Writing
  <2> QED BY <1>2, <2>1, <2>2
<1> QED BY <1>4, LockNone, MoveInv DEF SweepNext

(* Buyers pay, caches and codes run out, plans come and go: no receipt     *)
(* loses its backing.                                                      *)
LEMMA OutsideInv ==
  ASSUME IInv, Outside
  PROVE  IInv'
<1>t. TypeOK BY DEF IInv
<1>1. UNCHANGED <<status, cur, prev, grants, approvals, locks, req>> /\ paid \subseteq paid'
  BY DEF Outside, QrExpires, Pay, CacheExpires, TogglePlans, rows, world
<1>2. TypeOK'
  <2>1. ASSUME NEW i \in Intents, NEW n \in QrNos, Pay(i, n) PROVE TypeOK'
    BY <1>t, <2>1 DEF Pay, TypeOK, rows, locks
  <2>2. ASSUME NEW i \in Intents, QrExpires(i) PROVE TypeOK'
    BY <1>t, <2>2 DEF QrExpires, TypeOK, world, locks
  <2>3. CASE CacheExpires BY <1>t, <2>3 DEF CacheExpires, TypeOK, rows, locks
  <2>4. CASE TogglePlans BY <1>t, <2>4 DEF TogglePlans, TypeOK, rows, locks
  <2> QED BY <2>1, <2>2, <2>3, <2>4 DEF Outside
<1>3. \A i \in Intents : PaidIntent(i) => PaidIntent(i)' BY <1>1 DEF PaidIntent
<1>4. GrantOnce' /\ GrantBacked' BY <1>1, <1>3 DEF IInv, GrantOnce, GrantBacked
<1>5. ASSUME NEW s \in Requests PROVE Draft(s)'
  <2>1. req[s] \in Request /\ Draft(s) BY Here
  <2>2. req[s].gave \subseteq Intents BY <2>1 DEF Request
  <2>3. req'[s] = req[s] /\ intentLock' = intentLock /\ grants' = grants
    BY <1>1 DEF locks
  <2>4. req[s].at \in {"lock", "grant"} => req[s].i \in Intents BY <2>1 DEF Draft, WithIntent
  <2> QED BY <1>3, <2>1, <2>2, <2>3, <2>4 DEF Draft
<1> QED BY <1>2, <1>4, <1>5 DEF IInv

(* Nothing changes when no action is taken.                                *)
LEMMA StutterInv == IInv /\ UNCHANGED vars => IInv'
<1> SUFFICES ASSUME IInv, UNCHANGED vars PROVE IInv' OBVIOUS
<1>1. TypeOK' BY DEF vars, rows, world, locks, IInv, TypeOK
<1>2. GrantOnce' /\ GrantBacked'
  BY DEF vars, rows, world, IInv, GrantOnce, GrantBacked, PaidIntent
<1>3. \A r \in Requests : Draft(r)'
  BY DEF vars, rows, world, locks, IInv, Draft, PaidIntent
<1> QED BY <1>1, <1>2, <1>3 DEF IInv

(* IInv is inductive.                                                      *)
LEMMA NextInv == IInv /\ [Next]_vars => IInv'
<1> SUFFICES ASSUME IInv, Next PROVE IInv'
  BY StutterInv
<1>1. ASSUME NEW r \in Requests, Start(r) PROVE IInv' BY <1>1, StartInv
<1>2. ASSUME NEW r \in Requests, Step(r) PROVE IInv'
  BY <1>2, FindInv, InsertInv, ReuseInv, PollInv, FulfillLockInv, GrantInv, CommitsInv,
     SweepInv DEF Step
<1>3. ASSUME NEW r \in Requests, Abort(r) \/ DeadlockAbort(r) PROVE IInv'
  BY <1>3, EndInv DEF Abort, DeadlockAbort
<1> QED BY <1>1, <1>2, <1>3, OutsideInv DEF Next

-----------------------------------------------------------------------------
(* Whatever the requests, the invariant holds.                             *)
THEOREM Invariance == Spec => []IInv
<1>1. Init => IInv BY InitInv
<1>2. IInv /\ [Next]_vars => IInv' BY NextInv
<1> QED BY <1>1, <1>2, PTL DEF Spec

(* Every table, lock and request record keeps its type.                    *)
THEOREM TypeCorrect == Spec => []TypeOK
<1>1. IInv => TypeOK BY DEF IInv
<1> QED BY <1>1, Invariance, PTL

(* No receipt without a paid code or an approval (GrantBacked), for any    *)
(* number of concurrent polls, sweeps, playbacks and operators.            *)
THEOREM ReceiptsBacked == Spec => []GrantBacked
<1>1. IInv => GrantBacked BY DEF IInv
<1> QED BY <1>1, Invariance, PTL

(* No intent is fulfilled twice (GrantOnce): fulfillment.py's row lock is  *)
(* enough, also for plans, whose period no unique index protects.          *)
THEOREM OneReceipt == Spec => []GrantOnce
<1>1. IInv => GrantOnce BY DEF IInv
<1> QED BY <1>1, Invariance, PTL

-----------------------------------------------------------------------------
(* Only the end of a transaction writes grants, and money never leaves.    *)
LEMMA Effects ==
  ASSUME IInv, [Next]_vars
  PROVE  /\ grants' = grants \/ \E r \in Requests : grants' = Grant(r)
         /\ paid \subseteq paid' /\ approvals \subseteq approvals'
<1>1. ASSUME NEW r \in Requests, End(r)
      PROVE  grants' = grants /\ paid' = paid /\ approvals' = approvals
  BY <1>1 DEF End, rows, world
<1>2. ASSUME NEW r \in Requests, Start(r)
      PROVE  grants' = grants /\ paid' = paid /\ approvals' = approvals
  BY <1>2 DEF Start, StartCreate, StartPoll, StartPlay, StartAdmin, StartSweep, rows, world
<1>3. ASSUME NEW r \in Requests,
             \/ LockBuyer(r) \/ FindPending(r) \/ TakePending(r) \/ InsertIntent(r)
             \/ InsertConflict(r) \/ RetryLookup(r) \/ ReusePending(r) \/ ConfirmUnpaid(r)
             \/ Regenerate(r) \/ CloseOwned(r) \/ PollOwned(r) \/ PollProbe(r) \/ AskBank(r)
      PROVE  grants' = grants /\ paid' = paid /\ approvals' = approvals
  BY <1>1, <1>3 DEF LockBuyer, FindPending, TakePending, InsertIntent, InsertConflict,
     RetryLookup, ReusePending, ConfirmUnpaid, Regenerate, CloseOwned, PollOwned, PollProbe,
     AskBank, rows, world
<1>4. ASSUME NEW r \in Requests,
             \/ FulfillLock(r) \/ GrantExisting(r) \/ GrantTitle(r) \/ GrantPeriod(r)
             \/ GrantFails(r) \/ SweepNext(r)
      PROVE  grants' = grants /\ paid' = paid /\ approvals' = approvals
  BY <1>1, <1>4 DEF FulfillLock, GrantExisting, GrantTitle, GrantPeriod, GrantFails,
     SweepNext, rows, world
<1>5. ASSUME NEW r \in Requests,
             Commit(r) \/ CommitSibling(r) \/ CommitApproval(r) \/ SweepEnd(r)
      PROVE  /\ grants' = grants \/ grants' = Grant(r)
             /\ paid' = paid /\ approvals \subseteq approvals'
  BY <1>1, <1>5 DEF Commit, CommitSibling, CommitApproval, SweepEnd, CommitWrites, rows, world
<1>6. ASSUME NEW r \in Requests, Abort(r) \/ DeadlockAbort(r)
      PROVE  grants' = grants /\ paid' = paid /\ approvals' = approvals
  BY <1>1, <1>6 DEF Abort, DeadlockAbort
<1>7. ASSUME Outside PROVE grants' = grants /\ paid \subseteq paid' /\ approvals' = approvals
  BY <1>7 DEF Outside, QrExpires, Pay, CacheExpires, TogglePlans, rows, world
<1>8. ASSUME UNCHANGED vars PROVE grants' = grants /\ paid' = paid /\ approvals' = approvals
  BY <1>8 DEF vars, rows, world
<1>9. ASSUME NEW r \in Requests, Step(r)
      PROVE  /\ grants' = grants \/ grants' = Grant(r)
             /\ paid \subseteq paid' /\ approvals \subseteq approvals'
  BY <1>3, <1>4, <1>5, <1>9 DEF Step
<1> QED BY <1>2, <1>6, <1>7, <1>8, <1>9 DEF Next

(* A step of Checkout is a step of the ledger.                             *)
LEMMA LedgerStep ==
  ASSUME IInv, IInv', [Next]_vars
  PROVE  [Ledger!Next]_<<Due, grants>>
<1> DEFINE S == {i \in Intents : grants'[i] # grants[i]}
<1>t. grants \in [Intents -> Nat] /\ grants' \in [Intents -> Nat] BY DEF IInv, TypeOK
<1>1. Due' \in SUBSET Intents
  BY DEF IInv, TypeOK, Due
<1>2. Due' = Due \cup Due' BY Effects DEF Due, PaidIntent
<1>3. CASE grants' = grants
  <2>1. Ledger!Collect(Due') BY <1>2, <1>3 DEF Ledger!Collect
  <2> QED BY <1>1, <2>1 DEF Ledger!Next
<1>4. ASSUME NEW r \in Requests, grants' = Grant(r) PROVE Ledger!Next
  <2>1. req[r] \in Request /\ Draft(r) BY Here
  <2>2. S = req[r].gave BY <1>t, <1>4, <2>1 DEF Grant, Request
  <2>3. \A i \in S : grants[i] = 0 /\ grants'[i] = 1
    BY <1>t, <1>4, <2>1, <2>2 DEF Draft, Grant, Request
  <2>4. S \subseteq Due'
    BY <2>3 DEF IInv, GrantBacked, Due
  <2>5. grants' = [i \in Intents |-> IF i \in S THEN 1 ELSE grants[i]]
    BY <1>t, <2>3
  <2>6. Ledger!Issue(Due', S)
    <3> HIDE DEF S
    <3> QED BY <1>2, <2>3, <2>4, <2>5 DEF Ledger!Issue
  <2> QED BY <1>1, <2>6 DEF Ledger!Next
<1> QED BY <1>3, <1>4, Effects

(* The requests, for any number of them, implement the ledger of Receipts: *)
(* one receipt per intent, at or after its money, never taken back.        *)
THEOREM Implementation == Spec => ImplementsReceipts
<1>1. Init => Ledger!Init
  BY DEF Init, Ledger!Init, Due, PaidIntent
<1>2. IInv /\ IInv' /\ [Next]_vars => [Ledger!Next]_<<Due, grants>> BY LedgerStep
<1> QED BY <1>1, <1>2, Invariance, PTL DEF Spec, ImplementsReceipts, Ledger!Spec
-----------------------------------------------------------------------------
(* What a buyer gets.                                                      *)

HIDE CheckoutConstants

(* Intent i has its receipt, in the table or among the writes of r.        *)
Has(r, i) == i \in req[r].gave \/ grants[i] > 0

Choosing == {"buyer", "find", "take", "insert", "retry", "reuse", "confirm", "regen"}

(* What a request must not forget before it commits: a title it marked has *)
(* its receipt, unless that is the very step it is at; an operator's       *)
(* approval, and the sibling for which a poll closes its own intent, have  *)
(* theirs; the intent it closes as owned is owned.  Only a purchase that is *)
(* being created looks for an intent to reuse; only a sweep sweeps.        *)
Promise(r) ==
  LET i == req[r].i
      own == req[r].own IN
  /\ \A j \in req[r].won :
       ItemOf[j] \in Titles => Has(r, j) \/ (req[r].at = "grant" /\ j = i)
  /\ req[r].at \in {"approve", "closeOwn"} => (ItemOf[i] \in Titles => Has(r, i))
  /\ req[r].at = "close" => OwnedBy(i)
  /\ req[r].op = "poll" =>
       /\ own \in Intents /\ i \in Of(BuyerOf[own], ItemOf[own])
       /\ i = own \/ ItemOf[i] \in Movies
  /\ req[r].at = "closeOwn" => req[r].op = "poll" /\ i # own
  /\ req[r].at \in Choosing => req[r].op = "create"
  /\ req[r].at = "sweep" => req[r].op = "sweep"

(* The inductive strengthening of what the tables say about delivery.      *)
Delivery ==
  /\ SucceededDelivered /\ SupersededOwned /\ ApprovalDelivered /\ DeliveredIsClosed
  /\ \A r \in Requests : Promise(r)

LEMMA InitDelivery == Init => Delivery
  BY DEF Init, Delivery, SucceededDelivered, SupersededOwned, ApprovalDelivered,
     DeliveredIsClosed, Promise, Idle, Choosing

(* A request that does not move keeps its promise as long as no receipt is *)
(* taken back.                                                             *)
LEMMA PromiseSame ==
  ASSUME IInv, NEW s \in Requests, Promise(s), req'[s] = req[s],
         \A i \in Intents : grants[i] > 0 => grants'[i] > 0
  PROVE  Promise(s)'
<1>1. req[s] \in Request /\ Draft(s) BY Here
<1>2. \A j \in Intents : Has(s, j) => Has(s, j)' BY DEF Has
<1>3. \A j : OwnedBy(j) => OwnedBy(j)' BY DEF OwnedBy, Owned, Of
<1>4. req[s].won \subseteq Intents BY <1>1 DEF Request
<1>5. req[s].at = "approve" => req[s].i \in Intents BY <1>1 DEF Draft, WithIntent
<1>6. req[s].op = "poll" => req[s].i \in Intents BY DEF Promise, Of
<1>7. (\A j \in req[s].won :
         ItemOf[j] \in Titles => Has(s, j) \/ (req[s].at = "grant" /\ j = req[s].i))'
  BY <1>2, <1>4 DEF Promise
<1>8. (req[s].at \in {"approve", "closeOwn"} =>
         (ItemOf[req[s].i] \in Titles => Has(s, req[s].i)))'
  BY <1>2, <1>5, <1>6 DEF Promise
<1>9. (req[s].at = "close" => OwnedBy(req[s].i))' BY <1>3 DEF Promise
<1> QED BY <1>7, <1>8, <1>9 DEF Promise

(* A step that writes no row leaves the tables as they were.               *)
LEMMA QuietDelivery ==
  ASSUME IInv, Delivery, NEW r \in Requests, UNCHANGED rows,
         \A s \in Requests \ {r} : req'[s] = req[s], Promise(r)'
  PROVE  Delivery'
<1>1. /\ SucceededDelivered' /\ SupersededOwned' /\ ApprovalDelivered' /\ DeliveredIsClosed'
  BY DEF Delivery, SucceededDelivered, SupersededOwned, ApprovalDelivered,
     DeliveredIsClosed, Resolved, Of, rows
<1>2. \A s \in Requests \ {r} : Promise(s)'
  BY PromiseSame DEF Delivery, rows
<1> QED BY <1>1, <1>2 DEF Delivery

LEMMA IdlePromise ==
  ASSUME IInv, NEW r \in Requests, req' = [req EXCEPT ![r] = Idle]
  PROVE  Promise(r)' /\ \A s \in Requests \ {r} : req'[s] = req[s]
<1>1. req'[r] = Idle /\ \A s \in Requests \ {r} : req'[s] = req[s] BY Here
<1> QED BY <1>1 DEF Promise, Idle, Choosing

LEMMA EndDelivery ==
  ASSUME IInv, Delivery, NEW r \in Requests, End(r)
  PROVE  Delivery'
  BY IdlePromise, QuietDelivery DEF End

(* A move to another label that promises nothing new.                      *)
LEMMA GotoDelivery ==
  ASSUME IInv, Delivery, NEW r \in Requests, NEW l \in Labels, Goto(r, l),
         UNCHANGED rows, req[r].at # "grant", l \notin {"approve", "closeOwn", "sweep"},
         l = "close" => OwnedBy(req[r].i), l \in Choosing => req[r].at \in Choosing
  PROVE  Delivery'
<1>1. /\ \A s \in Requests \ {r} : req'[s] = req[s]
      /\ req'[r].won = req[r].won /\ req'[r].gave = req[r].gave
      /\ req'[r].at = l /\ req'[r].i = req[r].i /\ req'[r].op = req[r].op
      /\ req'[r].own = req[r].own
  BY Here DEF Goto, Request
<1>2. \A j : Has(r, j) <=> Has(r, j)' BY <1>1 DEF Has, rows
<1>3. \A j : OwnedBy(j) <=> OwnedBy(j)' BY DEF OwnedBy, Owned, Of, rows
<1>4. Promise(r)' BY <1>1, <1>2, <1>3 DEF Delivery, Promise
<1> QED BY <1>1, <1>4, QuietDelivery

(* A purchase that is being created turns to an intent, or away from it.   *)
LEMMA TurnDelivery ==
  ASSUME IInv, Delivery, NEW r \in Requests, NEW l \in Labels, Stepped(r, l),
         UNCHANGED rows, l \in Choosing, req[r].at \in Choosing
  PROVE  Delivery'
<1>1. \A j : Has(r, j) <=> Has(r, j)' BY DEF Stepped, Has, rows
<1>2. Promise(r)' BY <1>1 DEF Delivery, Promise, Stepped, Choosing
<1> QED BY <1>2, QuietDelivery DEF Stepped

-----------------------------------------------------------------------------
(* The requests' first steps.                                              *)
LEMMA StartDelivery ==
  ASSUME IInv, Delivery, NEW r \in Requests, Start(r)
  PROVE  Delivery'
<1>0. req \in [Requests -> Request] BY Here
<1>1. ASSUME NEW x, req' = [req EXCEPT ![r] = x], x.won = {}, UNCHANGED rows,
             x.at \notin {"approve", "close", "closeOwn"},
             x.op = "poll" => x.own \in Intents /\ x.i = x.own,
             x.at \in Choosing => x.op = "create", x.at = "sweep" => x.op = "sweep"
      PROVE  Delivery'
  <2>1. req'[r] = x /\ \A s \in Requests \ {r} : req'[s] = req[s] BY <1>0, <1>1
  <2>2. Promise(r)' BY <1>1, <2>1 DEF Promise, Of
  <2> QED BY <1>1, <2>1, <2>2, QuietDelivery
<1>2. ASSUME NEW b \in Buyers, NEW t \in Items, StartCreate(r, b, t) PROVE Delivery'
  <2> DEFINE x == [Idle EXCEPT !.op = "create", !.b = b, !.t = t,
                               !.at = IF b \in Users THEN "buyer" ELSE "find"]
  <2>1. x.won = {} /\ x.at \in {"buyer", "find"} /\ x.op = "create" BY DEF Idle
  <2>2. req' = [req EXCEPT ![r] = x] /\ UNCHANGED rows BY <1>2 DEF StartCreate
  <2> HIDE DEF x
  <2> QED BY <1>1, <2>1, <2>2 DEF Choosing
<1>3. ASSUME NEW i \in Intents, StartPoll(r, i) PROVE Delivery'
  <2> DEFINE x == [Idle EXCEPT !.op = "poll", !.at = "owned", !.i = i, !.own = i,
                               !.qrs = Tracked(i)]
  <2>1. x.won = {} /\ x.at = "owned" /\ x.op = "poll" /\ x.i = i /\ x.own = i BY DEF Idle
  <2>2. req' = [req EXCEPT ![r] = x] /\ UNCHANGED rows BY <1>3 DEF StartPoll
  <2> HIDE DEF x
  <2> QED BY <1>1, <2>1, <2>2 DEF Choosing
<1>4. ASSUME NEW i \in Intents, StartPlay(r, i) PROVE Delivery'
  <2> DEFINE x == [Idle EXCEPT !.op = "play", !.at = "ask", !.i = i, !.qrs = Tracked(i)]
  <2>1. x.won = {} /\ x.at = "ask" /\ x.op = "play" BY DEF Idle
  <2>2. req' = [req EXCEPT ![r] = x] /\ UNCHANGED rows BY <1>4 DEF StartPlay
  <2> HIDE DEF x
  <2> QED BY <1>1, <2>1, <2>2 DEF Choosing
<1>5. ASSUME NEW i \in Intents, StartAdmin(r, i) PROVE Delivery'
  <2> DEFINE x == [Idle EXCEPT !.op = "admin", !.at = "lock", !.i = i]
  <2>1. x.won = {} /\ x.at = "lock" /\ x.op = "admin" BY DEF Idle
  <2>2. req' = [req EXCEPT ![r] = x] /\ UNCHANGED rows BY <1>5 DEF StartAdmin
  <2> HIDE DEF x
  <2> QED BY <1>1, <2>1, <2>2 DEF Choosing
<1>6. ASSUME NEW B \in SUBSET Intents, StartSweep(r, B) PROVE Delivery'
  <2> DEFINE x == [Idle EXCEPT !.op = "sweep", !.at = "sweep", !.left = B]
  <2>1. x.won = {} /\ x.at = "sweep" /\ x.op = "sweep" BY DEF Idle
  <2>2. req' = [req EXCEPT ![r] = x] /\ UNCHANGED rows BY <1>6 DEF StartSweep
  <2> HIDE DEF x
  <2> QED BY <1>1, <2>1, <2>2 DEF Choosing
<1> QED BY <1>2, <1>3, <1>4, <1>5, <1>6 DEF Start

(* A transaction that writes rows, issues nothing, and ends: it may insert *)
(* an intent, or close one whose title is owned.                           *)
LEMMA RowsDelivery ==
  ASSUME IInv, Delivery, NEW r \in Requests, req' = [req EXCEPT ![r] = Idle],
         UNCHANGED <<grants, approvals>>,
         \A i \in Intents : \/ status'[i] = status[i]
                            \/ status[i] = "absent" /\ status'[i] = "pending"
                            \/ OwnedBy(i) /\ status'[i] = "superseded"
  PROVE  Delivery'
<1>1. SucceededDelivered' BY DEF Delivery, SucceededDelivered
<1>2. SupersededOwned' BY DEF Delivery, SupersededOwned, OwnedBy, Owned, Of
<1>3. ApprovalDelivered' BY DEF Delivery, ApprovalDelivered
<1>4. DeliveredIsClosed' BY DEF Delivery, DeliveredIsClosed, Resolved
<1>5. \A s \in Requests : Promise(s)' BY IdlePromise, PromiseSame DEF Delivery
<1> QED BY <1>1, <1>2, <1>3, <1>4, <1>5 DEF Delivery

(* The purchase that is being created, up to its insert.                   *)
LEMMA CreateDelivery ==
  ASSUME IInv, Delivery, NEW r \in Requests,
         \/ LockBuyer(r) \/ FindPending(r) \/ TakePending(r)
         \/ InsertIntent(r) \/ InsertConflict(r) \/ RetryLookup(r)
  PROVE  Delivery'
<1>0. req \in [Requests -> Request] /\ req[r] \in Request BY Here
<1>1. req[r].at \in Choosing \ {"grant"} /\ req[r].op # "poll"
  BY DEF LockBuyer, FindPending, TakePending, InsertIntent, InsertConflict, RetryLookup,
     At, Choosing, Delivery, Promise
<1>2. CASE LockBuyer(r)
  BY <1>1, <1>2, GotoDelivery DEF LockBuyer, Labels
<1>3. CASE FindPending(r)
  <2>1. CASE Goto(r, "insert")
    BY <1>1, <1>3, <2>1, GotoDelivery DEF FindPending, Labels
  <2>2. ASSUME NEW i \in Pending(req[r].b, req[r].t),
               req' = [req EXCEPT ![r].i = i, ![r].at = "take"]
        PROVE  Delivery'
    <3>1. Stepped(r, "take")
      BY <1>0, <2>2 DEF Stepped, Request, Labels, Ops, Pending, Of
    <3> QED BY <1>1, <1>3, <3>1, TurnDelivery DEF FindPending, Labels, Choosing
  <2> QED BY <1>3, <2>1, <2>2 DEF FindPending
<1>4. CASE TakePending(r)
  <2>0. req[r].i \in Intents BY <1>4, Here DEF TakePending, WithIntent
  <2>t. Tracked(req[r].i) \in SUBSET QrNos BY DEF Tracked
  <2>1. CASE req' = [req EXCEPT ![r].at = "reuse", ![r].qrs = Tracked(req[r].i)]
    <3>1. Stepped(r, "reuse")
      BY <1>0, <2>0, <2>t, <2>1 DEF Stepped, Request, Labels, Ops
    <3> QED BY <1>1, <1>4, <3>1, TurnDelivery DEF TakePending, Labels, Choosing
  <2>2. CASE req' = [req EXCEPT ![r].at = "insert", ![r].i = NoIntent]
    <3>1. Stepped(r, "insert") BY <1>0, <2>2 DEF Stepped, Request, Labels, Ops
    <3> QED BY <1>1, <1>4, <3>1, TurnDelivery DEF TakePending, Labels, Choosing
  <2> QED BY <1>4, <2>1, <2>2 DEF TakePending
<1>5. CASE InsertIntent(r)
  <2>1. CASE End(r) BY <2>1, EndDelivery
  <2>2. ASSUME NEW i \in Absent(req[r].b, req[r].t), status' = [status EXCEPT ![i] = "pending"],
               req' = [req EXCEPT ![r] = Idle], UNCHANGED <<grants, approvals>>
        PROVE  Delivery'
    <3>1. status \in [Intents -> Status] /\ status[i] = "absent"
      BY <2>2 DEF IInv, TypeOK, Absent
    <3> QED BY <2>2, <3>1, RowsDelivery
  <2> QED BY <1>5, <2>1, <2>2 DEF InsertIntent
<1>6. CASE InsertConflict(r)
  BY <1>1, <1>6, GotoDelivery DEF InsertConflict, Labels
<1>7. CASE RetryLookup(r)
  <2>1. CASE End(r) BY <2>1, EndDelivery
  <2>2. ASSUME NEW i \in Pending(req[r].b, req[r].t), UNCHANGED rows,
               req' = [req EXCEPT ![r].i = i, ![r].at = "reuse", ![r].qrs = Tracked(i)]
        PROVE  Delivery'
    <3>1. Tracked(i) \in SUBSET QrNos BY DEF Tracked
    <3>2. Stepped(r, "reuse")
      BY <1>0, <2>2, <3>1 DEF Stepped, Request, Labels, Ops, Pending, Of
    <3> QED BY <1>1, <2>2, <3>2, TurnDelivery DEF Labels, Choosing
  <2> QED BY <1>7, <2>1, <2>2 DEF RetryLookup
<1> QED BY <1>2, <1>3, <1>4, <1>5, <1>6, <1>7

(* A pending intent handed out, settled, closed or given a new code.       *)
LEMMA ReuseDelivery ==
  ASSUME IInv, Delivery, NEW r \in Requests,
         ReusePending(r) \/ ConfirmUnpaid(r) \/ Regenerate(r) \/ CloseOwned(r)
  PROVE  Delivery'
<1>1. CASE ReusePending(r)
  BY <1>1, EndDelivery, GotoDelivery DEF ReusePending, At, Labels, Choosing
<1>2. CASE ConfirmUnpaid(r)
  BY <1>2, EndDelivery, GotoDelivery DEF ConfirmUnpaid, At, Labels, Choosing
<1>3. CASE Regenerate(r)
  BY <1>3, EndDelivery, RowsDelivery DEF Regenerate
<1>4. CASE CloseOwned(r)
  <2>1. OwnedBy(req[r].i) BY <1>4 DEF CloseOwned, At, Delivery, Promise
  <2>2. status \in [Intents -> Status] BY DEF IInv, TypeOK
  <2> QED BY <1>4, <2>1, <2>2, RowsDelivery DEF CloseOwned
<1> QED BY <1>1, <1>2, <1>3, <1>4

(* The open checkout, and playback, ask NBC; a poll may turn to a sibling  *)
(* of its intent.                                                          *)
LEMMA PollDelivery ==
  ASSUME IInv, Delivery, NEW r \in Requests, PollOwned(r) \/ PollProbe(r) \/ AskBank(r)
  PROVE  Delivery'
<1>0. req \in [Requests -> Request] /\ req[r] \in Request BY Here
<1>1. CASE PollOwned(r)
  BY <1>1, GotoDelivery DEF PollOwned, At, Labels, Choosing
<1>2. CASE PollProbe(r)
  <2> DEFINE i == req[r].i
  <2>1. ASSUME NEW j \in Pending(BuyerOf[i], ItemOf[i]) \ {i}, ItemOf[i] \in Movies, UNCHANGED rows,
               req' = [req EXCEPT ![r].i = j, ![r].qrs = Tracked(j), ![r].at = "ask"]
        PROVE  Delivery'
    <3>1. /\ req'[r].won = req[r].won /\ req'[r].gave = req[r].gave /\ req'[r].op = req[r].op
          /\ req'[r].at = "ask" /\ req'[r].i = j /\ req'[r].own = req[r].own
          /\ \A s \in Requests \ {r} : req'[s] = req[s]
      BY <1>0, <2>1 DEF Request
    <3>2. req[r].at = "probe" /\ Promise(r) BY <1>2 DEF PollProbe, At, Delivery
    <3>3. \A k : Has(r, k) <=> Has(r, k)' BY <2>1, <3>1 DEF Has, rows
    <3>4. j \in Of(BuyerOf[i], ItemOf[i]) BY <2>1 DEF Pending
    <3>5. req[r].op = "poll" =>
            /\ req[r].own \in Intents /\ j \in Of(BuyerOf[req[r].own], ItemOf[req[r].own])
            /\ ItemOf[j] \in Movies
      BY <2>1, <3>2, <3>4 DEF Promise, Of
    <3>6. \A k \in req[r].won : ItemOf[k] \in Titles => Has(r, k)'
      BY <3>2, <3>3 DEF Promise
    <3>7. Promise(r)'
      BY <3>1, <3>5, <3>6 DEF Promise, Choosing
    <3> QED BY <2>1, <3>1, <3>7, QuietDelivery
  <2> QED BY <1>2, <2>1, EndDelivery, GotoDelivery DEF PollProbe, At, Labels, Choosing
<1>3. CASE AskBank(r)
  BY <1>3, EndDelivery, GotoDelivery DEF AskBank, At, Labels, Choosing
<1> QED BY <1>1, <1>2, <1>3

-----------------------------------------------------------------------------
(* Fulfilment is over for the intent at hand, whose title is granted, or   *)
(* to be granted by this transaction.                                      *)
LEMMA AfterDelivery ==
  ASSUME IInv, Delivery, NEW r \in Requests, req[r].at \in {"lock", "grant"}, UNCHANGED rows,
         \A s \in Requests \ {r} : req'[s] = req[s],
         req'[r].won = req[r].won, req[r].gave \subseteq req'[r].gave,
         req'[r].op = req[r].op, req'[r].own = req[r].own, req'[r].i = req[r].i,
         req'[r].at = After(r),
         ItemOf[req[r].i] \in Titles => req[r].i \in req'[r].gave \/ grants[req[r].i] > 0
  PROVE  Delivery'
<1>1. Promise(r) /\ grants' = grants BY DEF Delivery, rows
<1>2. \A j : Has(r, j) => Has(r, j)' BY <1>1 DEF Has
<1>3. ItemOf[req[r].i] \in Titles => Has(r, req[r].i)' BY <1>1 DEF Has
<1>4. /\ After(r) = "closeOwn" => req[r].op = "poll" /\ req[r].i # req[r].own
      /\ After(r) = "sweep" => req[r].op = "sweep"
  BY DEF After
<1>5. After(r) \in {"sweep", "approve", "closeOwn", "commit"} BY AfterLabel
<1>6. Promise(r)'
  BY <1>1, <1>2, <1>3, <1>4, <1>5 DEF Promise, Choosing
<1> QED BY <1>6, QuietDelivery

(* The row lock: an intent found succeeded has been delivered.             *)
LEMMA LockDelivery ==
  ASSUME IInv, Delivery, NEW r \in Requests, FulfillLock(r)
  PROVE  Delivery'
<1> DEFINE i == req[r].i
<1>0. req \in [Requests -> Request] /\ req[r] \in Request /\ Draft(r) BY Here
<1>1. i \in Intents /\ req[r].at = "lock" /\ UNCHANGED rows
  BY <1>0 DEF FulfillLock, At, Draft, WithIntent
<1>2. CASE status[i] = "succeeded" /\ Goto(r, After(r))
  <2>1. After(r) \in Labels BY AfterLabel DEF Labels
  <2>2. /\ req'[r].won = req[r].won /\ req'[r].gave = req[r].gave /\ req'[r].op = req[r].op
        /\ req'[r].at = After(r) /\ req'[r].i = req[r].i /\ req'[r].own = req[r].own
        /\ \A s \in Requests \ {r} : req'[s] = req[s]
    BY <1>0, <1>2, <2>1 DEF Goto, Request
  <2>3. ItemOf[i] \in Titles => grants[i] > 0
    BY <1>1, <1>2 DEF Delivery, SucceededDelivered
  <2> QED BY <1>1, <2>2, <2>3, AfterDelivery
<1>3. CASE req' = [req EXCEPT ![r].won = @ \cup {i}, ![r].at = "grant"]
  <2>1. /\ req'[r].won = req[r].won \cup {i} /\ req'[r].gave = req[r].gave
        /\ req'[r].op = req[r].op /\ req'[r].at = "grant" /\ req'[r].i = req[r].i
        /\ req'[r].own = req[r].own /\ \A s \in Requests \ {r} : req'[s] = req[s]
    BY <1>0, <1>1, <1>3 DEF Request
  <2>2. \A j : Has(r, j) => Has(r, j)' BY <1>1, <2>1 DEF Has, rows
  <2>3. Promise(r)' BY <1>1, <2>1, <2>2 DEF Delivery, Promise, Choosing
  <2> QED BY <1>1, <2>1, <2>3, QuietDelivery
<1> QED BY <1>2, <1>3 DEF FulfillLock

(* The side effects of fulfilment.                                         *)
LEMMA GrantDelivery ==
  ASSUME IInv, Delivery, NEW r \in Requests,
         GrantExisting(r) \/ GrantTitle(r) \/ GrantPeriod(r) \/ GrantFails(r)
  PROVE  Delivery'
<1> DEFINE i == req[r].i
<1>0. req \in [Requests -> Request] /\ req[r] \in Request /\ Draft(r) BY Here
<1>1. i \in Intents /\ req[r].at = "grant"
  BY <1>0 DEF GrantExisting, GrantTitle, GrantPeriod, GrantFails, At, Draft, WithIntent
<1>a. After(r) \in Labels BY AfterLabel DEF Labels
<1>2. CASE GrantExisting(r)
  <2>1. /\ req'[r].won = req[r].won /\ req'[r].gave = req[r].gave /\ req'[r].op = req[r].op
        /\ req'[r].at = After(r) /\ req'[r].i = req[r].i /\ req'[r].own = req[r].own
        /\ \A s \in Requests \ {r} : req'[s] = req[s]
    BY <1>0, <1>a, <1>2 DEF GrantExisting, Goto, Request
  <2> QED BY <1>1, <1>2, <2>1, AfterDelivery DEF GrantExisting
<1>3. CASE GiveReceipt(r) /\ UNCHANGED rows
  <2>1. req[r].gave \cup {i} \in SUBSET Intents BY <1>0, <1>1 DEF Request
  <2>2. /\ req'[r].won = req[r].won /\ req'[r].gave = req[r].gave \cup {i}
        /\ req'[r].op = req[r].op /\ req'[r].at = After(r) /\ req'[r].i = req[r].i
        /\ req'[r].own = req[r].own /\ \A s \in Requests \ {r} : req'[s] = req[s]
    BY <1>0, <1>a, <1>3, <2>1 DEF GiveReceipt, Request
  <2> QED BY <1>1, <1>3, <2>2, AfterDelivery
<1>4. CASE GrantFails(r)
  <2>1. CASE End(r) BY <2>1, EndDelivery
  <2>2. CASE req[r].op = "sweep" /\ Goto(r, "sweep") /\ UNCHANGED rows
    <3>1. /\ req'[r].won = req[r].won /\ req'[r].gave = req[r].gave /\ req'[r].op = req[r].op
          /\ req'[r].at = "sweep" /\ req'[r].i = req[r].i /\ req'[r].own = req[r].own
          /\ \A s \in Requests \ {r} : req'[s] = req[s]
      BY <1>0, <2>2 DEF Goto, Request
    <3>2. ItemOf[i] \notin Titles BY <1>4, CheckoutConstants DEF GrantFails
    <3>3. After(r) = "sweep" BY <2>2 DEF After
    <3> QED BY <1>1, <2>2, <3>1, <3>2, <3>3, AfterDelivery
  <2> QED BY <1>4, <2>1, <2>2 DEF GrantFails
<1> QED BY <1>2, <1>3, <1>4 DEF GrantTitle, GrantPeriod

-----------------------------------------------------------------------------
(* A commit: what was marked is delivered, what is closed is owned, what   *)
(* was approved is delivered.                                              *)
LEMMA CommitDelivery ==
  ASSUME IInv, Delivery, NEW r \in Requests, req' = [req EXCEPT ![r] = Idle],
         req[r].at # "grant", grants' = Grant(r),
         \A i \in Intents :
           \/ status'[i] = Succeed(r)[i]
           \/ /\ status'[i] = "superseded"
              /\ \E j \in Of(BuyerOf[i], ItemOf[i]) : Has(r, j),
         \A i \in approvals' \ approvals : ItemOf[i] \in Titles => Has(r, i)
  PROVE  Delivery'
<1>0. req[r] \in Request /\ Draft(r) /\ Promise(r) /\ TypeOK
  BY Here DEF Delivery, IInv
<1>1. \A i \in Intents : Has(r, i) => grants'[i] > 0
  BY <1>0 DEF Grant, Has, TypeOK
<1>2. \A i \in Intents : grants[i] > 0 => grants'[i] > 0
  BY <1>1 DEF Has
<1>3. SucceededDelivered'
  <2> SUFFICES ASSUME NEW i \in Intents, status'[i] = "succeeded", ItemOf[i] \in Titles
               PROVE  grants'[i] > 0
    BY DEF SucceededDelivered
  <2>1. i \in req[r].won \/ status[i] = "succeeded" BY DEF Succeed
  <2> QED BY <1>0, <1>1, <1>2, <2>1 DEF Promise, Delivery, SucceededDelivered
<1>4. SupersededOwned'
  <2> SUFFICES ASSUME NEW i \in Intents, status'[i] = "superseded"
               PROVE  \E j \in Of(BuyerOf[i], ItemOf[i]) : grants'[j] > 0
    BY DEF SupersededOwned, Of
  <2>1. status[i] = "superseded" \/ \E j \in Of(BuyerOf[i], ItemOf[i]) : Has(r, j)
    BY DEF Succeed
  <2> QED BY <1>1, <1>2, <2>1 DEF Delivery, SupersededOwned, Of
<1>5. ApprovalDelivered' BY <1>1, <1>2 DEF Delivery, ApprovalDelivered
<1>6. DeliveredIsClosed'
  <2> SUFFICES ASSUME NEW i \in Intents, grants'[i] > 0
               PROVE  status'[i] \in {"succeeded", "superseded"}
    BY DEF DeliveredIsClosed, Resolved
  <2>1. grants[i] > 0 \/ i \in req[r].won
    BY <1>0 DEF Grant, TypeOK, Draft
  <2> QED BY <2>1 DEF Delivery, DeliveredIsClosed, Resolved, Succeed
<1>7. \A s \in Requests : Promise(s)' BY <1>2, IdlePromise, PromiseSame DEF Delivery
<1> QED BY <1>3, <1>4, <1>5, <1>6, <1>7 DEF Delivery

LEMMA CommitsDelivery ==
  ASSUME IInv, Delivery, NEW r \in Requests,
         Commit(r) \/ CommitSibling(r) \/ CommitApproval(r) \/ SweepEnd(r)
  PROVE  Delivery'
<1>0. Promise(r) /\ req[r] \in Request BY Here DEF Delivery
<1>1. CASE Commit(r)
  BY <1>1, CommitDelivery DEF Commit, CommitWrites, At
<1>2. CASE CommitSibling(r)
  <2>1. req[r].at = "closeOwn" BY <1>2 DEF CommitSibling, At
  <2>2. req[r].i \in Of(BuyerOf[req[r].own], ItemOf[req[r].own]) /\ Has(r, req[r].i)
    BY <1>0, <2>1 DEF Promise, Titles, Of
  <2>3. \A i \in Intents :
          \/ status'[i] = Succeed(r)[i]
          \/ /\ status'[i] = "superseded"
             /\ \E j \in Of(BuyerOf[i], ItemOf[i]) : Has(r, j)
    BY <1>2, <2>2 DEF CommitSibling, Succeed
  <2> QED BY <1>2, <2>1, <2>3, CommitDelivery DEF CommitSibling
<1>3. CASE CommitApproval(r)
  <2>1. CASE End(r) BY <2>1, EndDelivery
  <2>2. CASE CommitWrites(r) /\ approvals' = approvals \cup {req[r].i}
    BY <1>0, <1>3, <2>2, CommitDelivery DEF CommitApproval, CommitWrites, At, Promise
  <2> QED BY <1>3, <2>1, <2>2 DEF CommitApproval
<1>4. CASE SweepEnd(r)
  BY <1>4, EndDelivery, CommitDelivery DEF SweepEnd, CommitWrites, At
<1> QED BY <1>1, <1>2, <1>3, <1>4

(* The sweeper's loop over its batch.                                      *)
LEMMA SweepDelivery ==
  ASSUME IInv, Delivery, NEW r \in Requests, SweepNext(r)
  PROVE  Delivery'
<1>0. req \in [Requests -> Request] /\ req[r] \in Request BY Here
<1>1. /\ req'[r].won = req[r].won /\ req'[r].gave = req[r].gave /\ req'[r].op = req[r].op
      /\ req'[r].at \in {"sweep", "lock"} /\ \A s \in Requests \ {r} : req'[s] = req[s]
  BY <1>0 DEF SweepNext, At, Request
<1>2. req[r].at = "sweep" /\ req[r].op = "sweep" /\ Promise(r) /\ UNCHANGED rows
  BY DEF SweepNext, At, Delivery, Promise
<1>3. \A j : Has(r, j) <=> Has(r, j)' BY <1>1, <1>2 DEF Has, rows
<1>4. Promise(r)' BY <1>1, <1>2, <1>3 DEF Promise, Choosing
<1> QED BY <1>1, <1>2, <1>4, QuietDelivery

(* What happens outside touches neither receipts nor what requests do.     *)
LEMMA OutsideDelivery ==
  ASSUME IInv, Delivery, Outside
  PROVE  Delivery'
<1>1. UNCHANGED <<status, grants, approvals, req>>
  BY DEF Outside, QrExpires, Pay, CacheExpires, TogglePlans, rows
<1>2. /\ SucceededDelivered' /\ SupersededOwned' /\ ApprovalDelivered' /\ DeliveredIsClosed'
  BY <1>1 DEF Delivery, SucceededDelivered, SupersededOwned, ApprovalDelivered,
     DeliveredIsClosed, Resolved, Of
<1>3. \A s \in Requests : Promise(s)' BY <1>1, PromiseSame DEF Delivery
<1> QED BY <1>2, <1>3 DEF Delivery

(* Delivery is inductive, given the drafts of IInv.                        *)
LEMMA NextDelivery == IInv /\ Delivery /\ [Next]_vars => Delivery'
<1> SUFFICES ASSUME IInv, Delivery, [Next]_vars PROVE Delivery' OBVIOUS
<1>1. ASSUME NEW r \in Requests, Start(r) PROVE Delivery' BY <1>1, StartDelivery
<1>2. ASSUME NEW r \in Requests, Step(r) PROVE Delivery'
  BY <1>2, CreateDelivery, ReuseDelivery, PollDelivery, LockDelivery, GrantDelivery,
     CommitsDelivery, SweepDelivery DEF Step
<1>3. ASSUME NEW r \in Requests, Abort(r) \/ DeadlockAbort(r) PROVE Delivery'
  BY <1>3, EndDelivery DEF Abort, DeadlockAbort
<1>4. CASE UNCHANGED vars
  <2>1. UNCHANGED <<status, grants, approvals, req>> BY <1>4 DEF vars, rows
  <2>2. /\ SucceededDelivered' /\ SupersededOwned' /\ ApprovalDelivered' /\ DeliveredIsClosed'
    BY <2>1 DEF Delivery, SucceededDelivered, SupersededOwned, ApprovalDelivered,
       DeliveredIsClosed, Resolved, Of
  <2>3. \A s \in Requests : Promise(s)' BY <2>1, PromiseSame DEF Delivery
  <2> QED BY <2>2, <2>3 DEF Delivery
<1> QED BY <1>1, <1>2, <1>3, <1>4, OutsideDelivery DEF Next

LEMMA Deliveries == Spec => []Delivery
<1>1. Init => Delivery BY InitDelivery
<1>2. IInv /\ Delivery /\ [Next]_vars => Delivery' BY NextDelivery
<1> QED BY <1>1, <1>2, Invariance, PTL DEF Spec

(* A title is never marked succeeded without its receipt, whichever        *)
(* request dies, for any number of them (fulfill_payment_intent writes     *)
(* both in one transaction, and leaves a succeeded row alone).             *)
THEOREM DeliveredWhenSucceeded == Spec => []SucceededDelivered
<1>1. Delivery => SucceededDelivered BY DEF Delivery
<1> QED BY <1>1, Deliveries, PTL

(* No buyer loses a title to mark_succeeded_if_already_purchased, although *)
(* it writes a row it read before: receipts are never taken back.          *)
THEOREM OwnedWhenSuperseded == Spec => []SupersededOwned
<1>1. Delivery => SupersededOwned BY DEF Delivery
<1> QED BY <1>1, Deliveries, PTL

(* An operator's approval of a title always comes with a receipt, also     *)
(* when someone else settled the intent while the operator waited.         *)
THEOREM DeliveredWhenApproved == Spec => []ApprovalDelivered
<1>1. Delivery => ApprovalDelivered BY DEF Delivery
<1> QED BY <1>1, Deliveries, PTL

(* What was paid and delivered is never offered for payment again.         *)
THEOREM ClosedWhenDelivered == Spec => []DeliveredIsClosed
<1>1. Delivery => DeliveredIsClosed BY DEF Delivery
<1> QED BY <1>1, Deliveries, PTL

-----------------------------------------------------------------------------
(* Codes paid in time.  The rows: a code is numbered when it is issued; a  *)
(* buyer has one pending intent for an item; when the current code of an   *)
(* intent runs out, no payment of an earlier one is younger than the       *)
(* cached answers.                                                         *)
Codes ==
  /\ \A i \in Intents : status[i] = "absent" => cur[i] = 0 /\ i \notin stale
  /\ \A i \in Intents : prev[i] = 0 \/ prev[i] < cur[i]
  /\ \A i \in Intents, n \in QrNos : <<i, n>> \in paid => n <= cur[i]
  /\ \A i, j \in Intents :
       /\ status[i] = "pending" /\ status[j] = "pending"
       /\ BuyerOf[i] = BuyerOf[j] /\ ItemOf[i] = ItemOf[j]
       => i = j
  /\ \A i \in stale, n \in QrNos : n < cur[i] /\ <<i, n>> \in onTime => <<i, n>> \notin fresh
  /\ PaidCodeKept

Searching == {"take", "insert", "retry", "reuse", "confirm", "regen"}

(* What a purchase in the making knows: it is about to insert only where no *)
(* expired intent is pending; whoever replaces a code holds the row lock    *)
(* since it read the codes, and none of those it gives up was paid in time. *)
Search(r) ==
  LET i == req[r].i
      old == Pending(req[r].b, req[r].t) \cap stale IN
  /\ req[r].at \in {"take", "reuse", "confirm", "regen"} =>
       i \in Of(req[r].b, req[r].t) /\ status[i] # "absent"
  /\ req[r].at \in {"insert", "retry"} => old = {}
  /\ req[r].at = "take" => old \subseteq {i}
  /\ req[r].at = "reuse" => i \notin stale \/ intentLock[i] = r
  /\ req[r].at \in {"confirm", "regen"} => i \in stale /\ intentLock[i] = r
  /\ req[r].at \in {"reuse", "confirm", "regen"} /\ intentLock[i] = r =>
       req[r].qrs = Tracked(i)
  /\ req[r].at = "regen" => \A n \in req[r].qrs : n < cur[i] => <<i, n>> \notin onTime

(* The inductive strengthening of PaidCodeKept.                            *)
Searches == Codes /\ \A r \in Requests : Search(r)

(* Only the locks of r change.                                             *)
OthersLocks(r) ==
  \A i \in Intents, s \in Requests \ {r} : intentLock'[i] = s <=> intentLock[i] = s

LEMMA InitSearches == Init => Searches
<1> SUFFICES ASSUME Init PROVE Searches OBVIOUS
<1>1. Codes BY DEF Init, Codes, PaidCodeKept
<1>2. \A r \in Requests : Search(r) BY DEF Init, Search, Idle
<1> QED BY <1>1, <1>2 DEF Searches

(* A request that does not move knows what it knew, as long as the rows it *)
(* locked are left alone and no code expires.                              *)
LEMMA SearchSame ==
  ASSUME IInv, NEW s \in Requests, Search(s), req'[s] = req[s],
         \A i \in Intents : intentLock'[i] = s <=> intentLock[i] = s,
         \A i \in Intents : status[i] # "absent" => status'[i] # "absent",
         \A i \in Intents : status[i] # "absent" /\ intentLock[i] = s =>
           cur'[i] = cur[i] /\ prev'[i] = prev[i] /\ (i \in stale => i \in stale'),
         stale' \subseteq stale,
         \A i \in stale' : status'[i] = "pending" => status[i] = "pending",
         \A i \in Intents, n \in QrNos :
           <<i, n>> \in onTime' /\ n < cur[i] => <<i, n>> \in onTime
  PROVE  Search(s)'
<1> DEFINE i == req[s].i
<1>1. req[s] \in Request BY Here
<1>2. Pending(req[s].b, req[s].t)' \cap stale' \subseteq Pending(req[s].b, req[s].t) \cap stale
  BY DEF Pending, Of
<1>3. req[s].at \in {"take", "reuse", "confirm", "regen"} =>
        i \in Intents /\ i \in Of(req[s].b, req[s].t) /\ status[i] # "absent"
  BY DEF Search, Of
<1>4. req[s].at \in {"reuse", "confirm", "regen"} /\ intentLock[i] = s =>
        cur'[i] = cur[i] /\ Tracked(i)' = Tracked(i)
  BY <1>3 DEF Tracked
<1>5. (req[s].at \in {"take", "reuse", "confirm", "regen"} =>
         req[s].i \in Of(req[s].b, req[s].t) /\ status[req[s].i] # "absent")'
  BY <1>3 DEF Of
<1>6. (req[s].at \in {"insert", "retry"} => Pending(req[s].b, req[s].t) \cap stale = {})'
  BY <1>2 DEF Search
<1>7. (req[s].at = "take" => Pending(req[s].b, req[s].t) \cap stale \subseteq {req[s].i})'
  BY <1>2 DEF Search
<1>8. (req[s].at = "reuse" => req[s].i \notin stale \/ intentLock[req[s].i] = s)'
  BY <1>3 DEF Search
<1>9. (req[s].at \in {"confirm", "regen"} =>
         req[s].i \in stale /\ intentLock[req[s].i] = s)'
  BY <1>3 DEF Search
<1>10. (req[s].at \in {"reuse", "confirm", "regen"} /\ intentLock[req[s].i] = s =>
          req[s].qrs = Tracked(req[s].i))'
  BY <1>3, <1>4 DEF Search
<1>11. (req[s].at = "regen" =>
          \A n \in req[s].qrs : n < cur[req[s].i] => <<req[s].i, n>> \notin onTime)'
  <2>1. req[s].at = "regen" => intentLock[i] = s /\ req[s].qrs \subseteq QrNos
    BY <1>1 DEF Search, Request
  <2> QED BY <1>3, <1>4, <2>1 DEF Search
<1> QED BY <1>5, <1>6, <1>7, <1>8, <1>9, <1>10, <1>11 DEF Search

(* A step that writes no row.                                              *)
LEMMA QuietSearches ==
  ASSUME IInv, Searches, NEW r \in Requests, UNCHANGED <<rows, world>>,
         \A s \in Requests \ {r} : req'[s] = req[s], OthersLocks(r), Search(r)'
  PROVE  Searches'
<1>1. Codes' BY DEF Searches, Codes, PaidCodeKept, Tracked, rows, world
<1>2. \A s \in Requests \ {r} : Search(s)'
  BY SearchSame DEF Searches, OthersLocks, rows, world
<1> QED BY <1>1, <1>2 DEF Searches

LEMMA SearchNone ==
  ASSUME NEW r \in Requests, req'[r].at \notin Searching
  PROVE  Search(r)'
  BY DEF Search, Searching

LEMMA ReleaseLocks ==
  ASSUME IInv, NEW r \in Requests, Release(r)
  PROVE  OthersLocks(r)
  BY CheckoutConstants DEF Release, OthersLocks

LEMMA EndSearches ==
  ASSUME IInv, Searches, NEW r \in Requests, End(r)
  PROVE  Searches'
<1>1. req'[r] = Idle /\ \A s \in Requests \ {r} : req'[s] = req[s] BY Here DEF End
<1>2. Search(r)' BY <1>1, SearchNone DEF Idle, Searching
<1> QED BY <1>1, <1>2, ReleaseLocks, QuietSearches DEF End

(* The steps of no interest here: they write no row and search nothing.    *)
LEMMA AwaySearches ==
  ASSUME IInv, Searches, NEW r \in Requests, UNCHANGED <<rows, world>>,
         \A s \in Requests \ {r} : req'[s] = req[s], req'[r].at \notin Searching, OthersLocks(r)
  PROVE  Searches'
  BY SearchNone, QuietSearches

LEMMA StartSearches ==
  ASSUME IInv, Searches, NEW r \in Requests, Start(r)
  PROVE  Searches'
<1>0. req \in [Requests -> Request] BY Here
<1>1. /\ \A s \in Requests \ {r} : req'[s] = req[s]
      /\ req'[r].at \in {"buyer", "find", "owned", "ask", "lock", "sweep"}
      /\ UNCHANGED <<rows, world>>
  BY <1>0 DEF Start, StartCreate, StartPoll, StartPlay, StartAdmin, StartSweep, Idle
<1>2. OthersLocks(r)
  BY CheckoutConstants
    DEF Start, StartCreate, StartPoll, StartPlay, StartAdmin, StartSweep, OthersLocks, locks
<1> QED BY <1>1, <1>2, AwaySearches DEF Searching

(* Outside the search for a pending intent.                                *)
LEMMA StepSearches ==
  ASSUME IInv, Searches, NEW r \in Requests,
         \/ LockBuyer(r) \/ PollOwned(r) \/ PollProbe(r) \/ AskBank(r)
         \/ FulfillLock(r) \/ GrantExisting(r) \/ GrantTitle(r) \/ GrantPeriod(r) \/ GrantFails(r)
         \/ SweepNext(r)
  PROVE  Searches'
<1>0. req \in [Requests -> Request] /\ req[r] \in Request BY Here
<1>a. After(r) \notin Searching BY AfterLabel DEF Searching
<1>1. ASSUME UNCHANGED <<rows, world>>, OthersLocks(r),
             \A s \in Requests \ {r} : req'[s] = req[s], req'[r].at \notin Searching
      PROVE  Searches'
  BY <1>1, AwaySearches
<1>2. ASSUME UNCHANGED locks PROVE OthersLocks(r) BY <1>2 DEF OthersLocks, locks
<1>3. CASE LockBuyer(r) BY <1>0, <1>1, <1>3 DEF LockBuyer, Goto, OthersLocks, Request, Searching
<1>4. CASE PollOwned(r)
  BY <1>0, <1>1, <1>2, <1>4 DEF PollOwned, Goto, Request, Searching
<1>5. CASE PollProbe(r)
  <2>1. CASE End(r) BY <2>1, EndSearches
  <2>2. CASE ~End(r)
    <3>1. /\ \A s \in Requests \ {r} : req'[s] = req[s]
          /\ req'[r].at \in {"lock", "ask"} /\ UNCHANGED <<rows, world, locks>>
      BY <1>0, <1>5, <2>2 DEF PollProbe, Goto, Request
    <3> QED BY <1>1, <1>2, <3>1 DEF Searching
  <2> QED BY <2>1, <2>2
<1>6. CASE AskBank(r)
  BY <1>0, <1>1, <1>2, <1>6, EndSearches DEF AskBank, Goto, Request, Searching
<1>7. CASE FulfillLock(r)
  <2>1. OthersLocks(r) BY <1>7, CheckoutConstants DEF FulfillLock, LockIntent, Free, OthersLocks, IInv, TypeOK
  <2>2. /\ \A s \in Requests \ {r} : req'[s] = req[s]
        /\ req'[r].at \in {After(r), "grant"}
    BY <1>0, <1>7 DEF FulfillLock, Goto, Request
  <2> QED BY <1>1, <1>7, <1>a, <2>1, <2>2 DEF FulfillLock, Searching
<1>8. CASE GrantExisting(r)
  BY <1>0, <1>1, <1>2, <1>8, <1>a DEF GrantExisting, Goto, Request
<1>9. CASE GiveReceipt(r) /\ UNCHANGED <<rows, world, intentLock>>
  <2>1. /\ \A s \in Requests \ {r} : req'[s] = req[s]
        /\ req'[r].at = After(r)
    BY <1>0, <1>9 DEF GiveReceipt, Request
  <2> QED BY <1>1, <1>9, <1>a, <2>1 DEF OthersLocks
<1>10. CASE GrantFails(r)
  BY <1>0, <1>1, <1>10, EndSearches DEF GrantFails, Goto, Request, Searching, OthersLocks
<1>11. CASE SweepNext(r)
  <2>1. /\ \A s \in Requests \ {r} : req'[s] = req[s]
        /\ req'[r].at \in {"sweep", "lock"}
    BY <1>0, <1>11 DEF SweepNext, At, Request
  <2> QED BY <1>1, <1>2, <1>11, <2>1 DEF SweepNext, Searching
<1> QED BY <1>3, <1>4, <1>5, <1>6, <1>7, <1>8, <1>9, <1>10, <1>11 DEF GrantTitle, GrantPeriod

(* An intent is closed, or settled: fewer are pending, none is new.        *)
LEMMA CloseSearches ==
  ASSUME IInv, Searches, NEW r \in Requests, Release(r), req' = [req EXCEPT ![r] = Idle],
         UNCHANGED <<cur, prev, stale, world>>,
         \A i \in Intents : status'[i] \in {"succeeded", "superseded"} \/ status'[i] = status[i]
  PROVE  Searches'
<1>0. req'[r] = Idle /\ \A s \in Requests \ {r} : req'[s] = req[s] BY Here
<1>t. stale \subseteq Intents BY DEF IInv, TypeOK
<1>1. Codes' BY <1>t DEF Searches, Codes, PaidCodeKept, Tracked, world
<1>2. \A s \in Requests \ {r} : Search(s)'
  BY <1>0, <1>t, ReleaseLocks, SearchSame DEF Searches, OthersLocks, world
<1>3. Search(r)' BY <1>0, SearchNone DEF Idle, Searching
<1> QED BY <1>1, <1>2, <1>3 DEF Searches

LEMMA CommitsSearches ==
  ASSUME IInv, Searches, NEW r \in Requests,
         Commit(r) \/ CommitSibling(r) \/ CommitApproval(r) \/ SweepEnd(r) \/ CloseOwned(r)
  PROVE  Searches'
<1>1. CASE Commit(r) BY <1>1, CloseSearches DEF Commit, CommitWrites, Succeed
<1>2. CASE CommitSibling(r) BY <1>2, CloseSearches DEF CommitSibling, Succeed
<1>3. CASE CommitApproval(r)
  BY <1>3, EndSearches, CloseSearches DEF CommitApproval, CommitWrites, Succeed
<1>4. CASE SweepEnd(r)
  BY <1>4, EndSearches, CloseSearches DEF SweepEnd, CommitWrites, Succeed
<1>5. CASE CloseOwned(r)
  <2>1. status \in [Intents -> Status] BY DEF IInv, TypeOK
  <2> QED BY <1>5, <2>1, CloseSearches DEF CloseOwned
<1> QED BY <1>1, <1>2, <1>3, <1>4, <1>5

-----------------------------------------------------------------------------
(* The search itself.                                                      *)
LEMMA SearchSteps ==
  ASSUME IInv, Searches, NEW r \in Requests,
         \/ FindPending(r) \/ TakePending(r) \/ InsertConflict(r) \/ RetryLookup(r)
         \/ ReusePending(r) \/ ConfirmUnpaid(r)
  PROVE  Searches'
<1> DEFINE i == req[r].i
<1>0. req \in [Requests -> Request] /\ req[r] \in Request /\ Search(r) /\ Codes
  BY Here DEF Searches
<1>t. intentLock \in [Intents -> Requests \cup {NoRequest}] /\ onTime \subseteq paid
  BY DEF IInv, TypeOK
<1>n. ASSUME UNCHANGED locks PROVE OthersLocks(r) BY <1>n DEF OthersLocks, locks
<1>g. ASSUME NEW l, Goto(r, l)
      PROVE  /\ \A s \in Requests \ {r} : req'[s] = req[s]
             /\ req'[r].at = l /\ req'[r].i = i /\ req'[r].b = req[r].b /\ req'[r].t = req[r].t
             /\ req'[r].qrs = req[r].qrs
  BY <1>0, <1>g DEF Goto, Request
<1>1. CASE FindPending(r)
  <2>1. CASE Pending(req[r].b, req[r].t) = {} /\ Goto(r, "insert")
    <3>1. Search(r)' BY <1>1, <1>g, <2>1 DEF FindPending, Search, Pending, Of, rows
    <3> QED BY <1>1, <1>g, <1>n, <2>1, <3>1, QuietSearches DEF FindPending
  <2>2. ASSUME NEW j \in Pending(req[r].b, req[r].t),
               req' = [req EXCEPT ![r].i = j, ![r].at = "take"]
        PROVE  Searches'
    <3>1. /\ \A s \in Requests \ {r} : req'[s] = req[s]
          /\ req'[r].at = "take" /\ req'[r].i = j /\ req'[r].b = req[r].b /\ req'[r].t = req[r].t
      BY <1>0, <2>2 DEF Request
    <3>2. Pending(req[r].b, req[r].t) \subseteq {j} BY <1>0, <2>2 DEF Codes, Pending, Of
    <3>3. j \in Of(req[r].b, req[r].t) /\ status[j] # "absent" BY <2>2 DEF Pending
    <3>4. UNCHANGED rows BY <1>1 DEF FindPending
    <3>5. Search(r)' BY <3>1, <3>2, <3>3, <3>4 DEF Search, Pending, Of, rows
    <3> QED BY <1>1, <1>n, <3>1, <3>5, QuietSearches DEF FindPending
  <2> QED BY <1>1, <2>1, <2>2 DEF FindPending
<1>2. CASE TakePending(r)
  <2>0. req[r].at = "take" /\ i \in Intents /\ UNCHANGED <<rows, world>>
    BY <1>2, Here DEF TakePending, At, WithIntent
  <2>1. OthersLocks(r) /\ intentLock'[i] = r
    BY <1>2, <1>t, <2>0, CheckoutConstants DEF TakePending, LockIntent, Free, OthersLocks
  <2>2. CASE req' = [req EXCEPT ![r].at = "reuse", ![r].qrs = Tracked(i)]
    <3>1. /\ \A s \in Requests \ {r} : req'[s] = req[s]
          /\ req'[r].at = "reuse" /\ req'[r].i = i /\ req'[r].b = req[r].b /\ req'[r].t = req[r].t
          /\ req'[r].qrs = Tracked(i)
      BY <1>0, <2>2 DEF Request
    <3>2. Search(r)' BY <1>0, <2>0, <2>1, <3>1 DEF Search, Of, Tracked, rows
    <3> QED BY <2>0, <2>1, <3>1, <3>2, QuietSearches
  <2>3. CASE status[i] # "pending" /\ req' = [req EXCEPT ![r].at = "insert", ![r].i = NoIntent]
    <3>1. /\ \A s \in Requests \ {r} : req'[s] = req[s]
          /\ req'[r].at = "insert" /\ req'[r].b = req[r].b /\ req'[r].t = req[r].t
      BY <1>0, <2>3 DEF Request
    <3>2. Pending(req[r].b, req[r].t) \cap stale = {} BY <1>0, <2>0, <2>3 DEF Search, Pending
    <3>3. Search(r)' BY <2>0, <3>1, <3>2 DEF Search, Pending, Of, rows
    <3> QED BY <2>0, <2>1, <3>1, <3>3, QuietSearches
  <2> QED BY <1>2, <2>2, <2>3 DEF TakePending
<1>3. CASE InsertConflict(r)
  <2>1. Pending(req[r].b, req[r].t) \cap stale = {} BY <1>0, <1>3 DEF InsertConflict, At, Search
  <2>2. Search(r)' BY <1>3, <1>g, <2>1 DEF InsertConflict, Search, Pending, Of, rows
  <2> QED BY <1>3, <1>g, <2>2, ReleaseLocks, QuietSearches DEF InsertConflict
<1>4. CASE RetryLookup(r)
  <2>1. ASSUME NEW j \in Pending(req[r].b, req[r].t), UNCHANGED <<rows, world, locks>>,
               req' = [req EXCEPT ![r].i = j, ![r].at = "reuse", ![r].qrs = Tracked(j)]
        PROVE  Searches'
    <3>1. /\ \A s \in Requests \ {r} : req'[s] = req[s]
          /\ req'[r].at = "reuse" /\ req'[r].i = j /\ req'[r].b = req[r].b /\ req'[r].t = req[r].t
          /\ req'[r].qrs = Tracked(j)
      BY <1>0, <2>1 DEF Request
    <3>2. j \notin stale /\ j \in Of(req[r].b, req[r].t) /\ status[j] # "absent"
      BY <1>0, <1>4, <2>1 DEF RetryLookup, At, Search, Pending
    <3>3. UNCHANGED <<status, cur, prev, stale>> BY <2>1 DEF rows
    <3>4. Tracked(j)' = Tracked(j) BY <3>3 DEF Tracked
    <3>5. Search(r)' BY <3>1, <3>2, <3>3, <3>4 DEF Search, Of
    <3> QED BY <1>n, <2>1, <3>1, <3>5, QuietSearches
  <2> QED BY <1>4, <2>1, EndSearches DEF RetryLookup
<1>5. CASE ReusePending(r)
  <2>1. CASE End(r) BY <2>1, EndSearches
  <2>2. ASSUME NEW l \in {"lock", "close"}, Goto(r, l), UNCHANGED <<rows, world, locks>> PROVE Searches'
    BY <1>g, <1>n, <2>2, AwaySearches DEF Searching
  <2>3. CASE i \in stale /\ Goto(r, "confirm") /\ UNCHANGED <<rows, world, locks>>
    <3>1. req[r].at = "reuse" /\ intentLock[i] = r BY <1>0, <1>5, <2>3 DEF ReusePending, At, Search
    <3>2. req[r].qrs = Tracked(i) BY <1>0, <3>1 DEF Search
    <3>3. Search(r)' BY <1>0, <1>g, <2>3, <3>1, <3>2 DEF Search, Of, Tracked, rows, locks
    <3> QED BY <1>g, <1>n, <2>3, <3>3, QuietSearches
  <2> QED BY <1>5, <2>1, <2>2, <2>3 DEF ReusePending
<1>6. CASE ConfirmUnpaid(r)
  <2>1. CASE End(r) BY <2>1, EndSearches
  <2>2. CASE AnswersUnpaid(i, req[r].qrs) /\ Goto(r, "regen") /\ UNCHANGED <<rows, world, locks>>
    <3>1. req[r].at = "confirm" /\ i \in stale /\ intentLock[i] = r /\ req[r].qrs = Tracked(i)
      BY <1>0, <1>6 DEF ConfirmUnpaid, At, Search
    <3>2. \A n \in req[r].qrs : n < cur[i] => <<i, n>> \notin onTime
      BY <1>0, <1>t, <2>2, <3>1 DEF AnswersUnpaid, Codes, Request
    <3>3. i \in Of(req[r].b, req[r].t) /\ status[i] # "absent" BY <1>0, <3>1 DEF Search
    <3>4. UNCHANGED <<status, cur, prev, stale, onTime, intentLock>>
      BY <2>2 DEF rows, world, locks
    <3>5. \A j : Tracked(j)' = Tracked(j) BY <3>4 DEF Tracked
    <3>6. Search(r)'
      BY <1>g, <2>2, <3>1, <3>2, <3>3, <3>4, <3>5 DEF Search, Of
    <3> QED BY <1>g, <1>n, <2>2, <3>6, QuietSearches
  <2> QED BY <1>6, <2>1, <2>2 DEF ConfirmUnpaid
<1> QED BY <1>1, <1>2, <1>3, <1>4, <1>5, <1>6

(* The insert: the buyer's only pending intent for the item, and no code   *)
(* of it was paid before.                                                  *)
LEMMA InsertSearches ==
  ASSUME IInv, Searches, NEW r \in Requests, InsertIntent(r)
  PROVE  Searches'
<1>1. CASE End(r) BY <1>1, EndSearches
<1>2. ASSUME NEW i \in Absent(req[r].b, req[r].t), status' = [status EXCEPT ![i] = "pending"],
             cur' = [cur EXCEPT ![i] = 1], Release(r), req' = [req EXCEPT ![r] = Idle],
             UNCHANGED <<prev, stale, world>>
      PROVE  Searches'
  <2>0. req'[r] = Idle /\ \A s \in Requests \ {r} : req'[s] = req[s] BY <1>2, Here
  <2>1. /\ i \in Intents /\ BuyerOf[i] = req[r].b /\ ItemOf[i] = req[r].t /\ status[i] = "absent"
        /\ cur[i] = 0 /\ i \notin stale /\ Codes
    BY <1>2 DEF Absent, Of, Searches, Codes
  <2>t. /\ status \in [Intents -> Status] /\ cur \in [Intents -> 0..MaxQr]
        /\ prev \in [Intents -> 0..MaxQr] /\ onTime \subseteq paid /\ stale \subseteq Intents
        /\ paid \subseteq Intents \X QrNos
    BY DEF IInv, TypeOK
  <2>2. \A n \in QrNos : <<i, n>> \notin paid BY <2>1, <2>t, CheckoutConstants DEF Codes, QrNos
  <2>3. /\ status'[i] = "pending" /\ cur'[i] = 1 /\ UNCHANGED <<prev, stale, paid, fresh, onTime>>
        /\ \A j \in Intents \ {i} : status'[j] = status[j] /\ cur'[j] = cur[j]
    BY <1>2, <2>1, <2>t DEF world
  <2>4. Codes'
    <3>1. \A j \in Intents : status'[j] = "absent" => cur'[j] = 0 /\ j \notin stale'
      BY <2>1, <2>3 DEF Codes
    <3>2. \A j \in Intents : prev'[j] = 0 \/ prev'[j] < cur'[j]
      <4>1. prev[i] = 0 BY <2>1, <2>t DEF Codes
      <4> QED BY <2>1, <2>3, <4>1 DEF Codes
    <3>3. \A j \in Intents, n \in QrNos : <<j, n>> \in paid' => n <= cur'[j]
      BY <2>1, <2>2, <2>3 DEF Codes
    <3>4. \A j \in Intents \ {i} :
            ~ (status[j] = "pending" /\ BuyerOf[i] = BuyerOf[j] /\ ItemOf[i] = ItemOf[j])
      BY <2>1 DEF InsertIntent, Pending, Of
    <3>5. \A j, k \in Intents :
            /\ status'[j] = "pending" /\ status'[k] = "pending"
            /\ BuyerOf[j] = BuyerOf[k] /\ ItemOf[j] = ItemOf[k]
            => j = k
      BY <2>1, <2>3, <3>4 DEF Codes
    <3>6. \A j \in stale', n \in QrNos : n < cur'[j] /\ <<j, n>> \in onTime' => <<j, n>> \notin fresh'
      BY <2>1, <2>3, <2>t DEF Codes
    <3>7. PaidCodeKept'
      BY <2>1, <2>2, <2>3, <2>t DEF Codes, PaidCodeKept, Tracked
    <3> QED BY <3>1, <3>2, <3>3, <3>5, <3>6, <3>7 DEF Codes
  <2>5. ASSUME NEW s \in Requests \ {r} PROVE Search(s)'
    <3>1. \A j \in Intents : status[j] # "absent" => status'[j] # "absent" BY <2>1, <2>3
    <3>2. \A j \in stale' : status'[j] = "pending" => status[j] = "pending"
      BY <2>1, <2>3, <2>t
    <3> QED BY <1>2, <2>0, <2>1, <2>3, <3>1, <3>2, ReleaseLocks, SearchSame
          DEF Searches, OthersLocks
  <2>6. Search(r)' BY <2>0, SearchNone DEF Idle, Searching
  <2> QED BY <2>4, <2>5, <2>6 DEF Searches
<1> QED BY <1>1, <1>2 DEF InsertIntent

(* A new code: the one before last, which is forgotten, was not paid in    *)
(* time.                                                                   *)
LEMMA RegenerateSearches ==
  ASSUME IInv, Searches, NEW r \in Requests, Regenerate(r)
  PROVE  Searches'
<1> DEFINE i == req[r].i
<1>1. CASE End(r) BY <1>1, EndSearches
<1>2. CASE /\ prev' = [prev EXCEPT ![i] = cur[i]] /\ cur' = [cur EXCEPT ![i] = cur[i] + 1]
           /\ stale' = stale \ {i} /\ Release(r) /\ req' = [req EXCEPT ![r] = Idle]
           /\ UNCHANGED <<status, world>>
  <2>0. req'[r] = Idle /\ \A s \in Requests \ {r} : req'[s] = req[s] BY <1>2, Here
  <2>1. req[r].at = "regen" /\ i \in Intents /\ Search(r) /\ Codes
    BY Here DEF Regenerate, At, WithIntent, Searches
  <2>2. /\ i \in stale /\ intentLock[i] = r /\ status[i] # "absent"
        /\ \A n \in Tracked(i) : n < cur[i] => <<i, n>> \notin onTime
    BY <2>1 DEF Search
  <2>t. /\ cur \in [Intents -> 0..MaxQr] /\ prev \in [Intents -> 0..MaxQr]
        /\ stale \subseteq Intents
    BY DEF IInv, TypeOK
  <2>3. /\ prev'[i] = cur[i] /\ cur'[i] = cur[i] + 1 /\ i \notin stale' /\ cur[i] \in Nat
        /\ \A j \in Intents \ {i} : prev'[j] = prev[j] /\ cur'[j] = cur[j]
        /\ UNCHANGED <<status, paid, fresh, onTime>>
    BY <1>2, <2>1, <2>t DEF world
  <2>4. Codes'
    <3>1. \A j \in Intents : status'[j] = "absent" => cur'[j] = 0 /\ j \notin stale'
      BY <1>2, <2>1, <2>2, <2>3 DEF Codes
    <3>2. \A j \in Intents : prev'[j] = 0 \/ prev'[j] < cur'[j]
      BY <2>1, <2>3 DEF Codes
    <3>3. \A j \in Intents, n \in QrNos : <<j, n>> \in paid' => n <= cur'[j]
      BY <2>1, <2>3, <2>t DEF Codes, QrNos
    <3>4. \A j \in stale', n \in QrNos : n < cur'[j] /\ <<j, n>> \in onTime' => <<j, n>> \notin fresh'
      BY <1>2, <2>1, <2>3, <2>t DEF Codes
    <3>5. PaidCodeKept'
      <4> SUFFICES ASSUME NEW j \in Intents, NEW n \in QrNos, <<j, n>> \in onTime, status[j] = "pending"
                   PROVE  n \in {cur'[j], prev'[j]}
        BY <2>3 DEF PaidCodeKept, Tracked
      <4>1. n \in Tracked(j) BY <2>1 DEF Codes, PaidCodeKept
      <4>2. CASE j # i BY <2>3, <4>1, <4>2 DEF Tracked
      <4>3. CASE j = i
        <5>1. n = cur[i] \/ (n = prev[i] /\ n # 0)
          BY <4>1, <4>3, CheckoutConstants DEF Tracked, QrNos
        <5>2. ~(n < cur[i]) BY <2>2, <4>1, <4>3
        <5>3. n = cur[i] BY <2>1, <5>1, <5>2 DEF Codes
        <5> QED BY <2>3, <4>3, <5>3
      <4> QED BY <4>2, <4>3
    <3> QED BY <2>1, <2>3, <3>1, <3>2, <3>3, <3>4, <3>5 DEF Codes
  <2>5. ASSUME NEW s \in Requests \ {r} PROVE Search(s)'
    BY <1>2, <2>0, <2>2, <2>3, ReleaseLocks, SearchSame DEF Searches, OthersLocks
  <2>6. Search(r)' BY <2>0, SearchNone DEF Idle, Searching
  <2> QED BY <2>4, <2>5, <2>6 DEF Searches
<1> QED BY <1>1, <1>2 DEF Regenerate

(* What happens outside.                                                   *)
LEMMA OutsideSearches ==
  ASSUME IInv, Delivery, Searches, Outside
  PROVE  Searches'
<1>c. Codes BY DEF Searches
<1>t. /\ cur \in [Intents -> 0..MaxQr] /\ stale \subseteq Intents
      /\ fresh \subseteq paid /\ onTime \subseteq paid
  BY DEF IInv, TypeOK
<1>s. ASSUME UNCHANGED <<status, cur, prev, stale, intentLock, req>>,
             \A i \in Intents, n \in QrNos :
               <<i, n>> \in onTime' /\ n < cur[i] => <<i, n>> \in onTime
      PROVE  \A s \in Requests : Search(s)'
  BY <1>s, SearchSame DEF Searches
<1>1. ASSUME NEW i \in Intents, NEW n \in QrNos, Pay(i, n) PROVE Searches'
  <2>1. /\ n <= cur[i] /\ <<i, n>> \notin paid /\ paid' = paid \cup {<<i, n>>}
        /\ fresh' = fresh \cup {<<i, n>>} /\ onTime \subseteq onTime'
        /\ onTime' \subseteq onTime \cup {<<i, n>>} /\ (n # cur[i] => onTime' = onTime)
        /\ UNCHANGED <<status, cur, prev, stale, intentLock, req>>
    BY <1>1 DEF Pay, rows, locks
  <2>2. \A j \in Intents, m \in QrNos : <<j, m>> \in onTime' /\ m < cur[j] => <<j, m>> \in onTime
    BY <1>t, <2>1
  <2>3. \A j \in Intents, m \in QrNos : <<j, m>> \in paid' => m <= cur[j]
    BY <1>c, <2>1 DEF Codes
  <2>4. \A j \in stale, m \in QrNos : m < cur[j] /\ <<j, m>> \in onTime' => <<j, m>> \notin fresh'
    <3> SUFFICES ASSUME NEW j \in stale, NEW m \in QrNos, m < cur[j], <<j, m>> \in onTime'
                 PROVE  <<j, m>> \notin fresh'
      OBVIOUS
    <3>1. <<j, m>> \in onTime BY <1>t, <2>2
    <3>2. <<j, m>> # <<i, n>> BY <1>t, <2>1, <3>1
    <3> QED BY <1>c, <2>1, <3>1, <3>2 DEF Codes
  <2>5. PaidCodeKept'
    <3> SUFFICES ASSUME NEW j \in Intents, NEW m \in QrNos, <<j, m>> \in onTime', status[j] = "pending"
                 PROVE  m \in Tracked(j)
      BY <2>1 DEF PaidCodeKept, Tracked
    <3>1. CASE <<j, m>> \in onTime BY <1>c, <3>1 DEF Codes, PaidCodeKept
    <3>2. CASE <<j, m>> \notin onTime
      <4>1. j = i /\ m = n /\ n = cur[i] BY <2>1, <3>2
      <4> QED BY <4>1 DEF Tracked
    <3> QED BY <3>1, <3>2
  <2>6. Codes' BY <1>c, <2>1, <2>3, <2>4, <2>5 DEF Codes
  <2> QED BY <1>s, <2>1, <2>2, <2>6 DEF Searches
<1>2. CASE CacheExpires \/ TogglePlans
  <2>1. /\ UNCHANGED <<status, cur, prev, stale, paid, onTime, intentLock, req>>
        /\ fresh' \subseteq fresh
    BY <1>2 DEF CacheExpires, TogglePlans, rows, locks
  <2>2. Codes' BY <1>c, <2>1 DEF Codes, PaidCodeKept, Tracked
  <2> QED BY <1>s, <2>1, <2>2 DEF Searches
<1>3. ASSUME NEW i \in Intents, QrExpires(i) PROVE Searches'
  <2>1. /\ status[i] = "pending" /\ stale' = stale \cup {i} /\ \A n \in QrNos : <<i, n>> \notin fresh
        /\ UNCHANGED <<status, cur, prev, paid, fresh, onTime, intentLock, req>>
    BY <1>3 DEF QrExpires, world, locks
  <2>2. Codes'
    <3>1. PaidCodeKept' BY <1>c, <2>1 DEF Codes, PaidCodeKept, Tracked
    <3> QED BY <1>c, <2>1, <3>1 DEF Codes
  <2>3. ASSUME NEW s \in Requests PROVE Search(s)'
    <3>1. Search(s) /\ Promise(s) BY DEF Searches, Delivery
    <3>2. req[s].at \in Choosing /\ i \in Of(req[s].b, req[s].t) =>
            /\ req[s].at \notin {"insert", "retry"} /\ (At(s, "take") => req[s].i = i)
            /\ At(s, "reuse") => intentLock[i] = s
      BY <1>3, <3>1 DEF QrExpires, Promise, Of
    <3>3. /\ Pending(req[s].b, req[s].t)' = Pending(req[s].b, req[s].t)
          /\ \A j : Tracked(j)' = Tracked(j)
      BY <2>1 DEF Pending, Of, Tracked
    <3>4. i \in Pending(req[s].b, req[s].t) => i \in Of(req[s].b, req[s].t) BY DEF Pending
    <3>5. (req[s].at \in {"insert", "retry"} => Pending(req[s].b, req[s].t) \cap stale = {})'
      BY <2>1, <3>1, <3>2, <3>3, <3>4 DEF Search, Choosing
    <3>6. (req[s].at = "take" => Pending(req[s].b, req[s].t) \cap stale \subseteq {req[s].i})'
      BY <2>1, <3>1, <3>2, <3>3, <3>4 DEF Search, Choosing, At
    <3>7. (req[s].at = "reuse" => req[s].i \notin stale \/ intentLock[req[s].i] = s)'
      BY <2>1, <3>1, <3>2 DEF Search, Choosing, At
    <3> QED BY <2>1, <3>1, <3>3, <3>5, <3>6, <3>7 DEF Search, Of
  <2> QED BY <2>2, <2>3 DEF Searches
<1> QED BY <1>1, <1>2, <1>3 DEF Outside

(* Searches is inductive, given IInv and Delivery.                         *)
LEMMA NextSearches == IInv /\ Delivery /\ Searches /\ [Next]_vars => Searches'
<1> SUFFICES ASSUME IInv, Delivery, Searches, [Next]_vars PROVE Searches' OBVIOUS
<1>1. ASSUME NEW r \in Requests, Start(r) PROVE Searches' BY <1>1, StartSearches
<1>2. ASSUME NEW r \in Requests, Step(r) PROVE Searches'
  BY <1>2, StepSearches, CommitsSearches, SearchSteps, InsertSearches, RegenerateSearches
    DEF Step
<1>3. ASSUME NEW r \in Requests, Abort(r) \/ DeadlockAbort(r) PROVE Searches'
  BY <1>3, EndSearches DEF Abort, DeadlockAbort
<1>4. CASE UNCHANGED vars
  <2>1. Codes' BY <1>4 DEF Searches, Codes, PaidCodeKept, Tracked, vars, rows, world
  <2>2. \A s \in Requests : Search(s)'
    BY <1>4, SearchSame DEF Searches, vars, rows, world, locks
  <2> QED BY <2>1, <2>2 DEF Searches
<1> QED BY <1>1, <1>2, <1>3, <1>4, OutsideSearches DEF Next

(* A code paid while it was the current one is probed for as long as its   *)
(* intent is pending (regenerate_bakong_qr keeps only one earlier code):   *)
(* the ten minutes a code lives outlast the cached answers, and the row    *)
(* lock is held from the second probe to the new code.                     *)
THEOREM TrackedWhilePending == Spec => []PaidCodeKept
<1>1. Init => Searches BY InitSearches
<1>2. IInv /\ Delivery /\ Searches /\ [Next]_vars => Searches' BY NextSearches
<1>3. Searches => PaidCodeKept BY DEF Searches, Codes
<1> QED BY <1>1, <1>2, <1>3, Invariance, Deliveries, PTL DEF Spec
=============================================================================
