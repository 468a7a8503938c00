--------------------------- MODULE SessionsProofs ---------------------------
(***************************************************************************)
(* What Sessions guarantees for every number of requests and sessions and  *)
(* every device limit: its types, token versions, the limit at a sign-in,  *)
(* and that neither a refresh nor a reset misses what ran beside it.       *)
(***************************************************************************)
EXTENDS Sessions, FiniteSetTheorems, TLAPS

USE SessionConstants

(* What the step of r leaves to the other requests: their locks, and what  *)
(* they rely on while they hold them.  r is NoRequest if nobody steps.     *)
LeavesOthers(r) ==
  /\ \A q \in Requests \ {r} : req'[q] = req[q]
  /\ userLock \in Requests \ {r} =>
       userLock' = userLock /\ active' = active /\ Live' \subseteq Live /\ Active' \subseteq Active
  /\ \A s \in Sessions : sessionLock[s] \in Requests \ {r} =>
       /\ sessionLock'[s] = sessionLock[s] /\ ver'[s] = ver[s]
       /\ state[s] = "live" => state'[s] = "live"

(* The locks after a step of r that writes no table.                       *)
KeepsLocks(r) ==
  /\ userLock' \in Requests \cup {NoRequest}
  /\ sessionLock' \in [Sessions -> Requests \cup {NoRequest}]
  /\ userLock \in Requests \ {r} => userLock' = userLock
  /\ \A s \in Sessions : sessionLock[s] \in Requests \ {r} => sessionLock'[s] = sessionLock[s]

(* r changes its own record only.                                          *)
Steps(r) ==
  req' \in [Requests -> Request] /\ \A q \in Requests \ {r} : req'[q] = req[q]

LEMMA IdleType == Idle \in Request
  BY DEF Idle, Request, Labels, Versions

LEMMA InitInv == Init => IInv
<1> SUFFICES ASSUME Init PROVE IInv OBVIOUS
<1>2. TypeOK
  <2>1. active \in BOOLEAN /\ erased \in BOOLEAN BY DEF Init
  <2>2. ver \in [Sessions -> Versions] /\ issued \subseteq Sessions \X Versions
    BY DEF Init, Versions
  <2>3. now \in Nat /\ pw \in Nat /\ state \in [Sessions -> States] /\ exp \in [Sessions -> Nat]
    BY DEF Init, States
  <2>4. refreshed \in [Sessions -> Nat] /\ opened \in [Sessions -> Nat]
    BY DEF Init
  <2>5. /\ userLock \in Requests \cup {NoRequest}
        /\ sessionLock \in [Sessions -> Requests \cup {NoRequest}]
    BY DEF Init
  <2>6. req \in [Requests -> Request] BY IdleType DEF Init
  <2> QED BY <2>1, <2>2, <2>3, <2>4, <2>5, <2>6 DEF TypeOK
<1>3. IssuedWithinVersion BY DEF Init, IssuedWithinVersion
<1>4. \A r \in Requests : Draft(r) BY DEF Init, Draft, Idle
<1> QED BY <1>2, <1>3, <1>4 DEF IInv

LEMMA Here ==
  ASSUME IInv, NEW r \in Requests
  PROVE  req \in [Requests -> Request] /\ req[r] \in Request /\ Draft(r) /\ TypeOK
  BY DEF IInv, TypeOK

(* The sessions that count are finitely many, and fewer of them count less.*)
LEMMA ActiveFinite ==
  ASSUME IInv
  PROVE  /\ IsFiniteSet(Active) /\ Cardinality(Active) \in Nat
         /\ \A A : A \subseteq Active => Cardinality(A) \in Nat /\ Cardinality(A) <= Cardinality(Active)
<1>1. Active \subseteq Sessions BY DEF Active, Live
<1>2. IsFiniteSet(Active) BY <1>1, FS_Subset
<1>3. Cardinality(Active) \in Nat BY <1>2, FS_CardinalityType
<1>4. ASSUME NEW A, A \subseteq Active
      PROVE  Cardinality(A) \in Nat /\ Cardinality(A) <= Cardinality(Active)
  <2>1. IsFiniteSet(A) /\ Cardinality(A) <= Cardinality(Active) BY <1>2, <1>4, FS_Subset
  <2> QED BY <2>1, FS_CardinalityType
<1> QED BY <1>2, <1>3, <1>4

(* The others may go on relying on what they relied on.                    *)
LEMMA OthersKeep ==
  ASSUME IInv, NEW r, LeavesOthers(r), NEW q \in Requests \ {r}
  PROVE  Draft(q)'
<1>1. Draft(q) /\ req'[q] = req[q] /\ req[q] \in Request
  BY Here DEF LeavesOthers
<1> DEFINE s == req[q].s
<1>2. req[q].at \in {"slot", "bump"} =>
        sessionLock'[s] = q /\ state'[s] = "live" /\ req[q].next \in {ver'[s], ver'[s] + 1}
  BY <1>1 DEF Draft, LeavesOthers
<1>3. req[q].at \in {"count", "insert", "bump"} => userLock' = q
  BY <1>1 DEF Draft, LeavesOthers
<1>4. ASSUME req[q].at = "insert" PROVE Cardinality(Active') < Limit
  <2>1. Active' \subseteq Active /\ Cardinality(Active) < Limit
    BY <1>1, <1>4 DEF Draft, LeavesOthers
  <2>2. Cardinality(Active') \in Nat /\ Cardinality(Active') <= Cardinality(Active)
    BY <2>1, ActiveFinite
  <2> QED BY <2>1, <2>2, ActiveFinite
<1>5. req[q].at = "bump" => active' BY <1>1 DEF Draft, LeavesOthers
<1>6. req[q].at = "rows" /\ req[q].op = "reset" =>
        userLock' = q /\ Live' \subseteq req[q].todo \cup req[q].held
  BY <1>1 DEF Draft, LeavesOthers
<1>7. \A h \in req[q].held : sessionLock'[h] = q
  BY <1>1 DEF Draft, LeavesOthers, Request
<1> QED BY <1>1, <1>2, <1>3, <1>4, <1>5, <1>6, <1>7 DEF Draft

LEMMA Assemble ==
  ASSUME IInv, NEW r, LeavesOthers(r), TypeOK', IssuedWithinVersion',
         r \in Requests => Draft(r)'
  PROVE  IInv'
<1>1. \A q \in Requests : Draft(q)'
  <2>1. \A q \in Requests \ {r} : Draft(q)' BY OthersKeep
  <2> QED BY <2>1
<1> QED BY <1>1 DEF IInv

(* A step that writes no table.                                            *)
LEMMA MoveInv ==
  ASSUME IInv, NEW r \in Requests, Steps(r), KeepsLocks(r), Draft(r)',
         UNCHANGED <<now, account, rows>>
  PROVE  IInv'
<1>1. TypeOK' BY DEF IInv, TypeOK, Steps, KeepsLocks, account, rows
<1>2. IssuedWithinVersion' BY DEF IInv, IssuedWithinVersion, rows
<1>3. LeavesOthers(r)
  BY DEF LeavesOthers, Steps, KeepsLocks, Live, Active, account, rows
<1> QED BY <1>1, <1>2, <1>3, Assemble

(* The end of a transaction frees the locks of r and of nobody else.       *)
LEMMA DoneKeeps ==
  ASSUME IInv, NEW r \in Requests, Done(r)
  PROVE  Steps(r) /\ KeepsLocks(r) /\ req'[r] = Idle /\ Draft(r)'
<1>2. Steps(r) /\ req'[r] = Idle BY IdleType, Here DEF Done, Steps
<1>3. KeepsLocks(r) BY Here DEF Done, Release, KeepsLocks, TypeOK
<1>4. Draft(r)' BY <1>2 DEF Draft, Idle
<1> QED BY <1>2, <1>3, <1>4

LEMMA EndInv ==
  ASSUME IInv, NEW r \in Requests, End(r)
  PROVE  IInv'
  BY DoneKeeps, MoveInv DEF End

(* A commit that signs sessions out, and may change the account.           *)
LEMMA SignOutInv ==
  ASSUME IInv, NEW r \in Requests, Steps(r), KeepsLocks(r), Draft(r)',
         state' \in [Sessions -> States],
         \A s \in Sessions : state'[s] = "live" => state[s] = "live",
         \A s \in Sessions : sessionLock[s] \in Requests \ {r} => state'[s] = state[s],
         UNCHANGED <<now, exp, ver, refreshed, issued, opened>>,
         active' \in BOOLEAN, erased' \in BOOLEAN, pw' \in Nat,
         userLock \in Requests \ {r} => active' = active
  PROVE  IInv'
<1>1. TypeOK' BY DEF IInv, TypeOK, Steps, KeepsLocks
<1>2. IssuedWithinVersion' BY DEF IInv, IssuedWithinVersion
<1>3. Live' \subseteq Live /\ Active' \subseteq Active BY DEF Live, Active
<1>4. LeavesOthers(r) BY <1>3 DEF LeavesOthers, Steps, KeepsLocks
<1> QED BY <1>1, <1>2, <1>4, Assemble

-----------------------------------------------------------------------------
(* A request's first step.                                                 *)
LEMMA StartInv ==
  ASSUME IInv, NEW r \in Requests, Start(r)
  PROVE  IInv'
<1>0. req \in [Requests -> Request] /\ TypeOK BY Here
<1>l. ASSUME UNCHANGED locks PROVE KeepsLocks(r) BY <1>0, <1>l DEF KeepsLocks, TypeOK, locks
<1>b. ASSUME NEW rec \in Request, Begin(r, rec), rec.held = {}, rec.at \in Labels,
             rec.at \in {"session", "revoke"} => rec.s \in Sessions,
             rec.at \in {"user", "session", "revoke", "reset"} \/ (rec.at = "rows" /\ rec.op # "reset")
      PROVE  IInv'
  <2>1. Steps(r) /\ req'[r] = rec BY <1>0, <1>b DEF Begin, Steps
  <2>2. Draft(r)' BY <1>b, <2>1 DEF Draft
  <2> QED BY <1>b, <1>l, <2>1, <2>2, MoveInv DEF Begin
<1>1. ASSUME StartLogin(r) PROVE IInv'
  <2> DEFINE rec == [Idle EXCEPT !.op = "login", !.at = "user", !.pw = pw]
  <2>1. rec \in Request BY <1>0, IdleType DEF Request, Labels, TypeOK
  <2>2. rec.at = "user" /\ rec.held = {} BY DEF Idle
  <2>3. Begin(r, rec) BY <1>1 DEF StartLogin
  <2> QED BY <2>1, <2>2, <2>3, <1>b DEF Labels
<1>2. ASSUME StartReset(r) PROVE IInv'
  <2> DEFINE rec == [Idle EXCEPT !.op = "reset", !.at = "reset"]
  <2>1. rec \in Request BY IdleType DEF Request, Labels
  <2>2. rec.at = "reset" /\ rec.held = {} BY DEF Idle
  <2>3. Begin(r, rec) BY <1>2 DEF StartReset
  <2> QED BY <2>1, <2>2, <2>3, <1>b DEF Labels
<1>3. ASSUME StartTv(r) PROVE IInv'
  <2> DEFINE rec == [Idle EXCEPT !.op = "tv", !.at = "rows", !.todo = Live]
  <2>1. rec \in Request BY IdleType DEF Request, Labels, Live
  <2>2. rec.at = "rows" /\ rec.held = {} /\ rec.op = "tv" BY DEF Idle
  <2>3. Begin(r, rec) BY <1>3 DEF StartTv
  <2> QED BY <2>1, <2>2, <2>3, <1>b DEF Labels
<1>4. ASSUME StartDelete(r) PROVE IInv'
  <2> DEFINE S   == {s \in Sessions : state[s] \in {"live", "revoked"}}
             rec == [Idle EXCEPT !.op = "delete", !.at = "rows", !.todo = S]
  <2>1. rec \in Request BY IdleType DEF Request, Labels
  <2>2. rec.at = "rows" /\ rec.held = {} /\ rec.op = "delete" BY DEF Idle
  <2>3. Begin(r, rec) BY <1>4 DEF StartDelete
  <2> QED BY <2>1, <2>2, <2>3, <1>b DEF Labels
<1>5. ASSUME NEW s \in Sessions, StartRevoke(r, s) PROVE IInv'
  <2> DEFINE rec == [Idle EXCEPT !.op = "revoke", !.at = "revoke", !.s = s]
  <2>1. rec \in Request BY IdleType DEF Request, Labels
  <2>2. rec.at = "revoke" /\ rec.held = {} /\ rec.s = s BY DEF Idle
  <2>3. Begin(r, rec) BY <1>5 DEF StartRevoke
  <2> QED BY <2>1, <2>2, <2>3, <1>b DEF Labels
<1>6. ASSUME NEW s \in Sessions, NEW v \in Versions, StartRefresh(r, s, v) PROVE IInv'
  <2> DEFINE rec == [Idle EXCEPT !.op = "refresh", !.at = "session", !.s = s, !.v = v, !.t = now]
  <2>1. rec \in Request BY <1>0, IdleType DEF Request, Labels, TypeOK
  <2>2. rec.at = "session" /\ rec.held = {} /\ rec.s = s BY DEF Idle
  <2>3. Begin(r, rec) BY <1>6 DEF StartRefresh
  <2> QED BY <2>1, <2>2, <2>3, <1>b DEF Labels
<1> QED BY <1>1, <1>2, <1>3, <1>4, <1>5, <1>6 DEF Start

-----------------------------------------------------------------------------
(* Moving on to another label keeps the rest of the record.                *)
LEMMA GotoSteps ==
  ASSUME IInv, NEW r \in Requests, NEW l \in Labels, Goto(r, l)
  PROVE  /\ Steps(r) /\ req'[r].at = l
         /\ req'[r].s = req[r].s /\ req'[r].next = req[r].next /\ req'[r].op = req[r].op
         /\ req'[r].todo = req[r].todo /\ req'[r].held = req[r].held
  BY Here DEF Goto, Steps, Request

(* The steps of a sign-in up to its commit.                                *)
LEMMA LoginInv ==
  ASSUME IInv, NEW r \in Requests, LoginLock(r) \/ LoginCount(r)
  PROVE  IInv'
<1>0. req \in [Requests -> Request] /\ req[r] \in Request /\ Draft(r) /\ TypeOK BY Here
<1>1. ASSUME LoginLock(r) PROVE IInv'
  <2>1. "count" \in Labels BY DEF Labels
  <2>2. Steps(r) /\ req'[r].at = "count" /\ req'[r].held = req[r].held
    BY <1>1, <2>1, GotoSteps DEF LoginLock
  <2>3. KeepsLocks(r) /\ userLock' = r /\ sessionLock' = sessionLock
    BY <1>0, <1>1 DEF LoginLock, KeepsLocks, CanLockUser, TypeOK
  <2>4. Draft(r)' BY <1>0, <2>2, <2>3 DEF Draft
  <2> QED BY <1>1, <2>2, <2>3, <2>4, MoveInv DEF LoginLock
<1>2. ASSUME LoginCount(r), Cardinality(Active) >= Limit PROVE IInv'
  BY <1>2, EndInv DEF LoginCount
<1>3. ASSUME LoginCount(r), ~(Cardinality(Active) >= Limit) PROVE IInv'
  <2>1. /\ req' = [req EXCEPT ![r].at = "insert", ![r].t = now]
        /\ UNCHANGED <<now, account, rows, locks>> /\ req[r].at = "count"
    BY <1>3 DEF LoginCount, At
  <2>2. Steps(r) /\ req'[r].at = "insert" /\ req'[r].held = req[r].held
    BY <1>0, <2>1 DEF Steps, Request, Labels, TypeOK
  <2>3. KeepsLocks(r) /\ userLock' = r /\ sessionLock' = sessionLock
    BY <1>0, <2>1 DEF KeepsLocks, TypeOK, locks, Draft
  <2>4. Cardinality(Active) < Limit BY <1>3, ActiveFinite
  <2>5. Active' = Active BY <2>1 DEF Active, Live, rows
  <2>6. Draft(r)' BY <1>0, <2>2, <2>3, <2>4, <2>5 DEF Draft
  <2> QED BY <2>1, <2>2, <2>3, <2>6, MoveInv
<1> QED BY <1>1, <1>2, <1>3

(* The insert: the account's lock keeps its room free for the new session. *)
LEMMA InsertInv ==
  ASSUME IInv, NEW r \in Requests, LoginCommit(r)
  PROVE  IInv'
<1>0. req[r] \in Request /\ Draft(r) /\ TypeOK /\ userLock = r /\ r # NoRequest
  BY Here DEF LoginCommit, Draft, At
<1>1. CASE End(r) BY <1>1, EndInv
<1>2. ASSUME NEW s \in Sessions, state[s] = "absent",
             state' = [state EXCEPT ![s] = "live"], exp' = [exp EXCEPT ![s] = req[r].t + Ttl],
             opened' = [opened EXCEPT ![s] = req[r].pw], issued' = issued \cup {<<s, 0>>},
             Done(r), UNCHANGED <<now, account, ver, refreshed>>
      PROVE  IInv'
  <2>1. Steps(r) /\ KeepsLocks(r) /\ Draft(r)' BY <1>2, DoneKeeps
  <2>2. state' \in [Sessions -> States] BY <1>0, <1>2 DEF TypeOK, States
  <2>3. exp' \in [Sessions -> Nat] /\ opened' \in [Sessions -> Nat]
    BY <1>0, <1>2 DEF TypeOK, Request
  <2>4. issued' \subseteq Sessions \X Versions BY <1>0, <1>2 DEF TypeOK, Versions
  <2>5. TypeOK' BY <1>0, <1>2, <2>1, <2>2, <2>3, <2>4 DEF TypeOK, Steps, KeepsLocks, account
  <2>6. IssuedWithinVersion' BY <1>0, <1>2 DEF IInv, IssuedWithinVersion, TypeOK, Versions
  <2>7. LeavesOthers(r) BY <1>0, <1>2, <2>1 DEF LeavesOthers, Steps, KeepsLocks, TypeOK, account
  <2> QED BY <2>1, <2>5, <2>6, <2>7, Assemble
<1> QED BY <1>1, <1>2 DEF LoginCommit

-----------------------------------------------------------------------------
(* A refresh: both locks, then the new version.                            *)
LEMMA RefreshLockInv ==
  ASSUME IInv, NEW r \in Requests, RefreshLock(r)
  PROVE  IInv'
<1> DEFINE s == req[r].s
           n == IF req[r].v = ver[s] THEN ver[s] + 1 ELSE ver[s]
<1>0. /\ req[r] \in Request /\ Draft(r) /\ TypeOK /\ req[r].at = "session"
      /\ s \in Sessions /\ ver[s] \in Versions
  BY Here DEF RefreshLock, Draft, At, TypeOK
<1>1. /\ CanLockSession(s, r) /\ state[s] = "live" /\ Refreshable(r)
      /\ sessionLock' = [sessionLock EXCEPT ![s] = r]
      /\ req' = [req EXCEPT ![r].at = "slot", ![r].next = n]
      /\ UNCHANGED <<now, account, rows, userLock>>
  BY DEF RefreshLock
<1>2. n \in Versions /\ n \in {ver[s], ver[s] + 1}
  BY <1>0, <1>1 DEF Refreshable, Retried, Versions
<1>3. /\ Steps(r) /\ req'[r].at = "slot" /\ req'[r].next = n
      /\ req'[r].s = s /\ req'[r].held = req[r].held
  BY <1>0, <1>1, <1>2, Here DEF Steps, Request, Labels
<1>4. KeepsLocks(r) /\ sessionLock'[s] = r
  BY <1>0, <1>1 DEF KeepsLocks, CanLockSession, TypeOK
<1>5. \A h \in req[r].held : sessionLock'[h] = r
  BY <1>0, <1>1 DEF Draft, TypeOK, Request
<1>6. state'[s] = "live" /\ ver' = ver BY <1>1 DEF rows
<1>7. Draft(r)' BY <1>0, <1>2, <1>3, <1>4, <1>5, <1>6 DEF Draft
<1> QED BY <1>1, <1>3, <1>4, <1>7, MoveInv

LEMMA RefreshSlotInv ==
  ASSUME IInv, NEW r \in Requests, RefreshSlot(r)
  PROVE  IInv'
<1> DEFINE s == req[r].s
<1>0. req[r] \in Request /\ Draft(r) /\ TypeOK /\ req[r].at = "slot"
  BY Here DEF RefreshSlot, At
<1>1. CASE ~active \/ (Lapsed(r) /\ Cardinality(Active) >= Limit)
  BY <1>1, EndInv DEF RefreshSlot
<1>2. ASSUME ~(~active \/ (Lapsed(r) /\ Cardinality(Active) >= Limit)) PROVE IInv'
  <2>1. /\ CanLockUser(r) /\ userLock' = r /\ Goto(r, "bump")
        /\ UNCHANGED <<now, account, rows, sessionLock>>
    BY <1>2 DEF RefreshSlot
  <2>2. "bump" \in Labels BY DEF Labels
  <2>3. /\ Steps(r) /\ req'[r].at = "bump" /\ req'[r].next = req[r].next
        /\ req'[r].s = s /\ req'[r].held = req[r].held
    BY <2>1, <2>2, GotoSteps
  <2>4. KeepsLocks(r) BY <1>0, <2>1 DEF KeepsLocks, CanLockUser, TypeOK
  <2>5. active' BY <1>2, <2>1 DEF account
  <2>6. /\ sessionLock'[s] = r /\ state'[s] = "live" /\ req[r].next \in {ver'[s], ver'[s] + 1}
        /\ s \in Sessions /\ \A h \in req[r].held : sessionLock'[h] = r
    BY <1>0, <2>1 DEF Draft, rows
  <2>7. Draft(r)' BY <2>1, <2>3, <2>5, <2>6 DEF Draft
  <2> QED BY <2>1, <2>3, <2>4, <2>7, MoveInv
<1> QED BY <1>1, <1>2

(* The commit of a refresh: the version grows under the session's lock, the *)
(* expiry under the account's.                                             *)
LEMMA RefreshCommitInv ==
  ASSUME IInv, NEW r \in Requests, RefreshCommit(r)
  PROVE  IInv'
<1> DEFINE s == req[r].s
           n == req[r].next
<1>0. /\ req[r] \in Request /\ Draft(r) /\ TypeOK /\ req[r].at = "bump"
      /\ s \in Sessions /\ n \in Versions /\ req[r].t \in Nat
  BY Here DEF RefreshCommit, At, Draft, Request
<1>1. sessionLock[s] = r /\ userLock = r /\ n \in {ver[s], ver[s] + 1}
  BY <1>0 DEF Draft
<1>2. /\ ver' = [ver EXCEPT ![s] = n]
      /\ refreshed' = IF n # ver[s] THEN [refreshed EXCEPT ![s] = req[r].t] ELSE refreshed
      /\ exp' = [exp EXCEPT ![s] = req[r].t + Ttl]
      /\ issued' = issued \cup {<<s, n>>}
      /\ Done(r) /\ UNCHANGED <<now, account, state, opened>>
  BY DEF RefreshCommit
<1>3. Steps(r) /\ KeepsLocks(r) /\ Draft(r)' BY <1>2, DoneKeeps
<1>4. ver' \in [Sessions -> Versions] /\ exp' \in [Sessions -> Nat]
  BY <1>0, <1>2 DEF TypeOK
<1>5. refreshed' \in [Sessions -> Nat] BY <1>0, <1>2 DEF TypeOK
<1>6. issued' \subseteq Sessions \X Versions BY <1>0, <1>2 DEF TypeOK
<1>7. TypeOK' BY <1>0, <1>2, <1>3, <1>4, <1>5, <1>6 DEF TypeOK, Steps, KeepsLocks, account
<1>8. IssuedWithinVersion'
  <2> SUFFICES ASSUME NEW z \in Sessions, NEW v \in Versions, <<z, v>> \in issued'
               PROVE  v <= ver'[z]
    BY DEF IssuedWithinVersion
  <2>1. ver[z] \in Nat /\ v \in Nat /\ n \in Nat BY <1>0 DEF TypeOK, Versions
  <2>2. ver[z] <= ver'[z] BY <1>0, <1>1, <1>2, <2>1 DEF TypeOK, Versions
  <2>3. CASE <<z, v>> \in issued
    <3>1. v <= ver[z] BY <2>3 DEF IInv, IssuedWithinVersion
    <3>2. ver'[z] \in Nat BY <1>4 DEF Versions
    <3> QED BY <2>1, <2>2, <3>1, <3>2
  <2>4. CASE <<z, v>> = <<s, n>>
    <3>1. ver'[z] = n /\ v = n BY <1>0, <1>2, <2>4 DEF TypeOK
    <3> QED BY <2>1, <3>1
  <2> QED BY <1>2, <2>3, <2>4
<1>9. LeavesOthers(r) BY <1>0, <1>1, <1>2, <1>3 DEF LeavesOthers, Steps, KeepsLocks, TypeOK, account
<1> QED BY <1>3, <1>7, <1>8, <1>9, Assemble

-----------------------------------------------------------------------------
(* Sessions are signed out: by a copied token, a revocation, a reset, the  *)
(* next TV box or the deletion of the account.                             *)
LEMMA RevokeInv ==
  ASSUME IInv, NEW r \in Requests, RefreshReuse(r) \/ RevokeCommit(r)
  PROVE  IInv'
<1> DEFINE s == req[r].s
<1>0. req[r] \in Request /\ Draft(r) /\ TypeOK /\ s \in Sessions
  BY Here DEF RefreshReuse, RevokeCommit, At, Draft
<1>1. /\ CanLockSession(s, r) /\ Done(r) /\ UNCHANGED <<now, account, exp, ver, refreshed, issued, opened>>
      /\ \/ state' = [state EXCEPT ![s] = "revoked"]
         \/ state' = [state EXCEPT ![s] = IF @ = "live" THEN "revoked" ELSE @]
  BY DEF RefreshReuse, RevokeCommit
<1>2. /\ state' \in [Sessions -> States]
      /\ \A z \in Sessions : state'[z] = "live" => state[z] = "live"
      /\ \A z \in Sessions : z # s => state'[z] = state[z]
  BY <1>0, <1>1 DEF TypeOK, States
<1>3. \A z \in Sessions : sessionLock[z] \in Requests \ {r} => state'[z] = state[z]
  BY <1>1, <1>2 DEF CanLockSession
<1>4. Steps(r) /\ KeepsLocks(r) /\ Draft(r)' BY <1>1, DoneKeeps
<1> QED BY <1>0, <1>1, <1>2, <1>3, <1>4, SignOutInv DEF TypeOK, account

LEMMA ResetLockInv ==
  ASSUME IInv, NEW r \in Requests, ResetLock(r)
  PROVE  IInv'
<1>0. req[r] \in Request /\ Draft(r) /\ TypeOK BY Here
<1>1. /\ CanLockUser(r) /\ userLock' = r
      /\ req' = [req EXCEPT ![r].at = "rows", ![r].todo = Live]
      /\ UNCHANGED <<now, account, rows, sessionLock>>
  BY DEF ResetLock
<1>2. /\ Steps(r) /\ req'[r].at = "rows" /\ req'[r].todo = Live /\ req'[r].held = req[r].held
  BY <1>0, <1>1, Here DEF Steps, Request, Labels, Live
<1>3. KeepsLocks(r) BY <1>0, <1>1 DEF KeepsLocks, CanLockUser, TypeOK
<1>4. Live' = Live BY <1>1 DEF Live, rows
<1>5. Draft(r)' BY <1>0, <1>1, <1>2, <1>4 DEF Draft
<1> QED BY <1>1, <1>2, <1>3, <1>5, MoveInv

LEMMA TakeRowInv ==
  ASSUME IInv, NEW r \in Requests, TakeRow(r)
  PROVE  IInv'
<1>0. req[r] \in Request /\ Draft(r) /\ TypeOK /\ req[r].at = "rows" BY Here DEF TakeRow, At
<1>1. PICK s \in req[r].todo :
        /\ CanLockSession(s, r)
        /\ IF state[s] = "deleted"
             THEN /\ req' = [req EXCEPT ![r].todo = @ \ {s}]
                  /\ UNCHANGED sessionLock
             ELSE /\ req' = [req EXCEPT ![r].todo = @ \ {s}, ![r].held = @ \cup {s}]
                  /\ sessionLock' = [sessionLock EXCEPT ![s] = r]
  BY DEF TakeRow
<1>2. s \in Sessions /\ UNCHANGED <<now, account, rows, userLock>>
  BY <1>0, <1>1 DEF Request, TakeRow
<1>3. /\ Steps(r) /\ req'[r].at = "rows" /\ req'[r].op = req[r].op
      /\ req'[r].todo = req[r].todo \ {s}
      /\ req'[r].held = IF state[s] = "deleted" THEN req[r].held ELSE req[r].held \cup {s}
  <2>1. CASE state[s] = "deleted"
    BY <1>0, <1>1, <1>2, <2>1, Here DEF Steps, Request
  <2>2. CASE state[s] # "deleted"
    <3>1. req' = [req EXCEPT ![r].todo = @ \ {s}, ![r].held = @ \cup {s}] BY <1>1, <2>2
    <3> QED BY <1>0, <1>2, <2>2, <3>1, Here DEF Steps, Request
  <2> QED BY <2>1, <2>2
<1>4. KeepsLocks(r) BY <1>0, <1>1, <1>2 DEF KeepsLocks, CanLockSession, TypeOK
<1>5. \A h \in req'[r].held : sessionLock'[h] = r
  BY <1>0, <1>1, <1>2, <1>3 DEF Draft, TypeOK, Request
<1>6. Live \subseteq req[r].todo \cup req[r].held => Live' \subseteq req'[r].todo \cup req'[r].held
  BY <1>2, <1>3 DEF Live, rows
<1>7. Draft(r)' BY <1>0, <1>2, <1>3, <1>5, <1>6 DEF Draft
<1> QED BY <1>2, <1>3, <1>4, <1>7, MoveInv

(* Writing the rows a request holds.                                       *)
LEMMA WriteHeld ==
  ASSUME IInv, NEW r \in Requests, NEW st \in {"revoked", "deleted"}, Write(r, st)
  PROVE  /\ state' \in [Sessions -> States]
         /\ \A s \in Sessions : state'[s] = "live" => state[s] = "live"
         /\ \A s \in Sessions : sessionLock[s] \in Requests \ {r} => state'[s] = state[s]
  BY Here DEF Write, TypeOK, States, Draft

LEMMA WriteInv ==
  ASSUME IInv, NEW r \in Requests,
         ResetCommit(r) \/ TvRevoke(r) \/ DeleteRows(r) \/ DeleteCommit(r)
  PROVE  IInv'
<1>0. req[r] \in Request /\ Draft(r) /\ TypeOK BY Here
<1>1. ASSUME ResetCommit(r) PROVE IInv'
  <2>1. Steps(r) /\ KeepsLocks(r) /\ Draft(r)' BY <1>1, DoneKeeps DEF ResetCommit
  <2>2. active' \in BOOLEAN /\ erased' \in BOOLEAN /\ pw' \in Nat /\ active' = active
    BY <1>0, <1>1 DEF ResetCommit, TypeOK
  <2> QED BY <1>1, <2>1, <2>2, WriteHeld, SignOutInv DEF ResetCommit
<1>2. ASSUME TvRevoke(r) PROVE IInv'
  <2>1. /\ Release(r) /\ req' = [req EXCEPT ![r].at = "user", ![r].held = {}]
    BY <1>2 DEF TvRevoke
  <2>2. Steps(r) /\ req'[r].at = "user" /\ req'[r].held = {}
    BY <1>0, <2>1, Here DEF Steps, Request, Labels
  <2>3. KeepsLocks(r) BY <1>0, <2>1 DEF KeepsLocks, Release, TypeOK
  <2>4. Draft(r)' BY <2>2 DEF Draft
  <2>5. active' \in BOOLEAN /\ erased' \in BOOLEAN /\ pw' \in Nat /\ active' = active
    BY <1>0, <1>2 DEF TvRevoke, TypeOK, account
  <2> QED BY <1>2, <2>2, <2>3, <2>4, <2>5, WriteHeld, SignOutInv DEF TvRevoke
<1>3. ASSUME DeleteRows(r) PROVE IInv'
  <2>1. "erase" \in Labels BY DEF Labels
  <2>2. Steps(r) /\ req'[r].at = "erase" /\ req'[r].held = req[r].held
    BY <1>3, <2>1, GotoSteps DEF DeleteRows
  <2>3. KeepsLocks(r) /\ sessionLock' = sessionLock
    BY <1>0, <1>3 DEF DeleteRows, KeepsLocks, locks, TypeOK
  <2>4. Draft(r)' BY <1>0, <2>2, <2>3 DEF Draft
  <2> QED BY <1>3, <2>2, <2>3, <2>4, MoveInv DEF DeleteRows
<1>4. ASSUME DeleteCommit(r) PROVE IInv'
  <2>1. Steps(r) /\ KeepsLocks(r) /\ Draft(r)' BY <1>4, DoneKeeps DEF DeleteCommit
  <2>2. active' \in BOOLEAN /\ erased' \in BOOLEAN BY <1>4 DEF DeleteCommit
  <2>3. pw' \in Nat BY <1>0, <1>4 DEF DeleteCommit, TypeOK
  <2>4. userLock \notin Requests \ {r} BY <1>4 DEF DeleteCommit, CanLockUser
  <2> QED BY <1>4, <2>1, <2>2, <2>3, <2>4, WriteHeld, SignOutInv DEF DeleteCommit
<1> QED BY <1>1, <1>2, <1>3, <1>4

-----------------------------------------------------------------------------
(* The administrator and the clock disturb nobody who holds the account.   *)
LEMMA ToggleInv == IInv /\ ToggleActive => IInv'
<1> SUFFICES ASSUME IInv, ToggleActive PROVE IInv' OBVIOUS
<1>0. TypeOK BY DEF IInv
<1>1. active' \in BOOLEAN BY DEF ToggleActive
<1>2. TypeOK' BY <1>0, <1>1 DEF ToggleActive, TypeOK, rows, locks
<1>3. IssuedWithinVersion' BY DEF IInv, IssuedWithinVersion, ToggleActive, rows
<1>4. LeavesOthers(NoRequest)
  BY DEF LeavesOthers, ToggleActive, rows, locks
<1> QED BY <1>2, <1>3, <1>4, Assemble

LEMMA TickInv == IInv /\ Tick => IInv'
<1> SUFFICES ASSUME IInv, Tick PROVE IInv' OBVIOUS
<1>0. TypeOK BY DEF IInv
<1>1. now' \in Nat BY <1>0 DEF Tick, TypeOK
<1>2. TypeOK' BY <1>0, <1>1 DEF Tick, TypeOK, account, rows, locks
<1>3. IssuedWithinVersion' BY DEF IInv, IssuedWithinVersion, Tick, rows
<1>4. Live' = Live /\ Active' \subseteq Active
  BY <1>0 DEF Live, Active, Tick, rows, TypeOK
<1>5. LeavesOthers(NoRequest)
  BY <1>4 DEF LeavesOthers, Tick, account, rows, locks
<1> QED BY <1>2, <1>3, <1>5, Assemble

LEMMA StutterInv == IInv /\ UNCHANGED vars => IInv'
<1> SUFFICES ASSUME IInv, UNCHANGED vars PROVE IInv' OBVIOUS
<1>1. TypeOK' BY DEF IInv, TypeOK, vars, account, rows, locks
<1>2. IssuedWithinVersion' BY DEF IInv, IssuedWithinVersion, vars, rows
<1>3. LeavesOthers(NoRequest)
  BY DEF LeavesOthers, Live, Active, vars, account, rows, locks
<1> QED BY <1>1, <1>2, <1>3, Assemble

(* The steps that end a request without a write.                           *)
Leaves(r) == RefreshRefused(r) \/ Abort(r) \/ DeadlockAbort(r)

LEMMA LeavesEnd == ASSUME NEW r, Leaves(r) PROVE End(r)
  BY DEF Leaves, RefreshRefused, Abort, DeadlockAbort

LEMMA NextInv == IInv /\ [Next]_vars => IInv'
<1> SUFFICES ASSUME IInv, [Next]_vars PROVE IInv' OBVIOUS
<1>1. ASSUME NEW r \in Requests, Start(r) PROVE IInv' BY <1>1, StartInv
<1>2. ASSUME NEW r \in Requests, Leaves(r) PROVE IInv' BY <1>2, LeavesEnd, EndInv
<1>3. ASSUME NEW r \in Requests, Step(r) PROVE IInv'
  <2>1. CASE LoginLock(r) \/ LoginCount(r) BY <2>1, LoginInv
  <2>2. CASE LoginCommit(r) BY <2>2, InsertInv
  <2>3. CASE RefreshLock(r) BY <2>3, RefreshLockInv
  <2>4. CASE RefreshRefused(r) BY <1>2, <2>4 DEF Leaves
  <2>5. CASE RefreshReuse(r) \/ RevokeCommit(r) BY <2>5, RevokeInv
  <2>6. CASE RefreshSlot(r) BY <2>6, RefreshSlotInv
  <2>7. CASE RefreshCommit(r) BY <2>7, RefreshCommitInv
  <2>8. CASE ResetLock(r) BY <2>8, ResetLockInv
  <2>9. CASE TakeRow(r) BY <2>9, TakeRowInv
  <2>10. CASE ResetCommit(r) \/ TvRevoke(r) \/ DeleteRows(r) \/ DeleteCommit(r)
    BY <2>10, WriteInv
  <2> QED
    BY <1>3, <2>1, <2>2, <2>3, <2>4, <2>5, <2>6, <2>7, <2>8, <2>9, <2>10 DEF Step
<1>4. CASE ToggleActive BY <1>4, ToggleInv
<1>5. CASE Tick BY <1>5, TickInv
<1>6. CASE UNCHANGED vars BY <1>6, StutterInv
<1> QED BY <1>1, <1>2, <1>3, <1>4, <1>5, <1>6 DEF Next, Leaves

(* What each request relies on between its steps holds whatever runs       *)
(* beside it: the locks of session.py and of the UPDATE statements suffice.*)
THEOREM Invariance == Spec => []IInv
<1>1. Init => IInv BY InitInv
<1>2. IInv /\ [Next]_vars => IInv' BY NextInv
<1> QED BY <1>1, <1>2, PTL DEF Spec

(* Rows, locks and requests keep their types.                              *)
THEOREM TypeCorrect == Spec => []TypeOK
<1>1. IInv => TypeOK BY DEF IInv
<1> QED BY <1>1, Invariance, PTL

(* No device holds a token newer than token_version: refresh_session never *)
(* takes the newest token for a copy.                                      *)
THEOREM VersionsKept == Spec => []IssuedWithinVersion
<1>1. IInv => IssuedWithinVersion BY DEF IInv
<1> QED BY <1>1, Invariance, PTL

-----------------------------------------------------------------------------
(* No session comes to life, no expiry, version or password changes.       *)
Tame == UNCHANGED <<exp, ver, pw>> /\ \A s \in Sessions : state'[s] = "live" => state[s] = "live"

(* Three commits apart, every step is tame.                                *)
LEMMA Effects ==
  ASSUME IInv, Next
  PROVE  Tame \/ \E r \in Requests : LoginCommit(r) \/ RefreshCommit(r) \/ ResetCommit(r)
<1>0. TypeOK BY DEF IInv
<1>1. ASSUME UNCHANGED <<now, account, rows>> PROVE Tame BY <1>1 DEF Tame, account, rows
<1>2. ASSUME NEW r \in Requests, Start(r) PROVE Tame
  BY <1>2, <1>1 DEF Start, StartLogin, StartReset, StartTv, StartDelete, StartRevoke, StartRefresh, Begin
<1>3. ASSUME NEW r \in Requests, End(r) PROVE Tame BY <1>3, <1>1 DEF End
<1>4. ASSUME NEW r \in Requests, Leaves(r) PROVE Tame BY <1>3, <1>4, LeavesEnd
<1>5. ASSUME NEW r \in Requests, Step(r)
      PROVE  Tame \/ LoginCommit(r) \/ RefreshCommit(r) \/ ResetCommit(r)
  <2>1. CASE LoginLock(r) \/ LoginCount(r) BY <1>1, <1>3, <2>1 DEF LoginLock, LoginCount
  <2>2. CASE RefreshLock(r) BY <1>1, <2>2 DEF RefreshLock
  <2>3. CASE RefreshRefused(r) BY <1>4, <2>3 DEF Leaves
  <2>4. CASE RefreshSlot(r) BY <1>1, <1>3, <2>4 DEF RefreshSlot
  <2>5. CASE RefreshReuse(r) \/ RevokeCommit(r)
    BY <1>0, <2>5 DEF RefreshReuse, RevokeCommit, Tame, TypeOK, account
  <2>6. CASE ResetLock(r) BY <1>1, <2>6 DEF ResetLock
  <2>7. CASE TakeRow(r) BY <1>1, <2>7 DEF TakeRow
  <2>8. CASE TvRevoke(r) \/ DeleteCommit(r)
    BY <1>0, <2>8, WriteHeld DEF TvRevoke, DeleteCommit, Tame, account
  <2>9. CASE DeleteRows(r) BY <1>1, <2>9 DEF DeleteRows
  <2> QED BY <1>5, <2>1, <2>2, <2>3, <2>4, <2>5, <2>6, <2>7, <2>8, <2>9 DEF Step
<1>6. ASSUME ToggleActive \/ Tick PROVE Tame
  BY <1>6 DEF ToggleActive, Tick, Tame, account, rows
<1> QED BY <1>2, <1>4, <1>5, <1>6 DEF Next, Leaves

(* A sign-in adds one device to fewer than Limit: the account's row lock   *)
(* keeps its count valid until the commit.                                 *)
LEMMA LoginFits ==
  ASSUME IInv, NEW r \in Requests, LoginCommit(r),
         NEW s \in Sessions, state[s] = "absent", state'[s] = "live"
  PROVE  Cardinality(Active') <= Limit
<1>1. TypeOK /\ Cardinality(Active) < Limit
  BY Here DEF LoginCommit, Draft, At
<1>2. PICK z \in Sessions : /\ state' = [state EXCEPT ![z] = "live"]
                            /\ exp' = [exp EXCEPT ![z] = req[r].t + Ttl]
                            /\ now' = now
  <2>1. ~End(r) BY DEF End, rows
  <2> QED BY <2>1 DEF LoginCommit
<1>3. Active' \subseteq Active \cup {z}
  BY <1>1, <1>2 DEF Active, Live, TypeOK
<1>4. IsFiniteSet(Active \cup {z}) /\ Cardinality(Active \cup {z}) <= Cardinality(Active) + 1
  <2>1. IsFiniteSet(Active) /\ Cardinality(Active) \in Nat BY ActiveFinite
  <2>2. /\ IsFiniteSet(Active \cup {z})
        /\ \/ Cardinality(Active \cup {z}) = Cardinality(Active)
           \/ Cardinality(Active \cup {z}) = Cardinality(Active) + 1
    BY <2>1, FS_AddElement
  <2> QED BY <2>1, <2>2
<1>5. Cardinality(Active') <= Cardinality(Active \cup {z}) BY <1>3, <1>4, FS_Subset
<1>6. Cardinality(Active') \in Nat /\ Cardinality(Active \cup {z}) \in Nat
  BY <1>3, <1>4, FS_Subset, FS_CardinalityType
<1> QED BY <1>1, <1>4, <1>5, <1>6, ActiveFinite

(* The device limit at a sign-in (create_session), for every limit and any *)
(* number of refreshes and sign-ins beside it.                             *)
THEOREM DeviceLimit == Spec => LoginWithinLimit
<1>1. IInv /\ [Next]_vars =>
        [\A s \in Sessions :
           state[s] = "absent" /\ state'[s] = "live" => Cardinality(Active') <= Limit]_vars
  <2> SUFFICES ASSUME IInv, Next, NEW s \in Sessions, state[s] = "absent", state'[s] = "live"
               PROVE  Cardinality(Active') <= Limit
    OBVIOUS
  <2>1. PICK r \in Requests : LoginCommit(r) \/ RefreshCommit(r) \/ ResetCommit(r)
    BY Effects DEF Tame
  <2>2. ~RefreshCommit(r) BY DEF RefreshCommit
  <2>3. ~ResetCommit(r) BY WriteHeld DEF ResetCommit
  <2> QED BY <2>1, <2>2, <2>3, LoginFits
<1> QED BY <1>1, Invariance, PTL DEF Spec, LoginWithinLimit

(* A refresh that waited for its locks finds its session still live and    *)
(* its account still active when it commits.                               *)
THEOREM RefreshedAlive == Spec => RefreshAlive
<1>1. IInv /\ [Next]_vars =>
        [\A s \in Sessions :
           state[s] # "absent" /\ (exp'[s] # exp[s] \/ ver'[s] # ver[s])
             => state[s] = "live" /\ active]_vars
  <2> SUFFICES ASSUME IInv, Next, NEW s \in Sessions,
                      state[s] # "absent", exp'[s] # exp[s] \/ ver'[s] # ver[s]
               PROVE  state[s] = "live" /\ active
    OBVIOUS
  <2>0. TypeOK BY DEF IInv
  <2>1. PICK r \in Requests : LoginCommit(r) \/ RefreshCommit(r) \/ ResetCommit(r)
    BY Effects DEF Tame
  <2>2. ~LoginCommit(r) BY <2>0 DEF LoginCommit, End, rows, TypeOK
  <2>3. ~ResetCommit(r) BY DEF ResetCommit
  <2>4. Draft(r) /\ req[r].at = "bump" /\ s = req[r].s
    BY <2>0, <2>1, <2>2, <2>3, Here DEF RefreshCommit, At, TypeOK
  <2> QED BY <2>4 DEF Draft
<1> QED BY <1>1, Invariance, PTL DEF Spec, RefreshAlive

(* A reset reaches every session: it writes the account first, so no       *)
(* sign-in can add one behind its snapshot.                                *)
THEOREM ResetComplete == Spec => ResetSignsOut
<1>1. IInv /\ [Next]_vars => [pw' # pw => \A s \in Sessions : state'[s] # "live"]_vars
  <2> SUFFICES ASSUME IInv, Next, pw' # pw, NEW s \in Sessions PROVE state'[s] # "live"
    OBVIOUS
  <2>1. PICK r \in Requests : LoginCommit(r) \/ RefreshCommit(r) \/ ResetCommit(r)
    BY Effects DEF Tame
  <2>2. ResetCommit(r) BY <2>1 DEF LoginCommit, End, RefreshCommit, account
  <2>3. Draft(r) /\ req[r].at = "rows" /\ req[r].op = "reset" /\ req[r].todo = {}
    BY <2>2, Here DEF ResetCommit, RowsTaken, At
  <2>4. Live \subseteq req[r].held BY <2>3 DEF Draft
  <2> QED BY <2>2, <2>4 DEF ResetCommit, Write, Live
<1> QED BY <1>1, Invariance, PTL DEF Spec, ResetSignsOut

-----------------------------------------------------------------------------
(* Who may have made a session that is live: not a sign-in that is about   *)
(* to make one, nor one of a TV box whose snapshot missed it.              *)
MayOwn(r, s) ==
  /\ req[r].at \notin {"user", "count", "insert"}
  /\ req[r].at = "rows" /\ req[r].op = "tv" => s \in req[r].todo \cup req[r].held

(* The live sessions of a TV code were made by as many requests.           *)
Owners == {f \in [Live -> Requests] :
             /\ \A s \in Live : MayOwn(f[s], s)
             /\ \A s, t \in Live : f[s] = f[t] => s = t}

Owned == TvAccount => Owners # {}

LEMMA InitOwned == Init => Owned
<1> SUFFICES ASSUME Init PROVE Owners # {} BY DEF Owned
<1>1. Live = {} BY DEF Init, Live
<1>2. [s \in {} |-> NoRequest] \in Owners BY <1>1 DEF Owners
<1> QED BY <1>2

(* A step that makes no session, and whose request may own what it owned.  *)
LEMMA StillOwned ==
  ASSUME Owned, NEW r, \A q \in Requests \ {r} : req'[q] = req[q],
         Live' \subseteq Live, TvAccount' => TvAccount,
         \A s \in Live' : MayOwn(r, s) => MayOwn(r, s)'
  PROVE  Owned'
<1> SUFFICES ASSUME TvAccount' PROVE Owners' # {} BY DEF Owned
<1>1. PICK f \in [Live -> Requests] :
        /\ \A s \in Live : MayOwn(f[s], s)
        /\ \A s, t \in Live : f[s] = f[t] => s = t
  BY DEF Owned, Owners
<1>2. PICK g : g \in [Live' -> Requests] /\ \A s \in Live' : g[s] = f[s]
  <2>1. \A s \in Live' : f[s] \in Requests BY <1>1
  <2> WITNESS [s \in Live' |-> f[s]]
  <2> QED BY <2>1
<1>3. ASSUME NEW s \in Live', NEW q \in Requests, MayOwn(q, s) PROVE MayOwn(q, s)'
  BY <1>3 DEF MayOwn
<1>4. \A s \in Live' : MayOwn(f[s], s)' BY <1>1, <1>3
<1>5. g \in Owners' BY <1>1, <1>2, <1>4 DEF Owners, MayOwn
<1> QED BY <1>5

(* A request that is done may own anything.                                *)
LEMMA DoneOwned ==
  ASSUME IInv, Owned, NEW r \in Requests, Done(r), pw' \in {pw, pw + 1}, Live' \subseteq Live
  PROVE  Owned'
<1>1. Steps(r) /\ req'[r] = Idle BY DoneKeeps
<1>2. \A s : MayOwn(r, s)' BY <1>1 DEF MayOwn, Idle
<1>3. TvAccount' => TvAccount BY DEF TvAccount, IInv, TypeOK
<1> QED BY <1>1, <1>2, <1>3, StillOwned DEF Steps

LEMMA EndOwned ==
  ASSUME IInv, Owned, NEW r \in Requests, End(r)
  PROVE  Owned'
  BY DoneOwned DEF End, account, rows, Live

(* Whoever signs a TV box in begins with all sessions that are live.       *)
LEMMA StartOwned ==
  ASSUME IInv, Owned, NEW r \in Requests, Start(r)
  PROVE  Owned'
<1>0. req \in [Requests -> Request] BY Here
<1>1. ASSUME NEW rec, Begin(r, rec), rec.at \notin {"user", "count", "insert"},
             rec.at = "rows" /\ rec.op = "tv" => rec.todo = Live
      PROVE  Owned'
  <2>1. /\ req'[r] = rec /\ \A q \in Requests \ {r} : req'[q] = req[q]
        /\ Live' = Live /\ (TvAccount' <=> TvAccount)
    BY <1>0, <1>1 DEF Begin, Live, TvAccount, account, rows
  <2>2. \A s \in Live' : MayOwn(r, s)' BY <1>1, <2>1 DEF MayOwn
  <2> QED BY <2>1, <2>2, StillOwned
<1>2. CASE StartLogin(r)
  <2>1. ~TvAccount' BY <1>2 DEF StartLogin, Begin, TvAccount, account
  <2> QED BY <2>1 DEF Owned
<1>3. CASE StartReset(r) BY <1>1, <1>3 DEF StartReset, Idle
<1>4. CASE StartTv(r) BY <1>1, <1>4 DEF StartTv, Idle
<1>5. CASE StartDelete(r) BY <1>1, <1>5 DEF StartDelete, Idle
<1>6. ASSUME NEW s \in Sessions, StartRevoke(r, s) PROVE Owned' BY <1>1, <1>6 DEF StartRevoke, Idle
<1>7. ASSUME NEW s \in Sessions, NEW v \in Versions, StartRefresh(r, s, v) PROVE Owned'
  BY <1>1, <1>7 DEF StartRefresh, Idle
<1> QED BY <1>2, <1>3, <1>4, <1>5, <1>6, <1>7 DEF Start

(* A step between labels, none of which is a snapshot's.                   *)
LEMMA MoveOwned ==
  ASSUME IInv, Owned, NEW r \in Requests, UNCHANGED <<now, account, rows>>,
         \/ LoginLock(r) \/ LoginCount(r) \/ RefreshLock(r) \/ RefreshSlot(r)
         \/ ResetLock(r) \/ TakeRow(r) \/ DeleteRows(r)
  PROVE  Owned'
<1>0. req \in [Requests -> Request] BY Here
<1>1. Live' = Live /\ (TvAccount' <=> TvAccount) BY DEF Live, TvAccount, account, rows
<1>2. ASSUME NEW l \in Labels, Goto(r, l), l \notin {"user", "insert", "rows"},
             l = "count" => req[r].at = "user"
      PROVE  Owned'
  <2>1. Steps(r) /\ req'[r].at = l BY <1>2, GotoSteps
  <2>2. \A s : MayOwn(r, s) => MayOwn(r, s)' BY <1>2, <2>1 DEF MayOwn
  <2> QED BY <1>1, <2>1, <2>2, StillOwned DEF Steps
<1>3. CASE LoginLock(r) BY <1>2, <1>3 DEF LoginLock, At, Labels
<1>4. CASE LoginCount(r)
  <2>1. CASE End(r) BY <2>1, EndOwned
  <2>2. CASE ~End(r)
    <3>1. req' = [req EXCEPT ![r].at = "insert", ![r].t = now] BY <1>4, <2>2 DEF LoginCount
    <3>2. \A q \in Requests \ {r} : req'[q] = req[q] BY <1>0, <3>1
    <3>3. \A s : ~MayOwn(r, s) BY <1>4 DEF LoginCount, At, MayOwn
    <3> QED BY <1>1, <3>2, <3>3, StillOwned
  <2> QED BY <2>1, <2>2
<1>5. CASE RefreshLock(r)
  <2>1. \A q \in Requests \ {r} : req'[q] = req[q] BY <1>0, <1>5 DEF RefreshLock
  <2>2. req'[r].at = "slot" BY <1>0, <1>5 DEF RefreshLock, Request
  <2>3. \A s : MayOwn(r, s)' BY <2>2 DEF MayOwn
  <2> QED BY <1>1, <2>1, <2>3, StillOwned
<1>6. CASE RefreshSlot(r)
  <2>1. End(r) \/ Goto(r, "bump") BY <1>6 DEF RefreshSlot
  <2> QED BY <1>2, <2>1, EndOwned DEF Labels
<1>7. CASE ResetLock(r)
  <2>1. \A q \in Requests \ {r} : req'[q] = req[q] BY <1>0, <1>7 DEF ResetLock
  <2>2. req'[r].at = "rows" /\ req'[r].todo = Live BY <1>0, <1>7 DEF ResetLock, Request
  <2>3. \A s \in Live' : MayOwn(r, s)' BY <1>1, <2>2 DEF MayOwn
  <2> QED BY <1>1, <2>1, <2>3, StillOwned
<1>8. CASE TakeRow(r)
  <2>1. PICK t \in req[r].todo :
          /\ \/ state[t] = "deleted" /\ req' = [req EXCEPT ![r].todo = @ \ {t}]
             \/ req' = [req EXCEPT ![r].todo = @ \ {t}, ![r].held = @ \cup {t}]
          /\ At(r, "rows")
    BY <1>8 DEF TakeRow
  <2>2. /\ \A q \in Requests \ {r} : req'[q] = req[q]
        /\ req'[r].at = req[r].at /\ req'[r].op = req[r].op
        /\ req'[r].todo = req[r].todo \ {t}
        /\ \/ state[t] = "deleted" /\ req'[r].held = req[r].held
           \/ req'[r].held = req[r].held \cup {t}
    BY <1>0, <2>1 DEF Request
  <2>3. \A s \in Live' : MayOwn(r, s) => MayOwn(r, s)' BY <1>1, <2>2 DEF MayOwn, Live
  <2> QED BY <1>1, <2>2, <2>3, StillOwned
<1>9. CASE DeleteRows(r) BY <1>2, <1>9 DEF DeleteRows, Labels
<1> QED BY <1>3, <1>4, <1>5, <1>6, <1>7, <1>8, <1>9

(* A sign-in makes one session, and has none that is live: its own former  *)
(* ones were in its snapshot.                                              *)
LEMMA LoginOwned ==
  ASSUME IInv, Owned, NEW r \in Requests, LoginCommit(r)
  PROVE  Owned'
<1>1. CASE End(r) BY <1>1, EndOwned
<1>2. CASE ~End(r)
  <2> SUFFICES ASSUME TvAccount' PROVE Owners' # {} BY DEF Owned
  <2>1. PICK z \in Sessions :
          state[z] = "absent" /\ state' = [state EXCEPT ![z] = "live"] /\ Done(r) /\ UNCHANGED account
    BY <1>2 DEF LoginCommit
  <2>2. z \notin Live /\ Live' = Live \cup {z} BY <2>1, Here DEF Live, TypeOK
  <2>3. PICK f \in [Live -> Requests] :
          /\ \A s \in Live : MayOwn(f[s], s)
          /\ \A s, t \in Live : f[s] = f[t] => s = t
    BY <2>1 DEF Owned, Owners, TvAccount, account
  <2>4. \A s \in Live : f[s] # r
    <3>1. \A s : ~MayOwn(r, s) BY DEF LoginCommit, At, MayOwn
    <3> QED BY <2>3, <3>1
  <2>5. Steps(r) /\ req'[r] = Idle BY <2>1, DoneKeeps
  <2>6. PICK g : g \in [Live' -> Requests] /\ g[z] = r /\ \A s \in Live : g[s] = f[s]
    <3> WITNESS [s \in Live' |-> IF s = z THEN r ELSE f[s]]
    <3> QED BY <2>2
  <2>7. \A s, t \in Live' : g[s] = g[t] => s = t BY <2>2, <2>3, <2>4, <2>6
  <2>8. \A s \in Live' : MayOwn(g[s], s)'
    <3>1. MayOwn(r, z)' BY <2>5 DEF MayOwn, Idle
    <3>2. ASSUME NEW s \in Live PROVE MayOwn(f[s], s)' BY <2>3, <2>4, <2>5 DEF MayOwn, Steps
    <3> QED BY <2>2, <2>6, <3>1, <3>2
  <2>9. g \in Owners' BY <2>6, <2>7, <2>8 DEF Owners, MayOwn
  <2> QED BY <2>9
<1> QED BY <1>1, <1>2

(* A TV box that has signed all of its snapshot out is left with none.     *)
LEMMA TvRevokeOwned ==
  ASSUME IInv, Owned, NEW r \in Requests, TvRevoke(r)
  PROVE  Owned'
<1>0. req \in [Requests -> Request] BY Here
<1>1. \A q \in Requests \ {r} : req'[q] = req[q] BY <1>0 DEF TvRevoke
<1>2. Live' = Live \ req[r].held BY DEF TvRevoke, Write, Live
<1>3. req[r].at = "rows" /\ req[r].op = "tv" /\ req[r].todo = {} BY DEF TvRevoke, RowsTaken, At
<1>4. \A s \in Live' : ~MayOwn(r, s) BY <1>2, <1>3 DEF MayOwn
<1>5. TvAccount' <=> TvAccount BY DEF TvRevoke, TvAccount, account
<1> QED BY <1>1, <1>2, <1>4, <1>5, StillOwned

LEMMA NextOwned ==
  ASSUME IInv, Owned, [Next]_vars
  PROVE  Owned'
<1>0. TypeOK BY DEF IInv
<1>1. ASSUME UNCHANGED <<state, pw, req>> PROVE Owned'
  <2>1. Live' = Live /\ (TvAccount' <=> TvAccount) BY <1>1 DEF Live, TvAccount
  <2>2. \A s : MayOwn(NoRequest, s) => MayOwn(NoRequest, s)' BY <1>1 DEF MayOwn
  <2> QED BY <1>1, <2>1, <2>2, StillOwned
<1>2. ASSUME NEW r \in Requests, Start(r) PROVE Owned' BY <1>2, StartOwned
<1>3. ASSUME NEW r \in Requests, Leaves(r) PROVE Owned' BY <1>3, LeavesEnd, EndOwned
<1>4. ASSUME NEW r \in Requests, Step(r) PROVE Owned'
  <2>1. CASE LoginCommit(r) BY <2>1, LoginOwned
  <2>2. CASE TvRevoke(r) BY <2>2, TvRevokeOwned
  <2>3. CASE RefreshRefused(r) BY <1>3, <2>3 DEF Leaves
  <2>4. CASE RefreshReuse(r) \/ RefreshCommit(r) \/ RevokeCommit(r)
    <3>1. Live' \subseteq Live /\ pw' = pw /\ Done(r)
      BY <1>0, <2>4 DEF RefreshReuse, RefreshCommit, RevokeCommit, Live, TypeOK, account
    <3> QED BY <3>1, DoneOwned
  <2>5. CASE ResetCommit(r) \/ DeleteCommit(r)
    <3>1. Live' \subseteq Live /\ pw' \in {pw, pw + 1} /\ Done(r)
      BY <2>5 DEF ResetCommit, DeleteCommit, Write, Live
    <3> QED BY <3>1, DoneOwned
  <2>6. CASE LoginLock(r) \/ LoginCount(r)
    BY <2>6, MoveOwned DEF LoginLock, LoginCount, End
  <2>7. CASE RefreshLock(r) \/ RefreshSlot(r)
    BY <2>7, MoveOwned DEF RefreshLock, RefreshSlot, End
  <2>8. CASE ResetLock(r) \/ TakeRow(r) \/ DeleteRows(r)
    BY <2>8, MoveOwned DEF ResetLock, TakeRow, DeleteRows
  <2> QED BY <1>4, <2>1, <2>2, <2>3, <2>4, <2>5, <2>6, <2>7, <2>8 DEF Step
<1>5. CASE ToggleActive \/ Tick \/ UNCHANGED vars
  BY <1>1, <1>5 DEF ToggleActive, Tick, vars, account, rows
<1> QED BY <1>2, <1>3, <1>4, <1>5 DEF Next, Leaves

(* As many owners as sessions.                                             *)
LEMMA InvOverlap ==
  ASSUME IsFiniteSet(Requests), Owned
  PROVE  TvBoxesOverlap
<1> SUFFICES ASSUME TvAccount PROVE Cardinality(Live) <= Cardinality(Requests)
  BY DEF TvBoxesOverlap
<1>1. PICK f \in [Live -> Requests] : \A s, t \in Live : f[s] = f[t] => s = t
  BY DEF Owned, Owners
<1>2. f \in Injection(Live, Requests) BY <1>1 DEF Injection, IsInjective
<1> QED BY <1>2, FS_Injection

(* A TV code never has more boxes than sign-ins that overlapped, for every *)
(* number of them: each kicks the boxes that were there when it began.     *)
THEOREM BoxesOverlap == ASSUME IsFiniteSet(Requests) PROVE Spec => []TvBoxesOverlap
<1>1. Init => IInv /\ Owned BY InitInv, InitOwned
<1>2. IInv /\ Owned /\ [Next]_vars => IInv' /\ Owned' BY NextInv, NextOwned
<1>3. Owned => TvBoxesOverlap BY InvOverlap
<1> QED BY <1>1, <1>2, <1>3, PTL DEF Spec
=============================================================================
