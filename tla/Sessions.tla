------------------------------ MODULE Sessions ------------------------------
(***************************************************************************)
(* The sessions of one account: sign-in under the device limit, refresh    *)
(* with token rotation, revocation, password reset, the sign-in of a TV    *)
(* box and the deletion of the account (app/services/session.py, auth.py,  *)
(* tv_access_codes.py, account.py).                                        *)
(*                                                                         *)
(* Every request is one or two database transactions.  A request compares  *)
(* times it read at different moments, so the clock is a variable and a    *)
(* time a request has read stays in its record.                            *)
(***************************************************************************)
EXTENDS Integers, FiniteSets

CONSTANTS
  Requests,   \* concurrent web requests
  Sessions,   \* primary keys of sessions
  Limit,      \* max_active_sessions_per_user
  Ttl,        \* access_token_expire_minutes
  Grace,      \* session_refresh_grace_days; beyond MaxNow for None
  Window,     \* REFRESH_RETRY_WINDOW
  Passwords,  \* whose account: 0 for a TV access code's, whose password nobody knows
  MaxNow, MaxVer, MaxPw,   \* bounds: time, token versions, password resets
  NoRequest, NoSession

ASSUME SessionConstants ==
  /\ IsFiniteSet(Sessions) /\ NoSession \notin Sessions
  /\ NoRequest \notin Requests
  /\ Limit \in Nat \ {0} /\ Ttl \in Nat \ {0} /\ Grace \in Nat /\ Window \in Nat
  /\ Passwords \subseteq {0, 1}
  /\ MaxNow \in Nat /\ MaxVer \in Nat /\ MaxPw \in Nat

VARIABLES
  now,         \* the clock
  active,      \* users.is_active
  erased,      \* the account's email and sign-in identities are gone
  pw,          \* users.password_hash: 0 for a TV code's account, else counted up
  state,       \* of a session row; "live" means revoked_at is NULL
  exp,         \* expires_at
  ver,         \* token_version
  refreshed,   \* refreshed_at, 0 for NULL
  issued,      \* access tokens in circulation: <<session, version>>
  opened,      \* history: the password a session was opened with
  userLock,    \* row lock on the account
  sessionLock, \* row locks on sessions
  req          \* what each request is doing

rows  == <<state, exp, ver, refreshed, issued, opened>>
locks == <<userLock, sessionLock>>
account == <<active, erased, pw>>
vars  == <<now, account, rows, locks, req>>

Versions == 0..MaxVer
States   == {"absent", "live", "revoked", "deleted"}
Labels   == {"idle", "user", "count", "insert", "session", "slot", "bump", "revoke",
             "reset", "rows", "erase"}

Request == [op: {"none", "login", "refresh", "revoke", "reset", "tv", "delete"}, at: Labels,
            s: Sessions \cup {NoSession}, v: Versions, next: Versions,
            t: Nat, pw: Nat, todo: SUBSET Sessions, held: SUBSET Sessions]

Idle == [op |-> "none", at |-> "idle", s |-> NoSession, v |-> 0, next |-> 0,
         t |-> 0, pw |-> 0, todo |-> {}, held |-> {}]

Init ==
  /\ now = 1 /\ active = TRUE /\ erased = FALSE /\ pw \in Passwords
  /\ state = [s \in Sessions |-> "absent"]
  /\ exp = [s \in Sessions |-> 0] /\ ver = [s \in Sessions |-> 0]
  /\ refreshed = [s \in Sessions |-> 0] /\ issued = {}
  /\ opened = [s \in Sessions |-> 0]
  /\ userLock = NoRequest
  /\ sessionLock = [s \in Sessions |-> NoRequest]
  /\ req = [r \in Requests |-> Idle]

-----------------------------------------------------------------------------
TvAccount == pw = 0   \* a code's user gets a random password

Live   == {s \in Sessions : state[s] = "live"}
Active == {s \in Live : exp[s] > now}

At(r, l)   == req[r].at = l
Goto(r, l) == req' = [req EXCEPT ![r].at = l]

CanLockUser(r)       == userLock \in {NoRequest, r}
CanLockSession(s, r) == sessionLock[s] \in {NoRequest, r}

Release(r) ==
  /\ userLock' = IF userLock = r THEN NoRequest ELSE userLock
  /\ sessionLock' =
       [s \in Sessions |-> IF sessionLock[s] = r THEN NoRequest ELSE sessionLock[s]]

Done(r) == Release(r) /\ req' = [req EXCEPT ![r] = Idle]

(* The transaction ends without having written.                            *)
End(r) == Done(r) /\ UNCHANGED <<now, account, rows>>

Begin(r, rec) ==
  /\ At(r, "idle") /\ req' = [req EXCEPT ![r] = rec]
  /\ UNCHANGED <<now, account, rows, locks>>

-----------------------------------------------------------------------------
(* Sign-in: by password, or by a Google, Apple or Telegram identity.       *)

(* Password and is_active are read without a lock.                         *)
StartLogin(r) ==
  /\ ~TvAccount /\ active /\ ~erased
  /\ Begin(r, [Idle EXCEPT !.op = "login", !.at = "user", !.pw = pw])

(* create_session: the account's row lock covers count and insert.         *)
LoginLock(r) ==
  /\ At(r, "user") /\ CanLockUser(r)
  /\ userLock' = r
  /\ Goto(r, "count")
  /\ UNCHANGED <<now, account, rows, sessionLock>>

LoginCount(r) ==
  /\ At(r, "count")
  /\ IF Cardinality(Active) >= Limit
       THEN End(r)
       ELSE /\ req' = [req EXCEPT ![r].at = "insert", ![r].t = now]
            /\ UNCHANGED <<now, account, rows, locks>>

(* Bound: when the keys are used up the sign-in fails.                     *)
LoginCommit(r) ==
  /\ At(r, "insert")
  /\ \/ /\ \A s \in Sessions : state[s] # "absent"
        /\ End(r)
     \/ \E s \in Sessions :
          /\ state[s] = "absent"
          /\ state' = [state EXCEPT ![s] = "live"]
          /\ exp' = [exp EXCEPT ![s] = req[r].t + Ttl]
          /\ opened' = [opened EXCEPT ![s] = req[r].pw]
          /\ issued' = issued \cup {<<s, 0>>}
          /\ Done(r)
          /\ UNCHANGED <<now, account, ver, refreshed>>

-----------------------------------------------------------------------------
(* POST /auth/refresh, with any token in circulation.                      *)

(* The time is read before the locks are asked for.                        *)
StartRefresh(r, s, v) ==
  /\ <<s, v>> \in issued
  /\ Begin(r, [Idle EXCEPT !.op = "refresh", !.at = "session", !.s = s, !.v = v, !.t = now])

Lapsed(r)  == exp[req[r].s] <= req[r].t
Expired(r) == exp[req[r].s] <= req[r].t - Grace

Replaced(r) ==   \* Mutant: any replaced token counts as a retry.
  LET s == req[r].s IN
  /\ req[r].v < ver[s]
  /\ refreshed[s] # 0 /\ req[r].t - refreshed[s] < Window

(* The token this session's last refresh replaced, moments ago.            *)
Retried(r) ==
  LET s == req[r].s IN
  /\ req[r].v = ver[s] - 1
  /\ refreshed[s] # 0 /\ req[r].t - refreshed[s] < Window

(* Bound: the last version is not replaced.                                *)
Refreshable(r) == (req[r].v = ver[req[r].s] /\ req[r].v < MaxVer) \/ Retried(r)

RefreshPeek(r) ==   \* Mutant: the session is read without FOR UPDATE.
  LET s == req[r].s IN
  /\ At(r, "session") /\ state[s] = "live" /\ ~Expired(r) /\ Refreshable(r)
  /\ req' = [req EXCEPT ![r].at = "slot",
                        ![r].next = IF req[r].v = ver[s] THEN ver[s] + 1 ELSE ver[s]]
  /\ UNCHANGED <<now, account, rows, locks>>

RefreshLock(r) ==
  LET s == req[r].s IN
  /\ At(r, "session") /\ CanLockSession(s, r)
  /\ state[s] = "live" /\ ~Expired(r) /\ Refreshable(r)
  /\ sessionLock' = [sessionLock EXCEPT ![s] = r]
  /\ req' = [req EXCEPT ![r].at = "slot",
                        ![r].next = IF req[r].v = ver[s] THEN ver[s] + 1 ELSE ver[s]]
  /\ UNCHANGED <<now, account, rows, userLock>>

RefreshRefused(r) ==
  /\ At(r, "session") /\ CanLockSession(req[r].s, r)
  /\ state[req[r].s] # "live" \/ Expired(r) \/ req[r].v = MaxVer
  /\ End(r)

(* A token that was replaced long ago: somebody holds a copy.              *)
RefreshReuse(r) ==
  LET s == req[r].s IN
  /\ At(r, "session") /\ CanLockSession(s, r)
  /\ state[s] = "live" /\ ~Expired(r) /\ req[r].v # ver[s] /\ ~Retried(r)
  /\ state' = [state EXCEPT ![s] = "revoked"]
  /\ Done(r)
  /\ UNCHANGED <<now, account, exp, ver, refreshed, issued, opened>>

(* The account is locked as for a sign-in; a lapsed session needs a slot.  *)
SlotUnlocked(r) ==   \* Mutant: the account's row is read without FOR UPDATE.
  /\ At(r, "slot")
  /\ IF ~active \/ (Lapsed(r) /\ Cardinality(Active) >= Limit)
       THEN End(r)
       ELSE Goto(r, "bump") /\ UNCHANGED <<now, account, rows, locks>>

RefreshSlot(r) ==
  /\ At(r, "slot") /\ CanLockUser(r)
  /\ IF ~active \/ (Lapsed(r) /\ Cardinality(Active) >= Limit)
       THEN End(r)
       ELSE /\ userLock' = r
            /\ Goto(r, "bump")
            /\ UNCHANGED <<now, account, rows, sessionLock>>

RefreshCommit(r) ==
  LET s == req[r].s IN
  /\ At(r, "bump")
  /\ ver' = [ver EXCEPT ![s] = req[r].next]
  /\ refreshed' = IF req[r].next # ver[s] THEN [refreshed EXCEPT ![s] = req[r].t] ELSE refreshed
  /\ exp' = [exp EXCEPT ![s] = req[r].t + Ttl]
  /\ issued' = issued \cup {<<s, req[r].next>>}
  /\ Done(r)
  /\ UNCHANGED <<now, account, state, opened>>

-----------------------------------------------------------------------------
(* Logging a device out: the row is read without a lock, then updated.     *)

StartRevoke(r, s) ==
  /\ state[s] = "live"
  /\ Begin(r, [Idle EXCEPT !.op = "revoke", !.at = "revoke", !.s = s])

RevokeWaits(r) ==   \* Mutant: waits for a live row.
  LET s == req[r].s IN
  /\ At(r, "revoke") /\ CanLockSession(s, r) /\ state[s] = "live"
  /\ state' = [state EXCEPT ![s] = "revoked"]
  /\ Done(r)
  /\ UNCHANGED <<now, account, exp, ver, refreshed, issued, opened>>

RevokeCommit(r) ==
  LET s == req[r].s IN
  /\ At(r, "revoke") /\ CanLockSession(s, r)
  /\ state' = [state EXCEPT ![s] = IF @ = "live" THEN "revoked" ELSE @]
  /\ Done(r)
  /\ UNCHANGED <<now, account, exp, ver, refreshed, issued, opened>>

-----------------------------------------------------------------------------
(* Statements that write all sessions of the account: the rows their       *)
(* snapshot holds are locked one after another.                            *)

(* A password reset updates the account first, then revokes the sessions.  *)
StartReset(r) ==
  /\ ~TvAccount /\ active /\ ~erased /\ pw <= MaxPw
  /\ Begin(r, [Idle EXCEPT !.op = "reset", !.at = "reset"])

ResetUnlocked(r) ==   \* Mutant: the sessions are revoked before the account is written.
  /\ At(r, "reset")
  /\ req' = [req EXCEPT ![r].at = "rows", ![r].todo = Live]
  /\ UNCHANGED <<now, account, rows, locks>>

ResetLock(r) ==
  /\ At(r, "reset") /\ CanLockUser(r)
  /\ userLock' = r
  /\ req' = [req EXCEPT ![r].at = "rows", ![r].todo = Live]
  /\ UNCHANGED <<now, account, rows, sessionLock>>

StartTvActive(r) ==   \* Mutant: a session that lapsed is not revoked.
  /\ TvAccount /\ active /\ ~erased
  /\ Begin(r, [Idle EXCEPT !.op = "tv", !.at = "rows", !.todo = Active])

(* A TV box signs in by its code and kicks the previous box, in two        *)
(* transactions.                                                           *)
StartTv(r) ==
  /\ TvAccount /\ active /\ ~erased
  /\ Begin(r, [Idle EXCEPT !.op = "tv", !.at = "rows", !.todo = Live])

(* DELETE /users/me: the rows go, then the account is emptied.             *)
StartDelete(r) ==
  /\ active /\ Active # {}
  /\ Begin(r, [Idle EXCEPT !.op = "delete", !.at = "rows",
                           !.todo = {s \in Sessions : state[s] \in {"live", "revoked"}}])

TakeRow(r) ==
  /\ At(r, "rows")
  /\ \E s \in req[r].todo :
       /\ CanLockSession(s, r)
       /\ IF state[s] = "deleted"
            THEN /\ req' = [req EXCEPT ![r].todo = @ \ {s}]
                 /\ UNCHANGED sessionLock
            ELSE /\ req' = [req EXCEPT ![r].todo = @ \ {s}, ![r].held = @ \cup {s}]
                 /\ sessionLock' = [sessionLock EXCEPT ![s] = r]
  /\ UNCHANGED <<now, account, rows, userLock>>

RowsTaken(r, op) == At(r, "rows") /\ req[r].todo = {} /\ req[r].op = op

Write(r, st) == state' = [s \in Sessions |-> IF s \in req[r].held THEN st ELSE state[s]]

ResetCommit(r) ==
  /\ RowsTaken(r, "reset")
  /\ Write(r, "revoked")
  /\ pw' = pw + 1
  /\ Done(r)
  /\ UNCHANGED <<now, active, erased, exp, ver, refreshed, issued, opened>>

TvRevoke(r) ==
  /\ RowsTaken(r, "tv")
  /\ Write(r, "revoked")
  /\ Release(r)
  /\ req' = [req EXCEPT ![r].at = "user", ![r].held = {}]
  /\ UNCHANGED <<now, account, exp, ver, refreshed, issued, opened>>

DeleteRows(r) ==
  /\ RowsTaken(r, "delete")
  /\ Goto(r, "erase")
  /\ UNCHANGED <<now, account, rows, locks>>

DeleteCommit(r) ==
  /\ At(r, "erase") /\ CanLockUser(r)
  /\ Write(r, "deleted")
  /\ active' = FALSE /\ erased' = TRUE
  /\ Done(r)
  /\ UNCHANGED <<now, pw, exp, ver, refreshed, issued, opened>>

-----------------------------------------------------------------------------
(* Failures, operators and time.                                           *)

Abort(r) == ~At(r, "idle") /\ End(r)

Blockers(r) ==
  ( CASE req[r].at \in {"user", "slot", "reset", "erase"} -> {userLock}
      [] req[r].at \in {"session", "revoke"} -> {sessionLock[req[r].s]}
      [] req[r].at = "rows" -> {sessionLock[s] : s \in req[r].todo}
      [] OTHER -> {} ) \ {NoRequest, r}

Deadlocked(r) ==
  \E S \in SUBSET Requests :
    r \in S /\ \A q \in S : /\ Blockers(q) \cap S # {}
                            /\ \E o \in S : q \in Blockers(o)

DeadlockAbort(r) == Deadlocked(r) /\ End(r)

(* An admin suspends the account, or lifts the suspension.                 *)
ToggleActive ==
  /\ userLock = NoRequest
  /\ active' = ~active
  /\ UNCHANGED <<now, erased, pw, rows, locks, req>>

Tick == now < MaxNow /\ now' = now + 1 /\ UNCHANGED <<account, rows, locks, req>>

-----------------------------------------------------------------------------
Start(r) ==
  \/ StartLogin(r) \/ StartReset(r) \/ StartTv(r) \/ StartDelete(r)
  \/ \E s \in Sessions : StartRevoke(r, s) \/ \E v \in Versions : StartRefresh(r, s, v)

Step(r) ==
  \/ LoginLock(r) \/ LoginCount(r) \/ LoginCommit(r)
  \/ RefreshLock(r) \/ RefreshRefused(r) \/ RefreshReuse(r) \/ RefreshSlot(r) \/ RefreshCommit(r)
  \/ RevokeCommit(r) \/ ResetLock(r) \/ TakeRow(r)
  \/ ResetCommit(r) \/ TvRevoke(r) \/ DeleteRows(r) \/ DeleteCommit(r)

Next ==
  \/ \E r \in Requests : Start(r) \/ Step(r) \/ Abort(r) \/ DeadlockAbort(r)
  \/ ToggleActive \/ Tick

Spec == Init /\ [][Next]_vars
-----------------------------------------------------------------------------
(* Correctness.                                                            *)

(* Type invariant of the account, its sessions, the locks and the requests.*)
TypeOK ==
  /\ now \in Nat /\ active \in BOOLEAN /\ erased \in BOOLEAN /\ pw \in Nat
  /\ state \in [Sessions -> States]
  /\ exp \in [Sessions -> Nat] /\ ver \in [Sessions -> Versions]
  /\ refreshed \in [Sessions -> Nat] /\ opened \in [Sessions -> Nat]
  /\ issued \subseteq Sessions \X Versions
  /\ userLock \in Requests \cup {NoRequest}
  /\ sessionLock \in [Sessions -> Requests \cup {NoRequest}]
  /\ req \in [Requests -> Request]

(* "Concurrent logins / pairing confirms cannot each observe the same      *)
(* active-session count and exceed the device limit" (session.py:76): when *)
(* a sign-in commits, at most Limit devices are signed in, whatever        *)
(* refreshes and sign-ins ran beside it.                                   *)
LoginWithinLimit ==
  [][\A s \in Sessions :
       state[s] = "absent" /\ state'[s] = "live" => Cardinality(Active') <= Limit]_vars

(* A refresh never prolongs a session that was revoked or deleted, or one   *)
(* of a suspended account, while it waited for its locks.                  *)
RefreshAlive ==
  [][\A s \in Sessions :
       state[s] # "absent" /\ (exp'[s] # exp[s] \/ ver'[s] # ver[s])
         => state[s] = "live" /\ active]_vars

(* token_version never falls behind a token in circulation: of two         *)
(* overlapping refreshes the later sees the version of the earlier, so a   *)
(* device that holds the newest token is never taken for a copy.           *)
IssuedWithinVersion == \A s \in Sessions, v \in Versions : <<s, v>> \in issued => v <= ver[s]

(* "Stolen access tokens must stop working as soon as the password         *)
(* changes" (auth.py:433): when a reset commits, no session is left, not   *)
(* even one that was being opened when it began.                           *)
ResetSignsOut == [][pw' # pw => \A s \in Sessions : state'[s] # "live"]_vars

(* Every request ends, although a refresh locks session then account and a *)
(* reset account then sessions: the deadlock detector is enough.           *)
RequestEnds == \A r \in Requests : ~At(r, "idle") ~> At(r, "idle")

(* "Presenting one revokes the session" (session.py:154): a token replaced *)
(* twice brings the whole session down, also when it arrives while another *)
(* refresh holds the row.                                                  *)
CopyRevokes ==
  \A r \in Requests, s \in Sessions :
    At(r, "session") /\ req[r].s = s /\ req[r].v + 1 < ver[s] /\ ~Expired(r)
      ~> state[s] # "live"

(* A TV code never has more boxes than sign-ins that overlapped: whoever   *)
(* signs in alone is alone afterwards (login_with_tv_access_code).         *)
TvBoxesOverlap == TvAccount => Cardinality(Live) <= Cardinality(Requests)

-----------------------------------------------------------------------------
(* The inductive strengthening: what a request may rely on at each point.  *)

(* A refresh past its first lock has its session live and at the version   *)
(* it saw; whoever holds the account keeps the others from adding a device,*)
(* so a counted slot stays free and a reset misses no session; the rows a  *)
(* statement has reached are locked.                                       *)
Draft(r) ==
  LET s == req[r].s IN
  /\ req[r].at \in {"session", "slot", "bump", "revoke"} => s \in Sessions
  /\ req[r].at \in {"slot", "bump"} =>
       sessionLock[s] = r /\ state[s] = "live" /\ req[r].next \in {ver[s], ver[s] + 1}
  /\ req[r].at \in {"count", "insert", "bump"} => userLock = r
  /\ req[r].at = "insert" => Cardinality(Active) < Limit
  /\ req[r].at = "bump" => active
  /\ req[r].at = "rows" /\ req[r].op = "reset" =>
       userLock = r /\ Live \subseteq req[r].todo \cup req[r].held
  /\ \A h \in req[r].held : sessionLock[h] = r

IInv == TypeOK /\ IssuedWithinVersion /\ \A r \in Requests : Draft(r)

-----------------------------------------------------------------------------
(* The documented claims below do not hold; the README tells what happens. *)

(* "A lapsed session and a new login can't both take the last device slot" *)
(* (session.py:195).                                                       *)
ActiveWithinLimit == Cardinality(Active) <= Limit

(* "Stolen access tokens must stop working as soon as the password         *)
(* changes" (auth.py:433): no session opened with an old password works.   *)
OpenedWithCurrent == \A s \in Live : opened[s] = pw

-----------------------------------------------------------------------------
(* Liveness: as in Checkout, handlers run on and Postgres serves waiters.  *)
Running == \A r \in Requests : SF_vars(Step(r)) /\ WF_vars(DeadlockAbort(r))

(* A request that dies answers nothing: CopyRevokes is about those that    *)
(* run to their end or fall to the deadlock detector.                      *)
CalmNext ==
  \/ \E r \in Requests : Start(r) \/ Step(r) \/ DeadlockAbort(r)
  \/ ToggleActive \/ Tick

CalmSpec == Init /\ [][CalmNext]_vars /\ Running
=============================================================================
