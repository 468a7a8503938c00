------------------------------- MODULE TvCodes -------------------------------
(***************************************************************************)
(* Admin-issued TV unlock IDs (app/services/tv_access_codes.py).  A code   *)
(* owns a synthetic account and a subscription; an admin edits or deletes  *)
(* it while TVs sign in with it.  Edits and sign-ins read their rows       *)
(* without locks; an UPDATE takes its row lock until the commit.  The      *)
(* sessions themselves are in module Sessions.                             *)
(***************************************************************************)
EXTENDS Naturals

CONSTANTS
  Tvs, Admins,   \* requests: sign-ins on TVs, admin edits (may overlap)
  MaxTime, None

VARIABLES
  now,
  code,   \* the tv_access_codes row: not made, live or deleted; is_active, expires_at
  user,   \* is_active of the synthetic account
  sub,    \* the subscription: status active, current_period_end
  subBy,  \* the request whose UPDATE holds the subscription row
  req     \* what each request read and has not committed yet

vars == <<now, code, user, sub, subBy, req>>

Times == 0..MaxTime
NoCode == [row |-> "none", active |-> FALSE, ends |-> 0]
Rest  == [at |-> "idle", read |-> NoCode, ends |-> None, active |-> None]

Expired(c) == c.ends <= now

Init ==
  /\ now = 0
  /\ code = NoCode /\ user = FALSE /\ sub = [active |-> FALSE, ends |-> 0]
  /\ subBy = None
  /\ req = [r \in Tvs \cup Admins |-> Rest]

(* The expiry has to be in the future; account, subscription and code are  *)
(* committed together.  (One code: a second one has rows of its own.)      *)
Create(e, on) ==
  /\ code.row = "none" /\ e > now
  /\ code' = [row |-> "live", active |-> on, ends |-> e]
  /\ user' = TRUE
  /\ sub' = [active |-> on, ends |-> e]
  /\ UNCHANGED <<now, subBy, req>>

(* PATCH with a new expiry, a new is_active, or both.                      *)
ReadPatch(r, e, on) ==
  /\ req[r].at = "idle" /\ code.row = "live" /\ <<e, on>> # <<None, None>>
  /\ req' = [req EXCEPT ![r] = [at |-> "patch", read |-> code, ends |-> e, active |-> on]]
  /\ UNCHANGED <<now, code, user, sub, subBy>>

New(v, old) == IF v = None THEN old ELSE v

(* The UPDATEs of the subscription wait for its row.                       *)
TakeSub(r) ==
  /\ req[r].at \in {"patch", "login"} /\ subBy = None /\ code.row = "live"
  /\ subBy' = r
  /\ req' = [req EXCEPT ![r].at = IF @ = "patch" THEN "patched" ELSE "renewed"]
  /\ UNCHANGED <<now, code, user, sub>>

\* Mutant: the account keeps its is_active.
KeepUser(p) == user

FollowUser(p) == New(p.active, user)

(* The row object writes only what differs from what it read; the account  *)
(* is loaded after the UPDATE and follows is_active.                       *)
CommitPatch(r) ==
  LET p == req[r]
      e == New(p.ends, p.read.ends)
      on == New(p.active, p.read.active)
  IN
  /\ p.at = "patched"
  /\ code' = [code EXCEPT !.ends = IF e # p.read.ends THEN e ELSE @,
                          !.active = IF on # p.read.active THEN on ELSE @]
  /\ sub' = [active |-> IF p.active = None THEN sub.active ELSE on /\ e > now,
             ends   |-> New(p.ends, sub.ends)]
  /\ user' = FollowUser(p)
  /\ subBy' = None
  /\ req' = [req EXCEPT ![r] = Rest]
  /\ UNCHANGED now

(* Deleting the account cascades to the code and the subscription.         *)
Delete(r) ==
  /\ req[r].at = "idle" /\ code.row = "live" /\ subBy = None
  /\ code' = [code EXCEPT !.row = "deleted"]
  /\ user' = FALSE
  /\ sub' = [sub EXCEPT !.active = FALSE]
  /\ UNCHANGED <<now, subBy, req>>

(* A sign-in: the code and the account are read, ...                       *)
ReadLogin(r) ==
  /\ req[r].at = "idle"
  /\ code.row = "live" /\ code.active /\ ~Expired(code) /\ user
  /\ req' = [req EXCEPT ![r] = [Rest EXCEPT !.at = "login", !.read = code]]
  /\ UNCHANGED <<now, code, user, sub, subBy>>

(* ... the subscription is brought in line with what was read, and the     *)
(* session opens if the account is still there (create_session locks it).  *)
CommitLogin(r) ==
  /\ req[r].at = "renewed"
  /\ sub' = [active |-> TRUE, ends |-> req[r].read.ends]
  /\ subBy' = None
  /\ req' = [req EXCEPT ![r] = Rest]
  /\ UNCHANGED <<now, code, user>>

(* A request fails, or finds its rows deleted.                             *)
Abort(r) ==
  /\ req[r].at # "idle"
  /\ subBy' = IF subBy = r THEN None ELSE subBy
  /\ req' = [req EXCEPT ![r] = Rest]
  /\ UNCHANGED <<now, code, user, sub>>

Tick == now < MaxTime /\ now' = now + 1 /\ UNCHANGED <<code, user, sub, subBy, req>>

Next ==
  \/ Tick
  \/ \E e \in Times, on \in BOOLEAN : Create(e, on)
  \/ \E r \in Admins :
       \/ Delete(r) \/ CommitPatch(r)
       \/ \E e \in Times \cup {None}, on \in BOOLEAN \cup {None} : ReadPatch(r, e, on)
  \/ \E r \in Tvs : ReadLogin(r) \/ CommitLogin(r)
  \/ \E r \in Tvs \cup Admins : TakeSub(r) \/ Abort(r)

Spec == Init /\ [][Next]_vars
-----------------------------------------------------------------------------
(* What a TV that has a session is entitled to: an active account with an  *)
(* active subscription (get_current_user, user_has_active_subscription).   *)
Entitled == user /\ sub.active /\ sub.ends > now

(* A TV that got in before an admin switched its code off, or deleted it,  *)
(* or that was just signing in, is locked out: the sign-in revives the     *)
(* subscription from a stale read, but never the account                   *)
(* (update_tv_access_code).  This is for admins who edit one at a time.    *)
DisabledLocksOut == ~code.active \/ code.row # "live" => ~Entitled

(* Off leaves no way in: the account is off, or the code was made so and   *)
(* nobody signs in.  A patch has read the row as it is.                    *)
TypeOK ==
  /\ code \in [row : {"none", "live", "deleted"}, active : BOOLEAN, ends : Nat]
  /\ user \in BOOLEAN /\ sub \in [active : BOOLEAN, ends : Nat]
  /\ req \in [Tvs \cup Admins ->
       [at : {"idle", "patch", "patched", "login", "renewed"},
        read : [row : {"none", "live", "deleted"}, active : BOOLEAN, ends : Nat],
        ends : Nat \cup {None}, active : BOOLEAN \cup {None}]]

ShutOut == ~user \/ (~sub.active /\ \A r \in Tvs : req[r].at = "idle")

(* The inductive strengthening of DisabledLocksOut.                        *)
IInv ==
  /\ TypeOK
  /\ \A r \in Tvs : req[r].at \in {"idle", "login", "renewed"}
  /\ \A a \in Admins : req[a].at # "idle" =>
       req[a].at \in {"patch", "patched"} /\ req[a].read = code /\ code.row = "live"
  /\ code.row # "live" => ~user
  /\ code.row = "none" => \A r \in Tvs : req[r].at = "idle"
  /\ code.row = "live" /\ ~code.active => ShutOut

(* One admin edits at a time.                                              *)
TvConstants ==
  /\ Tvs \cap Admins = {} /\ \A a, b \in Admins : a = b
  /\ None \notin BOOLEAN /\ MaxTime \in Nat

(* The documented claim below does not hold: a sign-in that read the code  *)
(* before an admin's edit writes the old expiry over the new one.          *)

(* "owns a synthetic user + active subscription whose current_period_end   *)
(* matches expires_at" (tv_access_codes.py:3).                             *)
EndMatches == code.row = "live" => sub.ends = code.ends
=============================================================================
