----------------------------- MODULE Identities -----------------------------
(***************************************************************************)
(* Accounts and the ways to sign in to them: registration, the sign-ins of *)
(* Google, Apple and Telegram, which find, link or create an account,      *)
(* PATCH and DELETE /users/me, and an administrator's suspension or        *)
(* deletion (app/services/auth.py, account.py, app/routers/users.py).      *)
(* Every handler works on a row it loaded without a lock, and its UPDATE   *)
(* writes the columns that differ from what was loaded.                    *)
(***************************************************************************)
EXTENDS FiniteSets

CONSTANTS
  Accounts,        \* primary keys
  Ids, KindOf,     \* sub of a Google or Apple account, id of a Telegram user
  Mails, MailsOf,  \* the addresses a token of an identity may carry
  Telegrams,       \* the identities among Ids that are Telegram users
  Requests,
  None, Gone       \* no row yet; a row that was deleted

VARIABLES
  row,      \* users: email (None once erased), identities, password, is_active
  signed,   \* history: <<identity, account>> of each sign-in
  raced,    \* history: those linked while another identity was being linked there
  req       \* a request: its step, what it was sent, the row it loaded

vars == <<row, signed, raced, req>>

Kinds == {KindOf[i] : i \in Ids}
Nobody == [k \in Kinds |-> None]

User(e, ids, pw) == [mail |-> e, ids |-> ids, pw |-> pw, active |-> TRUE]

Exists(a) == row[a] \notin {None, Gone}
Alive(a)  == Exists(a) /\ row[a].mail # None

Idle == [at |-> "idle", i |-> None, e |-> None, a |-> None, copy |-> None, to |-> None]

Init ==
  /\ row = [a \in Accounts |-> None]
  /\ signed = {} /\ raced = {}
  /\ req = [r \in Requests |-> Idle]

Begin(r, rec) == req[r] = Idle /\ req' = [req EXCEPT ![r] = rec]
Answer(r) == req' = [req EXCEPT ![r] = Idle]
Refuse(r) == Answer(r) /\ UNCHANGED <<row, signed, raced>>

Only(k, i) == [Nobody EXCEPT ![k] = i]
WithMail(e) == {a \in Accounts : Exists(a) /\ row[a].mail = e}
Holders(i)  == {a \in Accounts : Exists(a) /\ row[a].ids[KindOf[i]] = i}

-----------------------------------------------------------------------------
(* The unique index on google_id, apple_id and telegram_id.                *)
NoIndex(i, a) == FALSE   \* Mutant: there is none.
Taken(i, a) == Holders(i) \ {a} # {}

(* A token, vouched for by its issuer, is looked up by its identity. The    *)
(* account found may be suspended.                                         *)
FindIdentity(r, i, e) ==
  /\ e \in MailsOf[i]
  /\ LET new == [Idle EXCEPT !.i = i, !.e = e] IN
     IF Holders(i) = {}
       THEN Begin(r, [new EXCEPT !.at = IF i \in Telegrams THEN "insert" ELSE "mail"])
       ELSE \E a \in Holders(i) : row[a].active /\ Begin(r, [new EXCEPT !.at = "enter", !.a = a])
  /\ UNCHANGED <<row, signed, raced>>

(* Then by its address: an account that has another identity of this kind  *)
(* or is suspended refuses, any other is to be linked.                     *)
FindMail(r) ==
  /\ req[r].at = "mail"
  /\ IF WithMail(req[r].e) = {}
       THEN req' = [req EXCEPT ![r].at = "insert"]
       ELSE \E a \in WithMail(req[r].e) :
              LET has == row[a].ids[KindOf[req[r].i]] IN
              IF row[a].active /\ has \in {None, req[r].i}
                THEN req' = [req EXCEPT ![r].at = IF has = None THEN "link" ELSE "enter", ![r].a = a]
                ELSE Answer(r)
  /\ UNCHANGED <<row, signed, raced>>

(* The flush, the session and the commit; a row deleted meanwhile or an    *)
(* index that refuses is an error.                                         *)
Enter(r) ==
  /\ req[r].at = "enter" /\ Exists(req[r].a)
  /\ signed' = signed \cup {<<req[r].i, req[r].a>>}
  /\ Answer(r) /\ UNCHANGED <<row, raced>>

(* Requests that found the account without an identity of the kind, and    *)
(* are to link another one.  Whoever commits last is the one it is left to.*)
Rivals(i, a) ==
  {s \in Requests :
     req[s].at = "link" /\ req[s].a = a /\ KindOf[req[s].i] = KindOf[i] /\ req[s].i # i}

Link(r) ==
  LET a == req[r].a
      i == req[r].i
  IN
  /\ req[r].at = "link" /\ Exists(a) /\ ~Taken(i, a)
  /\ row' = [row EXCEPT ![a].ids[KindOf[i]] = i]
  /\ signed' = signed \cup {<<i, a>>}
  /\ raced' = IF Rivals(i, a) = {} THEN raced ELSE raced \cup {<<i, a>>}
  /\ Answer(r)

Insert(r) ==
  LET i == req[r].i IN
  /\ req[r].at = "insert" /\ WithMail(req[r].e) = {}
  /\ \E a \in Accounts :
       /\ row[a] = None /\ ~Taken(i, a)
       /\ row' = [row EXCEPT ![a] = User(req[r].e, Only(KindOf[i], i), FALSE)]
       /\ signed' = signed \cup {<<i, a>>}
  /\ Answer(r) /\ UNCHANGED raced

(* POST /auth/register: the address is looked up, and the index decides.   *)
Register(r, e) ==
  /\ WithMail(e) = {}
  /\ Begin(r, [Idle EXCEPT !.at = "register", !.e = e])
  /\ UNCHANGED <<row, signed, raced>>

CommitRegister(r) ==
  /\ req[r].at = "register" /\ WithMail(req[r].e) = {}
  /\ \E a \in Accounts :
       row[a] = None /\ row' = [row EXCEPT ![a] = User(req[r].e, Nobody, TRUE)]
  /\ Answer(r) /\ UNCHANGED <<signed, raced>>

-----------------------------------------------------------------------------
(* get_current_user loads the account of a session; an administrator loads *)
(* any account, to suspend it or to lift the suspension.                   *)
LoadMe(r, a, at) ==
  /\ Exists(a) /\ row[a].active
  /\ Begin(r, [Idle EXCEPT !.at = at, !.a = a, !.copy = row[a]])
  /\ UNCHANGED <<row, signed, raced>>

LoadStatus(r, a) ==
  /\ Exists(a)
  /\ Begin(r, [Idle EXCEPT !.at = "status", !.a = a, !.to = ~row[a].active])
  /\ UNCHANGED <<row, signed, raced>>

Save(r, new) ==
  /\ Exists(req[r].a)
  /\ row' = [row EXCEPT ![req[r].a] = new]
  /\ Answer(r) /\ UNCHANGED <<signed, raced>>

(* Mutant: the UPDATE writes every column of the row that was loaded.      *)
WholeRow(r) == [req[r].copy EXCEPT !.pw = TRUE]

NewPassword(r) == [row[req[r].a] EXCEPT !.pw = TRUE]

(* PATCH /users/me with a password; a first one needs no proof.            *)
CommitPassword(r) == req[r].at = "password" /\ Save(r, NewPassword(r))

(* What was empty when it was loaded does not differ, and stays.           *)
Emptied(now, copy) ==
  [mail |-> None, active |-> FALSE, pw |-> now.pw /\ ~copy.pw,
   ids |-> [k \in Kinds |-> IF copy.ids[k] = None THEN now.ids[k] ELSE None]]

CommitErase(r) == req[r].at = "erase" /\ Save(r, Emptied(row[req[r].a], req[r].copy))

CommitStatus(r) ==
  /\ req[r].at = "status"
  /\ Save(r, [row[req[r].a] EXCEPT !.active = req[r].to])

(* reset_password, through a link sent to the mailbox.                     *)
Reset(a) ==
  /\ Alive(a) /\ row[a].active
  /\ row' = [row EXCEPT ![a].pw = TRUE]
  /\ UNCHANGED <<signed, raced, req>>

(* DELETE /users/{id}, of an account that never paid.                      *)
Remove(a) ==
  /\ Exists(a)
  /\ row' = [row EXCEPT ![a] = Gone]
  /\ UNCHANGED <<signed, raced, req>>

(* A refusal, an error or a crash before the commit.                       *)
Fail(r) == req[r] # Idle /\ Refuse(r)

Next ==
  \/ \E r \in Requests :
       \/ \E i \in Ids, e \in Mails : FindIdentity(r, i, e)
       \/ FindMail(r) \/ Enter(r) \/ Link(r) \/ Insert(r)
       \/ \E e \in Mails : Register(r, e)
       \/ CommitRegister(r)
       \/ \E a \in Accounts :
            LoadStatus(r, a) \/ \E at \in {"password", "erase"} : LoadMe(r, a, at)
       \/ CommitPassword(r) \/ CommitErase(r) \/ CommitStatus(r) \/ Fail(r)
  \/ \E a \in Accounts : Reset(a) \/ Remove(a)

Spec == Init /\ [][Next]_vars
-----------------------------------------------------------------------------
(* An account that was signed in to with an identity keeps it, alone, until *)
(* it is erased or removed: also when first sign-ins overlap, when a token *)
(* carries a new address or the address of another identity, when someone  *)
(* registers the address meanwhile, and when PATCHes are saved from a row  *)
(* loaded before the link was made (authenticate_google, authenticate_apple,*)
(* login_telegram_identity, update_me, admin_update_user_status).  Only an *)
(* identity that was linked while another one of its kind was being linked *)
(* to the same account may be replaced there.                              *)
OneAccountEach ==
  \A p \in signed : Alive(p[2]) => Holders(p[1]) = {p[2]} \/ p \in raced

(* "The email and sign-in IDs are freed, so the person can sign up again   *)
(* as a new account" (account.py:40) does not hold; the README tells how.  *)
IdentitiesFreed ==
  \A a \in Accounts : Exists(a) /\ row[a].mail = None => row[a].ids = Nobody
=============================================================================
