------------------------------- MODULE Access -------------------------------
(***************************************************************************)
(* Who may watch what (app/services/content_access.py), and what happens   *)
(* to a guest's receipts when the guest signs in: the claim moves movie    *)
(* receipts, series receipts and payment intents with three UPDATEs of the *)
(* sign-in's transaction (app/services/guest.py), while a payment of the   *)
(* guest may be settling (app/billing/fulfillment.py).                     *)
(***************************************************************************)
EXTENDS Naturals

CONSTANTS
  Movies, Serials, Podcasts,   \* titles; a series stands for its episodes
  Gratis,                      \* titles marked free, or movies without a price
  Accounts, Admins, Guest,     \* account holders, some of them admins, and a guest cookie
  Intents, ItemOf,             \* payment intents, all of them the guest's
  Requests, None

Titles == Movies \cup Serials \cup Podcasts
People == Accounts \cup {Guest}

VARIABLES
  published,    \* titles with is_published
  freeToday,    \* movies an admin lists under "free today"
  subscribed,   \* accounts with an active, unexpired subscription
  intent,       \* owner and whether it has succeeded
  receipt,      \* the owner of the receipt of an intent, None before there is one
  intentLock, receiptLock,
  cookie,       \* the guest cookie is still in the browser
  req           \* the step, account or intent, and uncommitted writes

vars == <<published, freeToday, subscribed, intent, receipt, intentLock, receiptLock, cookie, req>>
tables == <<intent, receipt>>

Rest == [at |-> "idle", who |-> None, i |-> None, moved |-> {}, took |-> {}, had |-> {}]

Init ==
  /\ published \in SUBSET Titles /\ freeToday = {} /\ subscribed = {}
  /\ intent = [i \in Intents |-> [owner |-> Guest, done |-> FALSE]]
  /\ receipt = [i \in Intents |-> None]
  /\ intentLock = [i \in Intents |-> None] /\ receiptLock = [i \in Intents |-> None]
  /\ cookie = TRUE
  /\ req = [r \in Requests |-> Rest]

-----------------------------------------------------------------------------
(* Entitlement.  A signed-in request is judged by its account alone, the   *)
(* cookie counts only without one.                                         *)
Bought(w, t) == \E i \in Intents : ItemOf[i] = t /\ receipt[i] = w

MayWatch(w, t) ==
  \/ w \in Admins
  \/ /\ t \in published
     /\ \/ t \in Gratis
        \/ t \in Movies /\ (t \in freeToday \/ w \in subscribed \/ Bought(w, t))
        \/ t \in Serials /\ (w \in subscribed \/ Bought(w, t))
        \/ t \in Podcasts /\ w \in subscribed

-----------------------------------------------------------------------------
(* A sign-in that carries the cookie.                                      *)
StartClaim(r, a) ==
  /\ req[r].at = "idle" /\ cookie
  /\ req' = [req EXCEPT ![r] = [Rest EXCEPT
       !.at = "movies", !.who = a, !.had = {t \in Titles : Bought(Guest, t)}]]
  /\ UNCHANGED <<published, freeToday, subscribed, tables, intentLock, receiptLock, cookie>>

(* An UPDATE waits for rows another sign-in holds, then skips those that   *)
(* stopped matching.                                                       *)
MoveReceipts(r, label, items, next) ==
  LET mine == {i \in Intents : ItemOf[i] \in items /\ receipt[i] = Guest} IN
  /\ req[r].at = label
  /\ \A i \in mine : receiptLock[i] = None
  /\ receiptLock' = [i \in Intents |-> IF i \in mine THEN r ELSE receiptLock[i]]
  /\ req' = [req EXCEPT ![r].moved = @ \cup mine, ![r].at = next]
  /\ UNCHANGED <<published, freeToday, subscribed, tables, intentLock, cookie>>

MoveMovies(r) == MoveReceipts(r, "movies", Movies, "serials")
(* Mutant: the series receipts are left where they are.                    *)
KeepSerials(r) == MoveReceipts(r, "serials", {}, "intents")

MoveSerials(r) == MoveReceipts(r, "serials", Serials, "intents")

MoveIntents(r) ==
  LET mine == {i \in Intents : intent[i].owner = Guest} IN
  /\ req[r].at = "intents"
  /\ \A i \in mine : intentLock[i] = None
  /\ intentLock' = [i \in Intents |-> IF i \in mine THEN r ELSE intentLock[i]]
  /\ req' = [req EXCEPT ![r].took = mine, ![r].at = "signin"]
  /\ UNCHANGED <<published, freeToday, subscribed, tables, receiptLock, cookie>>

Free(r) ==
  /\ intentLock' = [i \in Intents |-> IF intentLock[i] = r THEN None ELSE intentLock[i]]
  /\ receiptLock' = [i \in Intents |-> IF receiptLock[i] = r THEN None ELSE receiptLock[i]]
  /\ req' = [req EXCEPT ![r] = Rest]

(* The session is opened, everything is committed, the answer clears the   *)
(* cookie.                                                                 *)
CommitClaim(r) ==
  /\ req[r].at = "signin"
  /\ receipt' = [i \in Intents |-> IF i \in req[r].moved THEN req[r].who ELSE receipt[i]]
  /\ intent' = [i \in Intents |->
       IF i \in req[r].took THEN [intent[i] EXCEPT !.owner = req[r].who] ELSE intent[i]]
  /\ cookie' = FALSE
  /\ Free(r)
  /\ UNCHANGED <<published, freeToday, subscribed>>

(* A payment of the guest is settled: the intent is locked and loaded      *)
(* again, the receipt gets the owner it then has.                          *)
LockIntent(r, i) ==
  /\ req[r].at = "idle" /\ intentLock[i] = None /\ ~intent[i].done
  /\ intentLock' = [intentLock EXCEPT ![i] = r]
  /\ req' = [req EXCEPT ![r] = [Rest EXCEPT !.at = "settle", !.i = i, !.who = intent[i].owner]]
  /\ UNCHANGED <<published, freeToday, subscribed, tables, receiptLock, cookie>>

CommitReceipt(r) ==
  LET i == req[r].i IN
  /\ req[r].at = "settle"
  /\ receipt' = [receipt EXCEPT ![i] = req[r].who]
  /\ intent' = [intent EXCEPT ![i].done = TRUE]
  /\ Free(r)
  /\ UNCHANGED <<published, freeToday, subscribed, cookie>>

Abort(r) ==
  /\ req[r].at # "idle" /\ Free(r)
  /\ UNCHANGED <<published, freeToday, subscribed, tables, cookie>>

(* Admins list free movies; subscriptions run out.                         *)
Curate ==
  /\ \E t \in Movies : freeToday' \in {freeToday \cup {t}, freeToday \ {t}}
  /\ UNCHANGED <<published, subscribed, tables, intentLock, receiptLock, cookie, req>>

Subscribe ==
  /\ \E a \in Accounts : subscribed' \in {subscribed \cup {a}, subscribed \ {a}}
  /\ UNCHANGED <<published, freeToday, tables, intentLock, receiptLock, cookie, req>>

Next ==
  \/ Curate \/ Subscribe
  \/ \E r \in Requests :
       \/ \E a \in Accounts : StartClaim(r, a)
       \/ MoveMovies(r) \/ MoveSerials(r) \/ MoveIntents(r) \/ CommitClaim(r)
       \/ \E i \in Intents : LockIntent(r, i)
       \/ CommitReceipt(r) \/ Abort(r)

Spec == Init /\ [][Next]_vars
-----------------------------------------------------------------------------
(* Signing in loses nothing the guest had paid for when the sign-in began: *)
(* each title of a receipt can be watched, while it is published, by the   *)
(* account that signed in, or by the one that signed in with the same      *)
(* cookie at the same time (claim_guest_purchases, can_access_content).    *)
KeepsTitles ==
  \A r \in Requests : CommitClaim(r) =>
    \A t \in req[r].had \cap published' : \E a \in Accounts : MayWatch(a, t)'
SignInKeepsTitles == [][KeepsTitles]_vars

(* The inductive strengthening: a settlement under way has its intent, and *)
(* the intent no receipt; a title the guest had when a sign-in began has a *)
(* receipt that is an account's already, or will be with this sign-in.     *)
Claiming == {"movies", "serials", "intents", "signin"}

ReqType ==
  [at : {"idle", "settle"} \cup Claiming, who : People \cup {None},
   i : Intents \cup {None}, moved : SUBSET Intents, took : SUBSET Intents,
   had : SUBSET Titles]

TypeOK ==
  /\ published \in SUBSET Titles
  /\ intent \in [Intents -> [owner : People, done : BOOLEAN]]
  /\ receipt \in [Intents -> People \cup {None}]
  /\ intentLock \in [Intents -> Requests \cup {None}]
  /\ req \in [Requests -> ReqType]

Settling(r) ==
  req[r].at = "settle" =>
    /\ req[r].i \in Intents /\ req[r].who \in People
    /\ intentLock[req[r].i] = r /\ ~intent[req[r].i].done

WillMove(r, i) ==
  \/ i \in req[r].moved
  \/ req[r].at = "movies" /\ ItemOf[i] \in Movies
  \/ req[r].at \in {"movies", "serials"} /\ ItemOf[i] \in Serials

Kept(r, i) == receipt[i] \in Accounts \/ (receipt[i] = Guest /\ WillMove(r, i))

Claims(r) ==
  req[r].at \in Claiming =>
    /\ req[r].who \in Accounts
    /\ \A i \in req[r].moved : receipt[i] # None
    /\ \A t \in req[r].had : \E i \in Intents : ItemOf[i] = t /\ Kept(r, i)

IInv ==
  /\ TypeOK
  /\ \A i \in Intents : receipt[i] # None => intent[i].done
  /\ \A r \in Requests : Settling(r) /\ Claims(r)

AccessConstants ==
  /\ Guest \notin Accounts /\ None \notin Requests /\ None \notin Accounts /\ None # Guest
  /\ ItemOf \in [Intents -> Movies \cup Serials]

(* The documented claim below does not hold: a receipt committed between   *)
(* the claim's statements stays with the cookie, which the answer clears.  *)

(* "Re-assign anonymous guest purchases to a real account on               *)
(* login/register" (guest.py:1): a receipt is where its intent is.         *)
ReceiptFollowsIntent ==
  \A i \in Intents : receipt[i] # None => receipt[i] = intent[i].owner
=============================================================================
