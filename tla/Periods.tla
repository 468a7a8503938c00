------------------------------ MODULE Periods ------------------------------
(***************************************************************************)
(* How paid subscription intents become time (app/billing/fulfillment.py,  *)
(* the "sub" branch): each fulfilment locks its intent, reads the clock,   *)
(* waits for the account, chooses the plan the buyer paid for, and stacks  *)
(* the plan's days on the latest subscription row of the account.          *)
(***************************************************************************)
EXTENDS Naturals, FiniteSets, FiniteSetsExt

CONSTANTS
  Intents,        \* paid intents of one account, each fulfilled by several requests
  CodeOf,         \* plan_code, or the one in the order id, or None
  PriceOf,        \* amount_usd
  SnapOf,         \* plan_interval_days at checkout, 0 for older rows
  Plans,          \* codes
  PlanPrice, Days, \* price and billing_interval_days, as they are now
  Requests, MaxTime, MaxRows, None

VARIABLES
  now,
  active,     \* plans an admin has switched on
  done,       \* intents marked succeeded
  subs,       \* current_period_end of each subscription row
  intentLock, userLock,
  req         \* step, intent, the clock when it was read

vars == <<now, active, done, subs, intentLock, userLock, req>>

Rest == [at |-> "idle", i |-> None, t |-> 0, row |-> 0, ends |-> 0]
Rows == 1..MaxRows

Init ==
  /\ now = 0 /\ active \in (SUBSET Plans) \ {{}} /\ done = {}
  /\ subs = [k \in Rows |-> 0]       \* 0: no such row
  /\ intentLock = [i \in Intents |-> None] /\ userLock = None
  /\ req = [r \in Requests |-> Rest]

-----------------------------------------------------------------------------
(* The plan the customer paid for: by code while that plan is on, else the *)
(* plan with that price (the longest, if there are several), else the      *)
(* first active one.  The days are those of the checkout, when recorded.   *)
SamePrice(i) == {p \in active : PlanPrice[p] = PriceOf[i]}
Longest(ps) == CHOOSE p \in ps : \A q \in ps : Days[p] >= Days[q]

PlanFor(i) ==
  IF CodeOf[i] \in active THEN CodeOf[i]
  ELSE IF SamePrice(i) # {} THEN Longest(SamePrice(i))
  ELSE CHOOSE p \in active : TRUE

(* Mutant: a plan edited after the QR was issued changes the terms.        *)
DaysNow(i) == Days[PlanFor(i)]

DaysFor(i) == IF SnapOf[i] > 0 THEN SnapOf[i] ELSE Days[PlanFor(i)]

-----------------------------------------------------------------------------
Latest == Max({subs[k] : k \in Rows})

Free(r) ==
  /\ intentLock' = [i \in Intents |-> IF intentLock[i] = r THEN None ELSE intentLock[i]]
  /\ userLock' = IF userLock = r THEN None ELSE userLock
  /\ req' = [req EXCEPT ![r] = Rest]

LockIntent(r, i) ==
  /\ req[r].at = "idle" /\ intentLock[i] = None /\ i \notin done
  /\ intentLock' = [intentLock EXCEPT ![i] = r]
  /\ req' = [req EXCEPT ![r] = [Rest EXCEPT !.at = "account", !.i = i, !.t = now]]
  /\ UNCHANGED <<now, active, done, subs, userLock>>

SkipAccount(r) ==   \* Mutant: first-time buyers have no row to lock.
  /\ req[r].at = "account"
  /\ req' = [req EXCEPT ![r].at = "extend"]
  /\ UNCHANGED <<now, active, done, subs, intentLock, userLock>>

LockAccount(r) ==
  /\ req[r].at = "account" /\ userLock = None
  /\ userLock' = r
  /\ req' = [req EXCEPT ![r].at = "extend"]
  /\ UNCHANGED <<now, active, done, subs, intentLock>>

(* The latest row is extended, or (row 0) a first one is to be inserted.   *)
(* With no active plan at all the fulfilment fails.                        *)
Extend(r) ==
  LET ends == Latest
      from == IF ends > req[r].t THEN ends ELSE req[r].t
  IN
  /\ req[r].at = "extend"
  /\ IF active = {}
       THEN Free(r)
       ELSE /\ req' = [req EXCEPT ![r].at = "commit", ![r].ends = from + DaysFor(req[r].i),
                 ![r].row = IF ends = 0 THEN 0 ELSE CHOOSE k \in Rows : subs[k] = ends]
            /\ UNCHANGED <<intentLock, userLock>>
  /\ UNCHANGED <<now, active, done, subs>>

Commit(r) ==
  LET k == IF req[r].row = 0 THEN Min({j \in Rows : subs[j] = 0}) ELSE req[r].row IN
  /\ req[r].at = "commit"
  /\ subs' = [subs EXCEPT ![k] = req[r].ends]
  /\ done' = done \cup {req[r].i}
  /\ Free(r)
  /\ UNCHANGED <<now, active>>

Abort(r) == req[r].at # "idle" /\ Free(r) /\ UNCHANGED <<now, active, done, subs>>

(* An admin switches a plan on or off.                                     *)
Toggle(p) ==
  /\ active' \in {active \cup {p}, active \ {p}} \ {active}
  /\ UNCHANGED <<now, done, subs, intentLock, userLock, req>>

Tick == now < MaxTime /\ now' = now + 1
        /\ UNCHANGED <<active, done, subs, intentLock, userLock, req>>

Next ==
  \/ Tick \/ \E p \in Plans : Toggle(p)
  \/ \E r \in Requests :
       \/ \E i \in Intents : LockIntent(r, i)
       \/ LockAccount(r) \/ Extend(r) \/ Commit(r) \/ Abort(r)

Spec == Init /\ [][Next]_vars
-----------------------------------------------------------------------------
(* Every payment adds the whole time it was sold with to what the account  *)
(* already had, or to the moment its fulfilment began: payments that       *)
(* settle at once, wait for each other, or outlive an admin's change of    *)
(* plans take nothing from each other (fulfill_payment_intent).            *)
Stacks ==
  \A r \in Requests : Commit(r) =>
    Latest' >= (IF Latest > req[r].t THEN Latest ELSE req[r].t) + SnapOf[req[r].i]
PaymentsStack == [][Stacks]_vars

-----------------------------------------------------------------------------
ReqType ==
  [at : {"idle", "account", "extend", "commit"}, i : Intents \cup {None}, t : Nat,
   row : {0} \cup Rows, ends : Nat]

TypeOK ==
  /\ active \in SUBSET Plans /\ now \in Nat
  /\ subs \in [Rows -> Nat]
  /\ req \in [Requests -> ReqType]

Base(r) == IF Latest > req[r].t THEN Latest ELSE req[r].t

(* Whoever computes with the rows has the account; what it will write is   *)
(* right for the rows as they are.                                         *)
Computed(r) ==
  /\ req[r].at # "idle" => req[r].i \in Intents
  /\ req[r].at \in {"extend", "commit"} => userLock = r
  /\ req[r].at = "commit" =>
       req[r].ends >= Base(r) + SnapOf[req[r].i] /\ (req[r].row = 0 => Latest = 0)

(* The inductive strengthening of Stacks; some number bounds the rows.     *)
IInv ==
  /\ TypeOK
  /\ \E n \in Nat : \A k \in Rows : subs[k] <= n
  /\ \A r \in Requests : Computed(r)

(* Days as subscription_plan.py accepts them.                              *)
PeriodConstants ==
  /\ None \notin Requests /\ MaxRows \in Nat \ {0} /\ MaxTime \in Nat
  /\ SnapOf \in [Intents -> Nat] /\ Days \in [Plans -> 1..365]
=============================================================================
