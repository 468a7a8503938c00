-------------------------- MODULE IdentitiesProofs --------------------------
(***************************************************************************)
(* What Identities guarantees for every set of accounts, identities,       *)
(* addresses and requests: an identity signs in to one account.            *)
(***************************************************************************)
EXTENDS Identities, TLAPS

UserRow == [mail : Mails \cup {None}, ids : [Kinds -> Ids \cup {None}],
            pw : BOOLEAN, active : BOOLEAN]

(* None and Gone stand for what is no row, no identity and no address.     *)
IdentityConstants ==
  /\ None \notin Ids \cup Mails
  /\ None # Gone /\ {None, Gone} \cap UserRow = {}

Steps == {"idle", "mail", "insert", "enter", "link", "register", "password", "erase", "status"}

Request == [at : Steps, i : Ids \cup {None}, e : Mails \cup {None}, a : Accounts \cup {None},
            copy : UserRow \cup {None, Gone}, to : BOOLEAN \cup {None}]

TypeOK ==
  /\ row \in [Accounts -> UserRow \cup {None, Gone}]
  /\ signed \subseteq Ids \X Accounts
  /\ req \in [Requests -> Request]

(* The unique index.                                                       *)
Unique == \A i \in Ids : \A a, b \in Holders(i) : a = b

(* The account an identity was signed in to was made, and keeps it.        *)
Holds(i, a) ==
  row[a] # None /\ (Alive(a) => row[a].ids[KindOf[i]] = i \/ <<i, a>> \in raced)

(* What another identity of the kind finds in the account it is linked to  *)
(* came there after the request had looked, and so in a race.              *)
Overtaken(i, a) ==
  Alive(a) => \A j \in Ids \ {i} :
                KindOf[j] = KindOf[i] /\ row[a].ids[KindOf[j]] = j => <<j, a>> \in raced

(* What a request goes by still holds when it writes, unless the account   *)
(* was erased or removed.                                                  *)
Knows(r) ==
  LET q == req[r] IN
  /\ q.at \in {"mail", "insert", "link", "enter"} => q.i \in Ids
  /\ q.at \in {"mail", "insert", "register"} => q.e \in Mails
  /\ q.at = "enter" => q.a \in Accounts /\ Holds(q.i, q.a)
  /\ q.at = "link" => q.a \in Accounts /\ row[q.a] # None /\ Overtaken(q.i, q.a)
  /\ q.at \in {"password", "erase", "status"} => q.a \in Accounts
  /\ q.at = "erase" => q.copy \in UserRow
  /\ q.at = "status" => q.to \in BOOLEAN

(* The inductive strengthening of OneAccountEach.                          *)
IInv ==
  /\ TypeOK
  /\ Unique
  /\ \A p \in signed : Holds(p[1], p[2])
  /\ \A r \in Requests : Knows(r)
-----------------------------------------------------------------------------
LEMMA NobodyType == IdentityConstants => Nobody \in [Kinds -> Ids \cup {None}]
  BY DEF Nobody

LEMMA IdleType == IdentityConstants => Idle \in Request
  BY DEF Idle, Request, Steps

LEMMA InitInv ==
  ASSUME IdentityConstants, Init
  PROVE  IInv
<1>1. TypeOK BY IdleType DEF Init, TypeOK
<1>2. \A a \in Accounts : ~Exists(a) BY DEF Init, Exists
<1>3. Unique BY <1>2 DEF Unique, Holders
<1>4. \A r \in Requests : Knows(r) BY DEF Init, Knows, Idle
<1> QED BY <1>1, <1>3, <1>4 DEF IInv, Init

LEMMA RowType ==
  ASSUME IdentityConstants, TypeOK, NEW a \in Accounts
  PROVE  /\ Exists(a) <=> row[a] \in UserRow
         /\ Alive(a) <=> row[a] \in UserRow /\ row[a].mail # None
  BY DEF Exists, Alive, TypeOK, IdentityConstants

(* What a write may do to a row without anybody else noticing: it makes a  *)
(* new one, or leaves the identities of one that is alive in place but for *)
(* those that raced, or ends it.  An identity it adds raced with whoever   *)
(* is about to link another.                                               *)
Mild(a) ==
  /\ raced \subseteq raced'
  /\ row[a] # None => row'[a] # None
  /\ Alive(a)' /\ row[a] # None =>
       /\ Alive(a)
       /\ \A i \in Ids : row[a].ids[KindOf[i]] = i =>
            row'[a].ids[KindOf[i]] = i \/ <<i, a>> \in raced'
       /\ \A i \in Ids : row'[a].ids[KindOf[i]] = i =>
            row[a].ids[KindOf[i]] = i \/ Rivals(i, a) = {} \/ <<i, a>> \in raced'

LEMMA MildSame ==
  ASSUME NEW a \in Accounts, row'[a] = row[a], raced \subseteq raced'
  PROVE  Mild(a)
  BY DEF Mild, Alive, Exists

LEMMA MildHolds ==
  ASSUME NEW a, NEW i \in Ids, Mild(a), Holds(i, a)
  PROVE  Holds(i, a)'
  BY DEF Mild, Holds

LEMMA MildKnows ==
  ASSUME IInv, NEW r \in Requests, \A a \in Accounts : Mild(a), req'[r] = req[r]
  PROVE  Knows(r)'
<1> PICK q : q = req[r] OBVIOUS
<1>1. Knows(r) BY DEF IInv
<1>2. q.at = "enter" => Holds(q.i, q.a)' BY <1>1, MildHolds DEF Knows
<1>3. ASSUME q.at = "link" PROVE row'[q.a] # None /\ Overtaken(q.i, q.a)'
  <2>1. q.i \in Ids /\ q.a \in Accounts /\ row[q.a] # None /\ Overtaken(q.i, q.a)
    BY <1>1, <1>3 DEF Knows
  <2>2. Mild(q.a) BY <2>1
  <2>3. \A j \in Ids \ {q.i} : KindOf[j] = KindOf[q.i] => r \in Rivals(j, q.a)
    BY <1>3 DEF Rivals
  <2> QED BY <2>1, <2>2, <2>3 DEF Mild, Overtaken
<1> QED BY <1>1, <1>2, <1>3 DEF Knows

(* A request is answered.                                                  *)
LEMMA Answered ==
  ASSUME IdentityConstants, IInv, NEW r \in Requests, Answer(r)
  PROVE  /\ req' \in [Requests -> Request] /\ Knows(r)'
         /\ \A s \in Requests \ {r} : req'[s] = req[s]
<1>1. req \in [Requests -> Request] BY DEF IInv, TypeOK
<1>2. /\ req' \in [Requests -> Request] /\ req'[r] = Idle
      /\ \A s \in Requests \ {r} : req'[s] = req[s]
  BY <1>1, IdleType DEF Answer
<1>3. Knows(r)' BY <1>2 DEF Knows, Idle
<1> QED BY <1>2, <1>3

(* A step that only reads: the request that took it knows what it read.    *)
LEMMA ReadInv ==
  ASSUME IInv, NEW r \in Requests, UNCHANGED <<row, signed, raced>>,
         req' \in [Requests -> Request],
         \A s \in Requests \ {r} : req'[s] = req[s], Knows(r)'
  PROVE  IInv'
<1>1. TypeOK' BY DEF IInv, TypeOK
<1>2. Unique' BY DEF IInv, Unique, Holders, Exists
<1>4. \A a \in Accounts : Mild(a) BY MildSame
<1>5. \A s \in Requests \ {r} : Knows(s)' BY <1>4, MildKnows
<1>6. \A p \in signed : Holds(p[1], p[2])' BY DEF IInv, Holds, Alive, Exists
<1> QED BY <1>1, <1>2, <1>5, <1>6 DEF IInv

(* A step that writes the row of one account.                              *)
LEMMA WriteInv ==
  ASSUME IdentityConstants, IInv, NEW a \in Accounts, NEW new \in UserRow \cup {Gone},
         row' = [row EXCEPT ![a] = new], Mild(a),
         signed' \subseteq Ids \X Accounts,
         \A p \in signed' \ signed : Holds(p[1], p[2])',
         Unique', raced \subseteq raced',
         req' \in [Requests -> Request], \A s \in Requests : req'[s] = req[s] \/ Knows(s)'
  PROVE  IInv'
<1>0. TypeOK BY DEF IInv
<1>1. row' \in [Accounts -> UserRow \cup {None, Gone}] BY <1>0 DEF TypeOK
<1>2. TypeOK' BY <1>1 DEF TypeOK
<1>3. row'[a] = new /\ \A b \in Accounts \ {a} : row'[b] = row[b] BY <1>0 DEF TypeOK
<1>4. \A b \in Accounts : Mild(b) BY <1>3, MildSame
<1>5. \A s \in Requests : Knows(s)' BY <1>4, MildKnows
<1>6. \A p \in signed' : Holds(p[1], p[2])'
  <2> SUFFICES ASSUME NEW p \in signed PROVE Holds(p[1], p[2])' OBVIOUS
  <2>1. p[1] \in Ids /\ p[2] \in Accounts /\ Holds(p[1], p[2]) BY DEF IInv, TypeOK
  <2> QED BY <1>4, <2>1, MildHolds
<1> QED BY <1>2, <1>5, <1>6 DEF IInv

(* A row that gains no identity leaves every identity to one account.      *)
LEMMA NoneGained ==
  ASSUME IdentityConstants, IInv, NEW a \in Accounts, NEW new \in UserRow \cup {Gone},
         row' = [row EXCEPT ![a] = new],
         new \in UserRow =>
           \A i \in Ids : new.ids[KindOf[i]] = i => row[a] \in UserRow /\ row[a].ids[KindOf[i]] = i
  PROVE  Unique'
<1>0. TypeOK BY DEF IInv
<1>1. row'[a] = new /\ \A b \in Accounts \ {a} : row'[b] = row[b] BY <1>0 DEF TypeOK
<1>2. new \notin UserRow => new \in {None, Gone} OBVIOUS
<1>3. ASSUME NEW i \in Ids PROVE Holders(i)' \subseteq Holders(i)
  <2>1. a \in Holders(i)' => a \in Holders(i)
    BY <1>0, <1>1, <1>2, RowType DEF Holders, Exists
  <2> QED BY <1>1, <2>1 DEF Holders, Exists
<1> QED BY <1>3 DEF IInv, Unique

(* The index lets an identity in only where nobody else has it.            *)
LEMMA OneGained ==
  ASSUME IdentityConstants, IInv, NEW a \in Accounts, NEW new \in UserRow, NEW i \in Ids,
         ~Taken(i, a), row' = [row EXCEPT ![a] = new],
         \A j \in Ids \ {i} :
           new.ids[KindOf[j]] = j => row[a] \in UserRow /\ row[a].ids[KindOf[j]] = j
  PROVE  Unique'
<1>0. TypeOK BY DEF IInv
<1>1. row'[a] = new /\ \A b \in Accounts \ {a} : row'[b] = row[b] BY <1>0 DEF TypeOK
<1>2. ASSUME NEW j \in Ids \ {i} PROVE Holders(j)' \subseteq Holders(j)
  <2>1. a \in Holders(j)' => a \in Holders(j)
    BY <1>0, <1>1, RowType DEF Holders, Exists
  <2> QED BY <1>1, <2>1 DEF Holders, Exists
<1>3. Holders(i)' \subseteq {a} BY <1>1 DEF Taken, Holders, Exists
<1> QED BY <1>2, <1>3 DEF IInv, Unique

(* The same account, with other values in what no lookup goes by.          *)
LEMMA SameIdsInv ==
  ASSUME IdentityConstants, IInv, NEW a \in Accounts, NEW new \in UserRow,
         row[a] \in UserRow, new.mail = row[a].mail, new.ids = row[a].ids,
         row' = [row EXCEPT ![a] = new], UNCHANGED <<signed, raced>>,
         req' \in [Requests -> Request], \A s \in Requests : req'[s] = req[s] \/ Knows(s)'
  PROVE  IInv'
<1>1. row'[a] = new BY DEF IInv, TypeOK
<1>2. row[a] \notin {None, Gone} /\ new \notin {None, Gone} BY DEF IdentityConstants
<1>3. Mild(a) BY <1>1, <1>2 DEF Mild, Alive, Exists
<1>4. Unique' BY NoneGained
<1>5. signed' \subseteq Ids \X Accounts BY DEF IInv, TypeOK
<1> QED BY <1>1, <1>3, <1>4, <1>5, WriteInv

-----------------------------------------------------------------------------
(* A request that begins.                                                  *)
LEMMA BeginInv ==
  ASSUME IdentityConstants, IInv, NEW r \in Requests, NEW rec \in Request, Begin(r, rec),
         UNCHANGED <<row, signed, raced>>, req'[r] = rec => Knows(r)'
  PROVE  IInv'
<1>1. req \in [Requests -> Request] BY DEF IInv, TypeOK
<1>2. /\ req' \in [Requests -> Request] /\ req'[r] = rec
      /\ \A s \in Requests \ {r} : req'[s] = req[s]
  BY <1>1 DEF Begin
<1> QED BY <1>2, ReadInv

LEMMA HoldersAre ==
  ASSUME IdentityConstants, TypeOK, NEW i \in Ids, NEW a \in Holders(i)
  PROVE  a \in Accounts /\ row[a] \in UserRow /\ row[a].ids[KindOf[i]] = i
  BY RowType DEF Holders

LEMMA FindIdentityInv ==
  ASSUME IdentityConstants, IInv, NEW r \in Requests, NEW i \in Ids, NEW e \in Mails,
         FindIdentity(r, i, e)
  PROVE  IInv'
<1>0. TypeOK /\ UNCHANGED <<row, signed, raced>> BY DEF IInv, FindIdentity
<1>1. CASE Holders(i) = {}
  <2> DEFINE rec == [Idle EXCEPT !.i = i, !.e = e, !.at = IF i \in Telegrams THEN "insert" ELSE "mail"]
  <2>1. Begin(r, rec) BY <1>1 DEF FindIdentity
  <2>2. rec \in Request BY DEF Idle, Request, Steps
  <2>3. req'[r] = rec => Knows(r)' BY <1>0 DEF Knows, Idle
  <2> QED BY <1>0, <2>1, <2>2, <2>3, BeginInv
<1>2. CASE Holders(i) # {}
  <2>1. PICK a \in Holders(i) : Begin(r, [Idle EXCEPT !.i = i, !.e = e, !.at = "enter", !.a = a])
    BY <1>2 DEF FindIdentity
  <2> DEFINE rec == [Idle EXCEPT !.i = i, !.e = e, !.at = "enter", !.a = a]
  <2>2. a \in Accounts /\ row[a] \in UserRow /\ row[a].ids[KindOf[i]] = i BY <1>0, HoldersAre
  <2>3. Holds(i, a)' BY <1>0, <2>2 DEF Holds, IdentityConstants
  <2>4. rec \in Request BY <2>2 DEF Idle, Request, Steps
  <2>5. req'[r] = rec => Knows(r)' BY <2>2, <2>3 DEF Knows, Idle
  <2> QED BY <1>0, <2>1, <2>4, <2>5, BeginInv
<1> QED BY <1>1, <1>2

(* The request as it stands, with its account found.                       *)
LEMMA FindMailInv ==
  ASSUME IdentityConstants, IInv, NEW r \in Requests, FindMail(r)
  PROVE  IInv'
<1> PICK q : q = req[r] OBVIOUS
<1>0. /\ TypeOK /\ q \in Request /\ q.at = "mail" /\ UNCHANGED <<row, signed, raced>>
      /\ q.i \in Ids /\ q.e \in Mails
  BY DEF IInv, TypeOK, FindMail, Knows
<1>1. CASE req' = [req EXCEPT ![r].at = "insert"]
  <2>1. /\ req' \in [Requests -> Request] /\ req'[r] = [q EXCEPT !.at = "insert"]
        /\ \A s \in Requests \ {r} : req'[s] = req[s]
    BY <1>0, <1>1 DEF TypeOK, Request, Steps
  <2>2. req'[r].at = "insert" /\ req'[r].i = q.i /\ req'[r].e = q.e BY <1>0, <2>1 DEF Request
  <2>3. Knows(r)' BY <1>0, <2>2 DEF Knows
  <2> QED BY <1>0, <2>1, <2>3, ReadInv
<1>2. CASE Answer(r)
  BY <1>0, <1>2, Answered, ReadInv
<1>3. ASSUME NEW a \in WithMail(q.e), NEW at \in {"link", "enter"},
             row[a].ids[KindOf[q.i]] = IF at = "link" THEN None ELSE q.i,
             req' = [req EXCEPT ![r].at = at, ![r].a = a]
      PROVE  IInv'
  <2>1. a \in Accounts /\ row[a] \in UserRow /\ row[a].mail = q.e /\ row[a] # None
    BY <1>0, RowType DEF WithMail, IdentityConstants
  <2>2. /\ req' \in [Requests -> Request] /\ req'[r] = [q EXCEPT !.at = at, !.a = a]
        /\ \A s \in Requests \ {r} : req'[s] = req[s]
    BY <1>0, <1>3, <2>1 DEF TypeOK, Request, Steps
  <2>3. req'[r].at = at /\ req'[r].i = q.i /\ req'[r].e = q.e /\ req'[r].a = a
    BY <1>0, <2>2 DEF Request
  <2>4. at = "enter" => Holds(q.i, a)' BY <1>0, <1>3, <2>1 DEF Holds
  <2>5. at = "link" => Overtaken(q.i, a)' BY <1>0, <1>3 DEF Overtaken, IdentityConstants
  <2>6. Knows(r)' BY <1>0, <2>1, <2>3, <2>4, <2>5 DEF Knows
  <2> QED BY <1>0, <2>2, <2>6, ReadInv
<1>4. ASSUME NEW a \in WithMail(q.e), row[a].ids[KindOf[q.i]] \in {None, q.i},
             req' = [req EXCEPT ![r].at = IF row[a].ids[KindOf[q.i]] = None THEN "link" ELSE "enter",
                                ![r].a = a]
      PROVE  IInv'
  <2>1. CASE row[a].ids[KindOf[q.i]] = None
    <3>1. req' = [req EXCEPT ![r].at = "link", ![r].a = a] BY <1>4, <2>1
    <3> QED BY <1>3, <2>1, <3>1
  <2>2. CASE row[a].ids[KindOf[q.i]] # None
    <3>1. req' = [req EXCEPT ![r].at = "enter", ![r].a = a] BY <1>4, <2>2
    <3> QED BY <1>3, <1>4, <2>2, <3>1
  <2> QED BY <2>1, <2>2
<1> QED BY <1>1, <1>2, <1>4 DEF FindMail

LEMMA EnterInv ==
  ASSUME IdentityConstants, IInv, NEW r \in Requests, Enter(r)
  PROVE  IInv'
<1> PICK q : q = req[r] OBVIOUS
<1>1. q.i \in Ids /\ q.a \in Accounts /\ Holds(q.i, q.a) /\ UNCHANGED <<row, raced>>
  BY DEF IInv, Enter, Knows
<1>2. signed' = signed \cup {<<q.i, q.a>>} BY DEF Enter
<1>3. req' \in [Requests -> Request] /\ Knows(r)' /\ \A s \in Requests \ {r} : req'[s] = req[s]
  BY Answered DEF Enter
<1>4. TypeOK' BY <1>1, <1>2, <1>3 DEF IInv, TypeOK
<1>5. \A i, a : Holds(i, a)' <=> Holds(i, a) BY <1>1 DEF Holds, Alive, Exists
<1>6. \A p \in signed' : Holds(p[1], p[2])' BY <1>1, <1>2, <1>5 DEF IInv
<1>7. Unique' BY <1>1 DEF IInv, Unique, Holders, Exists
<1>8. \A s \in Requests \ {r} : Knows(s)' BY <1>1, <1>3, MildSame, MildKnows
<1> QED BY <1>3, <1>4, <1>6, <1>7, <1>8 DEF IInv

(* A link overwrites no identity that was signed in with, but for one that *)
(* was linked after it had looked.                                         *)
LEMMA LinkInv ==
  ASSUME IdentityConstants, IInv, NEW r \in Requests, Link(r)
  PROVE  IInv'
<1> PICK i, a : i = req[r].i /\ a = req[r].a OBVIOUS
<1>0. TypeOK BY DEF IInv
<1>1. /\ i \in Ids /\ a \in Accounts /\ Exists(a) /\ ~Taken(i, a) /\ Overtaken(i, a)
      /\ raced' = IF Rivals(i, a) = {} THEN raced ELSE raced \cup {<<i, a>>}
  BY DEF IInv, Link, Knows
<1>2. row[a] \in UserRow /\ KindOf[i] \in Kinds BY <1>0, <1>1, RowType DEF Kinds
<1> DEFINE new == [row[a] EXCEPT !.ids[KindOf[i]] = i]
<1>3. /\ new \in UserRow /\ new.mail = row[a].mail /\ new.ids[KindOf[i]] = i
      /\ \A j \in Ids : new.ids[KindOf[j]] = IF KindOf[j] = KindOf[i] THEN i ELSE row[a].ids[KindOf[j]]
  BY <1>1, <1>2 DEF UserRow, Kinds
<1>4. row' = [row EXCEPT ![a] = new] BY <1>0, <1>1 DEF Link, TypeOK
<1> HIDE DEF new
<1>5. row'[a] = new BY <1>0, <1>1, <1>4 DEF TypeOK
<1>6. new \notin {None, Gone} /\ row[a] \notin {None, Gone} BY <1>2, <1>3 DEF IdentityConstants
<1>7. raced \subseteq raced' /\ (Rivals(i, a) = {} \/ <<i, a>> \in raced') BY <1>1
<1>8. Alive(a)' => Alive(a) BY <1>3, <1>5, <1>6 DEF Alive, Exists
<1>9. Mild(a)
  <2>1. ASSUME Alive(a), NEW j \in Ids, row[a].ids[KindOf[j]] = j
        PROVE  row'[a].ids[KindOf[j]] = j \/ <<j, a>> \in raced'
    BY <1>1, <1>3, <1>5, <1>7, <2>1 DEF Overtaken
  <2>2. ASSUME NEW j \in Ids, row'[a].ids[KindOf[j]] = j
        PROVE  row[a].ids[KindOf[j]] = j \/ Rivals(j, a) = {} \/ <<j, a>> \in raced'
    BY <1>3, <1>5, <1>7, <2>2
  <2> QED BY <1>5, <1>6, <1>7, <1>8, <2>1, <2>2 DEF Mild
<1>10. Unique'
  <2>1. \A j \in Ids \ {i} :
          new.ids[KindOf[j]] = j => row[a] \in UserRow /\ row[a].ids[KindOf[j]] = j
    BY <1>2, <1>3
  <2> QED BY <1>1, <1>3, <1>4, <2>1, OneGained
<1>11. Holds(i, a)' BY <1>3, <1>5, <1>6 DEF Holds
<1>12. signed' = signed \cup {<<i, a>>} BY DEF Link
<1>13. signed' \subseteq Ids \X Accounts BY <1>0, <1>1, <1>12 DEF TypeOK
<1>14. \A p \in signed' \ signed : Holds(p[1], p[2])' BY <1>11, <1>12
<1>15. req' \in [Requests -> Request] /\ Knows(r)' /\ \A s \in Requests \ {r} : req'[s] = req[s]
  BY Answered DEF Link
<1> QED BY <1>1, <1>3, <1>4, <1>7, <1>9, <1>10, <1>13, <1>14, <1>15, WriteInv

(* A new account, with the one identity it is made for.                    *)
LEMMA InsertInv ==
  ASSUME IdentityConstants, IInv, NEW r \in Requests, Insert(r)
  PROVE  IInv'
<1> PICK i, e : i = req[r].i /\ e = req[r].e OBVIOUS
<1>0. TypeOK BY DEF IInv
<1>1. i \in Ids /\ e \in Mails /\ KindOf[i] \in Kinds
  BY DEF IInv, Insert, Knows, Kinds
<1> DEFINE new == User(e, Only(KindOf[i], i), FALSE)
<1>2. PICK a \in Accounts :
        /\ row[a] = None /\ ~Taken(i, a) /\ row' = [row EXCEPT ![a] = new]
        /\ signed' = signed \cup {<<i, a>>}
  BY DEF Insert
<1>3. /\ new \in UserRow /\ new.mail = e /\ new.ids[KindOf[i]] = i
      /\ \A j \in Ids : new.ids[KindOf[j]] = IF KindOf[j] = KindOf[i] THEN i ELSE None
  BY <1>1 DEF User, Only, Nobody, UserRow, Kinds
<1> HIDE DEF new
<1>4. row'[a] = new BY <1>0, <1>2 DEF TypeOK
<1>5. new \notin {None, Gone} BY <1>3 DEF IdentityConstants
<1>6. Mild(a) BY <1>2, <1>4, <1>5 DEF Mild, Insert
<1>7. \A j \in Ids : new.ids[KindOf[j]] = j => j = i BY <1>3 DEF IdentityConstants
<1>8. Unique'
  <2>1. \A j \in Ids \ {i} :
          new.ids[KindOf[j]] = j => row[a] \in UserRow /\ row[a].ids[KindOf[j]] = j
    BY <1>7
  <2> QED BY <1>1, <1>2, <1>3, <2>1, OneGained
<1>9. raced' = raced BY DEF Insert
<1>10. Holds(i, a)' BY <1>3, <1>4, <1>5 DEF Holds
<1>11. signed' \subseteq Ids \X Accounts BY <1>0, <1>1, <1>2 DEF TypeOK
<1>12. \A p \in signed' \ signed : Holds(p[1], p[2])' BY <1>2, <1>10
<1>13. req' \in [Requests -> Request] /\ Knows(r)' /\ \A s \in Requests \ {r} : req'[s] = req[s]
  BY Answered DEF Insert
<1> QED BY <1>2, <1>3, <1>6, <1>8, <1>9, <1>11, <1>12, <1>13, WriteInv

LEMMA RegisterInv ==
  ASSUME IdentityConstants, IInv, NEW r \in Requests, NEW e \in Mails, Register(r, e)
  PROVE  IInv'
<1> DEFINE rec == [Idle EXCEPT !.at = "register", !.e = e]
<1>1. Begin(r, rec) /\ UNCHANGED <<row, signed, raced>> BY DEF Register
<1>2. rec \in Request BY DEF Idle, Request, Steps
<1>3. req'[r] = rec => Knows(r)' BY DEF Knows, Idle
<1> QED BY <1>1, <1>2, <1>3, BeginInv

LEMMA CommitRegisterInv ==
  ASSUME IdentityConstants, IInv, NEW r \in Requests, CommitRegister(r)
  PROVE  IInv'
<1> PICK e : e = req[r].e OBVIOUS
<1>0. TypeOK /\ e \in Mails BY DEF IInv, CommitRegister, Knows
<1> DEFINE new == User(e, Nobody, TRUE)
<1>1. PICK a \in Accounts : row[a] = None /\ row' = [row EXCEPT ![a] = new] /\ UNCHANGED <<signed, raced>>
  BY DEF CommitRegister
<1>2. /\ new \in UserRow /\ \A j \in Ids : new.ids[KindOf[j]] = None
  BY <1>0 DEF User, Nobody, UserRow, Kinds
<1> HIDE DEF new
<1>3. row'[a] = new BY <1>0, <1>1 DEF TypeOK
<1>4. new \notin {None, Gone} BY <1>2 DEF IdentityConstants
<1>5. Mild(a) BY <1>1, <1>3, <1>4 DEF Mild
<1>6. \A j \in Ids : new.ids[KindOf[j]] # j BY <1>2 DEF IdentityConstants
<1>7. Unique'
  <2>1. new \in UserRow =>
          \A j \in Ids : new.ids[KindOf[j]] = j => row[a] \in UserRow /\ row[a].ids[KindOf[j]] = j
    BY <1>6
  <2> QED BY <1>1, <1>2, <2>1, NoneGained
<1>8. signed' \subseteq Ids \X Accounts BY <1>0, <1>1 DEF TypeOK
<1>9. req' \in [Requests -> Request] /\ Knows(r)' /\ \A s \in Requests \ {r} : req'[s] = req[s]
  BY Answered DEF CommitRegister
<1> QED BY <1>1, <1>2, <1>5, <1>6, <1>7, <1>8, <1>9, WriteInv

LEMMA LoadMeInv ==
  ASSUME IdentityConstants, IInv, NEW r \in Requests, NEW a \in Accounts,
         NEW at \in {"password", "erase"}, LoadMe(r, a, at)
  PROVE  IInv'
<1>1. row[a] \in UserRow /\ UNCHANGED <<row, signed, raced>> BY RowType DEF LoadMe, IInv
<1> DEFINE rec == [Idle EXCEPT !.at = at, !.a = a, !.copy = row[a]]
<1>2. Begin(r, rec) BY DEF LoadMe
<1>3. rec \in Request BY <1>1 DEF Idle, Request, Steps
<1>4. req'[r] = rec => Knows(r)' BY <1>1 DEF Knows, Idle
<1> QED BY <1>1, <1>2, <1>3, <1>4, BeginInv

LEMMA LoadStatusInv ==
  ASSUME IdentityConstants, IInv, NEW r \in Requests, NEW a \in Accounts, LoadStatus(r, a)
  PROVE  IInv'
<1> DEFINE rec == [Idle EXCEPT !.at = "status", !.a = a, !.to = ~row[a].active]
<1>1. Begin(r, rec) /\ UNCHANGED <<row, signed, raced>> BY DEF LoadStatus
<1>2. rec \in Request BY DEF Idle, Request, Steps
<1>3. req'[r] = rec => Knows(r)' BY DEF Knows, Idle
<1> QED BY <1>1, <1>2, <1>3, BeginInv

(* The account a request saves, and what saving needs.                     *)
LEMMA Saving ==
  ASSUME IdentityConstants, IInv, NEW r \in Requests, NEW new, Save(r, new),
         req[r].at \in {"password", "erase", "status"}
  PROVE  /\ req[r].a \in Accounts /\ row[req[r].a] \in UserRow
         /\ row' = [row EXCEPT ![req[r].a] = new] /\ UNCHANGED <<signed, raced>>
         /\ signed' \subseteq Ids \X Accounts
         /\ req' \in [Requests -> Request] /\ Knows(r)'
         /\ \A s \in Requests \ {r} : req'[s] = req[s]
<1>1. TypeOK /\ Knows(r) /\ Exists(req[r].a) /\ Answer(r) BY DEF Save, IInv
<1>2. req[r].a \in Accounts BY <1>1 DEF Knows
<1> QED BY <1>1, <1>2, RowType, Answered DEF Save, TypeOK

LEMMA CommitPasswordInv ==
  ASSUME IdentityConstants, IInv, NEW r \in Requests, CommitPassword(r)
  PROVE  IInv'
<1>1. Save(r, NewPassword(r)) /\ req[r].at = "password" BY DEF CommitPassword
<1>2. row[req[r].a] \in UserRow BY <1>1, Saving
<1>3. /\ NewPassword(r) \in UserRow /\ NewPassword(r).mail = row[req[r].a].mail
      /\ NewPassword(r).ids = row[req[r].a].ids
  BY <1>2 DEF NewPassword, UserRow
<1> QED BY <1>1, <1>2, <1>3, Saving, SameIdsInv

LEMMA CommitStatusInv ==
  ASSUME IdentityConstants, IInv, NEW r \in Requests, CommitStatus(r)
  PROVE  IInv'
<1> DEFINE new == [row[req[r].a] EXCEPT !.active = req[r].to]
<1>1. Save(r, new) /\ req[r].at = "status" /\ req[r].to \in BOOLEAN
  BY DEF CommitStatus, IInv, Knows
<1>2. row[req[r].a] \in UserRow BY <1>1, Saving
<1>3. new \in UserRow /\ new.mail = row[req[r].a].mail /\ new.ids = row[req[r].a].ids
  BY <1>1, <1>2 DEF UserRow
<1> HIDE DEF new
<1> QED BY <1>1, <1>2, <1>3, Saving, SameIdsInv

(* An erased account keeps what it was linked to after it was loaded.      *)
LEMMA CommitEraseInv ==
  ASSUME IdentityConstants, IInv, NEW r \in Requests, CommitErase(r)
  PROVE  IInv'
<1> PICK a, copy : a = req[r].a /\ copy = req[r].copy OBVIOUS
<1> DEFINE new == Emptied(row[a], copy)
<1>1. Save(r, new) /\ req[r].at = "erase" /\ copy \in UserRow
  BY DEF CommitErase, IInv, Knows
<1>2. a \in Accounts /\ row[a] \in UserRow /\ row' = [row EXCEPT ![a] = new] BY <1>1, Saving
<1>3. /\ new \in UserRow /\ new.mail = None
      /\ \A j \in Ids : new.ids[KindOf[j]] \in {None, row[a].ids[KindOf[j]]}
  BY <1>1, <1>2 DEF UserRow, Emptied, Kinds
<1> HIDE DEF new
<1>4. row'[a] = new BY <1>2 DEF IInv, TypeOK
<1>5. new \notin {None, Gone} BY <1>3 DEF IdentityConstants
<1>6. ~Alive(a)' BY <1>3, <1>4 DEF Alive
<1>7. Mild(a) /\ raced' = raced BY <1>1, <1>4, <1>5, <1>6, Saving DEF Mild
<1>8. Unique'
  <2>1. \A j \in Ids : new.ids[KindOf[j]] = j => row[a].ids[KindOf[j]] = j
    BY <1>3 DEF IdentityConstants
  <2> QED BY <1>2, <1>3, <2>1, NoneGained
<1> QED BY <1>1, <1>2, <1>3, <1>6, <1>7, <1>8, Saving, WriteInv

LEMMA ResetInv ==
  ASSUME IdentityConstants, IInv, NEW a \in Accounts, Reset(a)
  PROVE  IInv'
<1> DEFINE new == [row[a] EXCEPT !.pw = TRUE]
<1>1. TypeOK /\ row[a] \in UserRow BY RowType DEF Reset, IInv
<1>2. new \in UserRow /\ new.mail = row[a].mail /\ new.ids = row[a].ids BY <1>1 DEF UserRow
<1>3. row' = [row EXCEPT ![a] = new] BY <1>1 DEF Reset, TypeOK
<1> HIDE DEF new
<1>4. UNCHANGED <<signed, raced, req>> /\ req \in [Requests -> Request] BY <1>1 DEF Reset, TypeOK
<1> QED BY <1>1, <1>2, <1>3, <1>4, SameIdsInv

LEMMA RemoveInv ==
  ASSUME IdentityConstants, IInv, NEW a \in Accounts, Remove(a)
  PROVE  IInv'
<1>1. TypeOK /\ row[a] \in UserRow /\ row' = [row EXCEPT ![a] = Gone] /\ UNCHANGED <<signed, raced, req>>
  BY RowType DEF Remove, IInv
<1>2. row'[a] = Gone BY <1>1 DEF TypeOK
<1>3. ~Alive(a)' BY <1>2 DEF Alive, Exists
<1>4. Gone \notin UserRow BY DEF IdentityConstants
<1>5. Unique'
  <2>1. \A i \in Ids : Holders(i)' \subseteq Holders(i)
    BY <1>1, <1>2 DEF TypeOK, Holders, Exists
  <2> QED BY <2>1 DEF IInv, Unique
<1>6. CASE Gone # None
  <2>1. Mild(a) BY <1>1, <1>2, <1>3, <1>6 DEF Mild
  <2>2. signed' \subseteq Ids \X Accounts /\ req' \in [Requests -> Request] BY <1>1 DEF TypeOK
  <2> QED BY <1>1, <1>3, <1>5, <2>1, <2>2, WriteInv
<1> QED BY <1>6 DEF IdentityConstants

LEMMA FailInv ==
  ASSUME IdentityConstants, IInv, NEW r \in Requests, Fail(r)
  PROVE  IInv'
  BY Answered, ReadInv DEF Fail, Refuse

(* IInv is inductive.                                                      *)
LEMMA NextInv ==
  ASSUME IdentityConstants, IInv, [Next]_vars
  PROVE  IInv'
<1>1. CASE UNCHANGED vars
  <2>1. TypeOK' /\ Unique' BY <1>1 DEF IInv, TypeOK, Unique, Holders, Exists, vars
  <2>2. \A p \in signed' : Holds(p[1], p[2])' BY <1>1 DEF IInv, Holds, Alive, Exists, vars
  <2>3. \A r \in Requests : Knows(r)' BY <1>1, MildSame, MildKnows DEF vars
  <2> QED BY <2>1, <2>2, <2>3 DEF IInv
<1>2. CASE \E a \in Accounts : Reset(a) \/ Remove(a) BY <1>2, ResetInv, RemoveInv
<1>3. ASSUME NEW r \in Requests,
             \/ \E i \in Ids, e \in Mails : FindIdentity(r, i, e)
             \/ FindMail(r) \/ Enter(r) \/ Link(r) \/ Insert(r)
             \/ \E e \in Mails : Register(r, e)
             \/ CommitRegister(r)
             \/ \E a \in Accounts :
                  LoadStatus(r, a) \/ \E at \in {"password", "erase"} : LoadMe(r, a, at)
             \/ CommitPassword(r) \/ CommitErase(r) \/ CommitStatus(r) \/ Fail(r)
      PROVE  IInv'
  BY <1>3, FindIdentityInv, FindMailInv, EnterInv, LinkInv, InsertInv, RegisterInv,
     CommitRegisterInv, LoadStatusInv, LoadMeInv, CommitPasswordInv, CommitEraseInv,
     CommitStatusInv, FailInv
<1> QED BY <1>1, <1>2, <1>3 DEF Next

(* One account each, from what the index and the sign-ins keep.            *)
LEMMA InvOne == ASSUME IdentityConstants, IInv PROVE OneAccountEach
<1> SUFFICES ASSUME NEW p \in signed, Alive(p[2]), p \notin raced
             PROVE  Holders(p[1]) = {p[2]}
  BY DEF OneAccountEach
<1>0. p = <<p[1], p[2]>> BY DEF IInv, TypeOK
<1>1. p[1] \in Ids /\ p[2] \in Accounts /\ Holds(p[1], p[2]) BY DEF IInv, TypeOK
<1>2. p[2] \in Holders(p[1]) BY <1>0, <1>1 DEF Holds, Holders, Alive
<1> QED BY <1>1, <1>2 DEF IInv, Unique

(* However the first sign-ins of an identity overlap with each other, with *)
(* registrations of its address, with PATCHes and with erasures, it signs  *)
(* in to one account, which keeps it until it is erased or removed, unless *)
(* another identity of the kind was being linked there at the same time.   *)
THEOREM OneAccount == ASSUME IdentityConstants PROVE Spec => []OneAccountEach
<1>1. Init => IInv BY InitInv
<1>2. IInv /\ [Next]_vars => IInv' BY NextInv
<1>3. IInv => OneAccountEach BY InvOne
<1> QED BY <1>1, <1>2, <1>3, PTL DEF Spec
=============================================================================
